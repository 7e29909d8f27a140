-------------------------- MODULE EEPROMEmulation --------------------------
(***************************************************************************)
(* EEPROMEmulation (services/inc/eeprom_emulation.h): bytes that can be    *)
(* rewritten, emulated with logs of records on two flash pages.  A put     *)
(* appends a record for every byte that changes, the last one first, since *)
(* reads stop at the first slot that holds no valid record.  When the page *)
(* is full or spoilt the put moves everything to the other page.           *)
(*                                                                         *)
(* Flash is programmed by halves of a record (flash_storage_impl.h), or    *)
(* byte by byte by the flash of the unit tests.  The device may be reset   *)
(* in the middle of every operation on flash, and programming may fail:    *)
(* what a marginal cell reads back is not what was written to it.          *)
(***************************************************************************)
EXTENDS Naturals, Sequences, FiniteSets, FiniteSetsExt

CONSTANTS
    Capacity,     \* capacity()
    Slots,        \* records each page has room for
    Value,        \* of a byte, other than FLASH_ERASED
    Blank,        \* FLASH_ERASED
    Empty,        \* a slot in which nothing was programmed
    Invalid,      \* a slot with a record that is neither empty nor valid
    None,
    Bytewise,     \* whether flash is programmed byte by byte
    MaxLength,    \* of a put
    MaxFailures   \* failures of programming during one put

Page == {1, 2}
Cell == 0 .. Capacity - 1
Content == Value \cup {Blank}

ASSUME EEPROMAssumption ==
    /\ Capacity \in Nat \ {0}
    /\ Slots \in [Page -> Nat] /\ \A p \in Page : Slots[p] >= Capacity
    /\ Blank \notin Value
    /\ Bytewise \in BOOLEAN
    /\ MaxLength \in Nat /\ MaxFailures \in Nat

\* An index larger than every cell: some of its bits were not programmed.
StrayIndex == Capacity

Record == [index : Cell \cup {StrayIndex}, data : Content]

ASSUME SlotAssumption == {Empty, Invalid} \cap Record = {} /\ None \notin Page

PageStatus == {"erased", "copy", "active", "inactive", "other"}

VARIABLES
    status,      \* of the header of each page
    slot,        \* the records of each page
    activePage,
    pc,          \* next flash operation of the call under way
    todo,        \* records left to write, each with its slot
    tries,       \* attempts of the page swap before this one
    job,         \* the last put since a clear: its first index and its data
    \* history
    before,      \* what the EEPROM held when that put began
    spoilt,      \* bytes that records are about which that put spoilt in sight of get()
    failures,    \* writes that failed in the put under way
    unretired,   \* marking the old page inactive failed, and has not been made up for
    result       \* of the last call

pages == <<status, slot>>
vars == <<pages, activePage, pc, todo, tries, job, before, spoilt, failures, unretired, result>>

Alternate(p) == 3 - p

\* updateActivePage(): the first active page.
ActiveOf(st) ==
    IF st[1] = "active" THEN 1 ELSE IF st[2] = "active" THEN 2 ELSE None

-----------------------------------------------------------------------------
(* Reading a page *)

Valid(r) == r \notin {Empty, Invalid}

\* forEachValidRecord(): up to the first record that is not valid.
ValidSlots(page) == {s \in DOMAIN page : \A t \in 1 .. s : Valid(page[t])}

FirstFree(page) == Cardinality(ValidSlots(page)) + 1

Holding(page, i) == {s \in ValidSlots(page) : page[s].index = i}

\* readRange(): the latest value of a byte, 0xFF if it was not programmed.
ValueOf(page, i) == IF Holding(page, i) = {} THEN Blank ELSE page[Max(Holding(page, i))].data

ContentOf(p) == [c \in Cell |-> IF p = None THEN Blank ELSE ValueOf(slot[p], c)]

\* What get() returns.
Get == ContentOf(activePage)

\* What get() would return after a reset now.
GetAfterReset == ContentOf(ActiveOf(status))

BlankPage(p) == [s \in 1 .. Slots[p] |-> Empty]

VerifyPage(p) == status[p] = "erased" /\ slot[p] = BlankPage(p)
-----------------------------------------------------------------------------
(* What a put writes *)

Nth(S, n) == CHOOSE i \in S : Cardinality({j \in S : j < i}) = n - 1

InBlock(j, i) == j.first <= i /\ i < j.first + Len(j.data)

IndexOf(j, k) == j.first + k - 1

New(j, k) == [index |-> IndexOf(j, k), data |-> j.data[k]]

\* Positions in the block of the bytes that change.
Changed(page, j) == {k \in DOMAIN j.data : j.data[k] # ValueOf(page, IndexOf(j, k))}

HasInvalidRecords(page) == FirstFree(page) \in DOMAIN page /\ page[FirstFree(page)] = Invalid

\* Mutant: leftovers of an interrupted put are not looked for.
SeparatedAlways(page, count) == TRUE

\* The slot behind the new records is empty, or they reach the end of the page.
Separated(page, count) ==
    LET separator == FirstFree(page) + count
    IN  separator \in DOMAIN page => page[separator] = Empty

\* Mutant: the records are written in the order they will be read.
AppendedForwards(page, j) ==
    LET changed == Changed(page, j)
    IN  [n \in 1 .. Cardinality(changed) |->
            [slot   |-> FirstFree(page) + n - 1,
             record |-> New(j, Nth(changed, n))]]

\* writeRangeChanged(): from the far end back to the first free slot.
Appended(page, j) ==
    LET changed == Changed(page, j)
    IN  [n \in 1 .. Cardinality(changed) |->
            [slot   |-> FirstFree(page) + Cardinality(changed) - n,
             record |-> New(j, Nth(changed, n))]]

\* swapPagesAndWrite(): the bytes to keep, in the order of their indexes, then
\* the block.  Bytes that are 0xFF are left out.
Moved(page, j) ==
    LET kept == {i \in Cell \cup {StrayIndex} : ~ InBlock(j, i) /\ ValueOf(page, i) # Blank}
        new  == {k \in DOMAIN j.data : j.data[k] # Blank}
    IN  [n \in 1 .. Cardinality(kept) + Cardinality(new) |->
            [slot   |-> n,
             record |-> IF n <= Cardinality(kept)
                        THEN [index |-> Nth(kept, n), data |-> ValueOf(page, Nth(kept, n))]
                        ELSE New(j, Nth(new, n - Cardinality(kept)))]]
-----------------------------------------------------------------------------
(* Programming flash: bits change from 1 to 0 only *)

\* A header that is programmed byte by byte can stop in between.
StatusCutShort(old, new) == {old, new} \cup (IF Bytewise THEN {"other"} ELSE {})

\* Data written over earlier data: the bits are combined.
Combined(x, r) == IF x = Empty THEN {r.data} ELSE Content

\* What writing record r leaves in a slot that held x.
Written(x, r) ==
    IF x = r THEN {r}
    ELSE [index : IF Valid(x) THEN Cell ELSE {r.index}, data : Combined(x, r)]

\* The record when only a part of it was programmed.  Its first half makes it
\* invalid, with the first byte of its index it is a valid record of an index
\* that no byte has.
HalfWritten(x, r) ==
    IF Valid(x) THEN [index : {x.index}, data : Content]
    ELSE {Invalid} \cup (IF Bytewise THEN [index : {StrayIndex}, data : Combined(x, r)] ELSE {})

CutShort(x, r) == {x} \cup (IF x = r THEN {} ELSE HalfWritten(x, r))

\* What is read back when writing r over x fails.  Marginal cells turn 1 into 0
\* and others may not be programmed, so that it may be any record but r.
Misread(x, r) == (Record \cup {x} \cup (IF Valid(x) THEN {} ELSE {Invalid})) \ {r}
-----------------------------------------------------------------------------
(* The device starts with blank pages. *)

Init ==
    /\ status = [p \in Page |-> "erased"]
    /\ slot = [p \in Page |-> BlankPage(p)]
    /\ activePage = None
    /\ pc = "boot"
    /\ todo = <<>> /\ tries = 0 /\ job = None
    /\ before = [c \in Cell |-> Blank] /\ spoilt = {}
    /\ failures = 0 /\ unretired = FALSE /\ result = "none"

\* init().  clear() is what remains to be done without an active page.
Boot ==
    /\ pc = "boot"
    /\ activePage' = ActiveOf(status)
    /\ pc' = IF ActiveOf(status) = None THEN "clear1" ELSE "idle"
    /\ job' = IF ActiveOf(status) = None THEN None ELSE job
    /\ UNCHANGED <<pages, todo, tries, before, spoilt, failures, unretired, result>>

Return(r) == pc' = "idle" /\ todo' = <<>> /\ tries' = 0 /\ failures' = 0 /\ result' = r
-----------------------------------------------------------------------------
(* put() *)

\* An attempt of swapPagesAndWrite begins.  The page is not erased again in
\* the first attempt if it is blank.
Attempt(j, n) ==
    /\ tries' = n
    /\ todo' = Moved(slot'[activePage], j)
    /\ pc' = IF n = 0 /\ VerifyPage(Alternate(activePage)) THEN "mark" ELSE "erase"
    /\ UNCHANGED result

\* writeRangeChanged() begins; writeRecord() refuses what does not fit.
CanAppend(page, j) ==
    /\ ~ HasInvalidRecords(page)
    /\ Separated(page, Cardinality(Changed(page, j)))
    /\ FirstFree(page) + Cardinality(Changed(page, j)) - 1 <= Len(page)

Put(j) ==
    /\ pc = "idle" /\ activePage # None
    /\ j.first + Len(j.data) <= Capacity
    /\ UNCHANGED <<pages, activePage, unretired>>
    /\ job' = j /\ before' = Get /\ spoilt' = {}
    /\ LET page == slot[activePage]
       IN  IF ~ HasInvalidRecords(page) /\ Changed(page, j) = {} THEN Return("done")
           ELSE IF CanAppend(page, j)
           THEN pc' = "append" /\ todo' = Appended(page, j) /\ UNCHANGED <<tries, failures, result>>
           ELSE Attempt(j, 0) /\ UNCHANGED failures

BeginPut ==
    \E length \in 1 .. MaxLength : \E first \in Cell, data \in [1 .. length -> Content] :
        Put([first |-> first, data |-> data])

\* Mutant: the swap is attempted until it succeeds.
OnFailureAgain(f) ==
    /\ failures' = f
    /\ IF pc = "append" THEN Attempt(job, 0) ELSE Attempt(job, tries + 1)

\* A write of the put failed: what was appended is given up for a page swap,
\* and the page swap is tried once more.
OnFailure(f) ==
    IF pc = "append" THEN Attempt(job, 0) /\ failures' = f
    ELSE IF tries = 0 THEN Attempt(job, 1) /\ failures' = f
    ELSE Return("failed")

\* The page that is written, and the page swapped to.
Target == IF pc = "append" THEN activePage ELSE Alternate(activePage)

EraseDestination ==
    /\ pc = "erase"
    /\ status' = [status EXCEPT ![Target] = "erased"]
    /\ slot' = [slot EXCEPT ![Target] = BlankPage(Target)]
    /\ pc' = "mark"
    /\ UNCHANGED <<activePage, todo, tries, job, before, spoilt, failures, unretired, result>>

MarkCopy ==
    /\ pc = "mark"
    /\ status' = [status EXCEPT ![Target] = "copy"]
    /\ pc' = IF todo = <<>> THEN "activate" ELSE "move"
    /\ UNCHANGED <<slot, activePage, todo, tries, job, before, spoilt, failures, unretired, result>>

NextWrite == Head(todo)

AfterRecord ==
    IF Tail(todo) # <<>>
    THEN todo' = Tail(todo) /\ UNCHANGED <<pc, tries, failures, result>>
    ELSE IF pc = "append" THEN Return("done")
    ELSE pc' = "activate" /\ todo' = <<>> /\ UNCHANGED <<tries, failures, result>>

\* Also read back: over the remains of an earlier put it may come out as
\* something else.
WriteRecord ==
    /\ pc \in {"append", "move"}
    /\ IF NextWrite.slot > Slots[Target]
       THEN UNCHANGED slot /\ OnFailure(failures)
       ELSE \E x \in Written(slot[Target][NextWrite.slot], NextWrite.record) :
                /\ slot' = [slot EXCEPT ![Target][NextWrite.slot] = x]
                /\ IF x = NextWrite.record THEN AfterRecord ELSE OnFailure(failures)
    /\ UNCHANGED <<status, activePage, job, before, spoilt, unretired>>

Activate ==
    /\ pc = "activate"
    /\ status' = [status EXCEPT ![Target] = "active"]
    /\ pc' = "retire"
    /\ UNCHANGED <<slot, activePage, todo, tries, job, before, spoilt, failures, unretired, result>>

\* Mutant: the active page is not worked out again.
RetireOnly ==
    /\ pc = "retire"
    /\ status' = [status EXCEPT ![activePage] = "inactive"]
    /\ UNCHANGED activePage
    /\ Return("done")
    /\ unretired' = FALSE
    /\ UNCHANGED <<slot, job, before, spoilt>>

RetireSource ==
    /\ pc = "retire"
    /\ status' = [status EXCEPT ![activePage] = "inactive"]
    /\ activePage' = ActiveOf(status')
    /\ Return("done")
    /\ unretired' = FALSE
    /\ UNCHANGED <<slot, job, before, spoilt>>

Writing == pc \in {"append", "move"} /\ NextWrite.slot <= Slots[Target]

\* The header an operation writes, and what it writes there.
HeaderWrite ==
    CASE pc = "mark"     -> [page |-> Target, status |-> "copy"]
      [] pc = "activate" -> [page |-> Target, status |-> "active"]
      [] pc = "retire"   -> [page |-> activePage, status |-> "inactive"]
      [] pc = "clear3"   -> [page |-> 1, status |-> "active"]

HeaderCutShort ==
    /\ \E st \in StatusCutShort(status[HeaderWrite.page], HeaderWrite.status) :
          status' = [status EXCEPT ![HeaderWrite.page] = st]
    /\ UNCHANGED slot

RecordCutShort ==
    /\ \E x \in CutShort(slot[Target][NextWrite.slot], NextWrite.record) :
          slot' = [slot EXCEPT ![Target][NextWrite.slot] = x]
    /\ UNCHANGED status

\* The record written last by an append, to the first free slot, makes all of them visible.
InSight(x) == pc = "append" /\ NextWrite.slot = FirstFree(slot[activePage]) /\ Valid(x)

RecordFails ==
    /\ Writing
    /\ \E x \in Misread(slot[Target][NextWrite.slot], NextWrite.record) :
          /\ slot' = [slot EXCEPT ![Target][NextWrite.slot] = x]
          /\ spoilt' = IF InSight(x) THEN {NextWrite.record.index, x.index} \cap Cell ELSE spoilt
    /\ UNCHANGED status

\* A header stays as it was or reads back as no status that the code looks for.
HeaderFails ==
    /\ pc \in {"mark", "activate", "retire"}
    /\ \E st \in {status[HeaderWrite.page], "other"} \ {HeaderWrite.status} :
          status' = [status EXCEPT ![HeaderWrite.page] = st]
    /\ UNCHANGED <<slot, spoilt>>

\* What is read back after programming is not what was written.
Fail ==
    /\ failures < MaxFailures
    /\ RecordFails \/ HeaderFails
    /\ OnFailure(failures + 1)
    /\ unretired' = (unretired \/ pc = "retire")
    /\ UNCHANGED <<activePage, job, before>>
-----------------------------------------------------------------------------
(* clear(), performPendingErase() and resets *)

BeginClear ==
    /\ pc = "idle"
    /\ pc' = "clear1"
    /\ job' = None
    /\ UNCHANGED <<pages, activePage, todo, tries, before, spoilt, failures, unretired, result>>

ErasePage(p) ==
    /\ status' = [status EXCEPT ![p] = "erased"]
    /\ slot' = [slot EXCEPT ![p] = BlankPage(p)]

ClearPage(p, then) ==
    /\ ErasePage(p)
    /\ pc' = then
    /\ UNCHANGED <<activePage, todo, tries, job, before, spoilt, failures, unretired, result>>

ClearPage1 == pc = "clear1" /\ ClearPage(1, "clear2")

ClearPage2 == pc = "clear2" /\ ClearPage(2, "clear3")

ClearDone ==
    /\ pc = "clear3"
    /\ status' = [status EXCEPT ![1] = "active"]
    /\ activePage' = ActiveOf(status')
    /\ Return("cleared")
    /\ unretired' = FALSE
    /\ UNCHANGED <<slot, job, before, spoilt>>

\* getPendingErasePage(): the other page, unless its header is erased.
PendingErase == pc = "idle" /\ status[Alternate(activePage)] # "erased"

BeginPendingErase ==
    /\ PendingErase
    /\ pc' = "pending"
    /\ UNCHANGED <<pages, activePage, todo, tries, job, before, spoilt, failures, unretired, result>>

PerformPendingErase ==
    /\ pc = "pending"
    /\ ErasePage(Alternate(activePage))
    /\ pc' = "idle"
    /\ UNCHANGED <<activePage, todo, tries, job, before, spoilt, failures, unretired, result>>

EraseCutShort(p) ==
    /\ \E st \in {status[p], "erased"} : status' = [status EXCEPT ![p] = st]
    /\ \E erased \in SUBSET DOMAIN slot[p] :
          slot' = [slot EXCEPT ![p] = [s \in DOMAIN @ |-> IF s \in erased THEN Empty ELSE @[s]]]

\* The device is reset.
Reset ==
    /\ pc # "boot"
    /\ CASE Writing -> RecordCutShort
         [] pc \in {"mark", "activate", "retire", "clear3"} -> HeaderCutShort
         [] pc \in {"erase", "pending"} -> EraseCutShort(Alternate(activePage))
         [] pc = "clear1" -> EraseCutShort(1)
         [] pc = "clear2" -> EraseCutShort(2)
         [] OTHER -> UNCHANGED pages
    /\ pc' = "boot" /\ activePage' = None /\ todo' = <<>> /\ tries' = 0 /\ failures' = 0
    /\ result' = "reset"
    /\ job' = IF unretired THEN None ELSE job
    /\ unretired' = FALSE
    /\ UNCHANGED <<before, spoilt>>

Next ==
    \/ Boot
    \/ BeginPut \/ WriteRecord \/ EraseDestination \/ MarkCopy \/ Activate \/ RetireSource \/ Fail
    \/ BeginClear \/ ClearPage1 \/ ClearPage2 \/ ClearDone
    \/ BeginPendingErase \/ PerformPendingErase
    \/ Reset

Spec == Init /\ [][Next]_vars
-----------------------------------------------------------------------------
(* Properties *)

Slot == {Empty, Invalid} \cup Record

Calls == {"boot", "idle", "append", "erase", "mark", "move", "activate", "retire",
          "clear1", "clear2", "clear3", "pending"}

TypeOK ==
    /\ status \in [Page -> PageStatus]
    /\ \A p \in Page : slot[p] \in [1 .. Slots[p] -> Slot]
    /\ activePage \in Page \cup {None}
    /\ pc \in Calls
    /\ \A n \in DOMAIN todo : todo[n].slot \in Nat \ {0} /\ todo[n].record \in Record
    /\ tries \in {0, 1}
    /\ before \in [Cell -> Content] /\ spoilt \in SUBSET Cell
    /\ failures \in 0 .. MaxFailures
    /\ unretired \in BOOLEAN

After == [c \in Cell |-> IF InBlock(job, c) THEN job.data[c - job.first + 1] ELSE before[c]]

AllOrNothing(content) ==
    \E whole \in {before, After} : \A c \in Cell \ spoilt : content[c] = whole[c]

\* "The write will be atomic (all or nothing) even if a reset occurs during the
\* write": at every moment of a put, and after it, a reset leaves all of the
\* block or none of it, and every other byte as it was.  If the record that
\* makes an append visible reads back as another one, the byte it was for and
\* the one it is about then are not bound to that; and if marking the old page
\* inactive has failed nothing is, for the second attempt erases the page that
\* was just made active.
AtomicPut == job # None /\ ~ unretired => AllOrNothing(GetAfterReset)

\* What get() returns between calls is what it would return after a reset.
ReadsAreDurable == pc = "idle" /\ ~ unretired => Get = GetAfterReset

Stored(content) ==
    \A c \in Cell : content[c] = After[c] \/ (c \in spoilt /\ ~ InBlock(job, c))

\* When a put returns and one of its attempts succeeded, get() returns what was
\* put and nothing else has changed, whatever the remains of interrupted puts
\* in the page, except the byte that a record with a spoilt index is about.
PutStores == pc = "idle" /\ result = "done" => Stored(Get)

=============================================================================
