------------------------------ MODULE FlashDCD ------------------------------
(***************************************************************************)
(* DCD (services/inc/dcd.h): rewritable storage emulated on two flash      *)
(* sectors, which keeps the device configuration.  A write copies the      *)
(* current sector with the change into the other one, seals the copy and   *)
(* marks the old sector superseded.  Which sector is current is worked out *)
(* anew each time from headers, counters and checksums.                    *)
(*                                                                         *)
(* Every operation on flash may be cut short by a reset or fail, with any  *)
(* of the words it works on done, not done or damaged: the store goes on   *)
(* after a word that failed and compares them all in the end.              *)
(* Callers hold the lock of dct_hal.cpp, so writes do not overlap.         *)
(***************************************************************************)
EXTENDS Naturals

CONSTANTS
    CellCount,   \* the data area is this many cells, written in order
    Value,       \* contents of a cell
    Blank,       \* an erased cell
    NoCrc,       \* a checksum word that matches no content
    None,
    Factory,     \* states the sectors may be in before the first use
    LoneSeal     \* a watermark may fail where the seal next to it is written

ASSUME DCDAssumption ==
    /\ CellCount \in Nat \ {0}
    /\ Blank \notin Value
    /\ Factory \subseteq {"blank", "v1", "garbage"}
    /\ LoneSeal \in BOOLEAN

Cell == 1 .. CellCount
Content == Value \cup {Blank}
Sector == {0, 1}
Unknown == 255

\* Everything the checksum of a sector covers.
Covered == [data : [Cell -> Content], footer : BOOLEAN, counter : 0 .. 3]

ASSUME CrcAssumption == NoCrc \notin Covered /\ None \notin Sector

\* The words of a header.  "other" is anything else, which may or may not have
\* the bits to be overwritten.
Mark == {"blank", "valid", "other"}
Seal == {"blank", "valid", "superseded", "other"}   \* SEAL_VALID, SEAL_INVALID_V2

SectorState ==
    [mark : Mark,                               \* header watermark
     seal : Seal,
     data : [Cell -> Content],
     footer : BOOLEAN,                          \* footer watermark
     counter : 0 .. 3,
     crc : Covered \cup {NoCrc}]

Erased == [mark |-> "blank", seal |-> "blank", data |-> [c \in Cell |-> Blank],
           footer |-> FALSE, counter |-> 3, crc |-> NoCrc]

VARIABLES
    flash,     \* the two sectors
    pc,        \* next flash operation of the call under way
    source,    \* sector being copied, None when a sector is initialized
    target,    \* sector being written
    next,      \* next cell to copy
    job,       \* the change to make, None for read()
    \* history
    before,    \* what read() returned when the write began
    result     \* of the last call

vars == <<flash, pc, source, target, next, job, before, result>>
control == <<source, target, job, before>>

\* No call is under way: its local variables are gone.
Done ==
    /\ pc' = "idle"
    /\ source' = None /\ target' = 0 /\ next' = 1
    /\ UNCHANGED <<job, before>>

-----------------------------------------------------------------------------
(* Which sector is current *)

HeaderValid(s) == s.mark = "valid" /\ s.seal \in {"valid", "superseded"}

\* Mutant: the checksum ends before the counter.
CounterUncovered(s) == [data |-> s.data, footer |-> s.footer, counter |-> 0]

ComputeCRC(s) == [data |-> s.data, footer |-> s.footer, counter |-> s.counter]

CrcValid(s) == s.footer /\ s.crc = ComputeCRC(s)

FindValidSector(f) ==
    IF HeaderValid(f[0]) THEN 0 ELSE IF HeaderValid(f[1]) THEN 1 ELSE Unknown

AlternateTo(s) == IF s = 0 THEN 1 ELSE 0

\* Mutant: the counters are compared without wrapping round.
LargerCounter(f, p, s) == IF f[s].counter > f[p].counter THEN s ELSE p

\* _currentSector
MostRecent(f, p, s) == IF (f[p].counter + 1) % 4 = f[s].counter THEN s ELSE p

EvaluateSectors(f, p, s) ==
    CASE f[s].seal = "valid" ->
            IF CrcValid(f[p]) # CrcValid(f[s]) THEN IF CrcValid(f[p]) THEN p ELSE s
            ELSE IF CrcValid(f[p]) THEN MostRecent(f, p, s)
            ELSE 1
      [] f[s].seal = "superseded" -> IF CrcValid(f[p]) THEN p ELSE s
      [] OTHER -> p

CurrentSector(f) ==
    LET primary == FindValidSector(f)
    IN  IF primary = Unknown THEN Unknown
        ELSE EvaluateSectors(f, primary, AlternateTo(primary))

\* What read() returns; it initializes a sector to 0xFF when there is none.
Read(f) == IF CurrentSector(f) = Unknown THEN [c \in Cell |-> Blank]
           ELSE f[CurrentSector(f)].data
-----------------------------------------------------------------------------
(* The device before its first use: both sectors erased; or used by        *)
(* version 1 of this code, which leaves one sector valid, clears the seal  *)
(* of the other and copies a footer of this version with a checksum that   *)
(* does not match; or no valid sector, and anything in them.               *)
V1Sector ==
    {s \in [mark : {"valid"}, seal : {"valid", "other"}, data : [Cell -> Value],
            footer : BOOLEAN, counter : 0 .. 3, crc : {NoCrc}] : s.footer \/ s.counter = 3}

FactorySectors(kind) ==
    CASE kind = "blank" -> [Sector -> {Erased}]
      [] kind = "v1" -> {f \in [Sector -> V1Sector \cup {Erased}] : \E s \in Sector : HeaderValid(f[s])}
      [] kind = "garbage" -> [Sector -> [mark : Mark, seal : {"blank", "other"}, data : [Cell -> Content],
                                         footer : {FALSE}, counter : {3}, crc : {NoCrc}]]

Init ==
    /\ flash \in UNION {FactorySectors(kind) : kind \in Factory}
    /\ pc = "idle"
    /\ source = None /\ target = 0 /\ next = 1 /\ job = None
    /\ before = Read(flash)
    /\ result = "none"

Job == [cell : Cell, value : Value]

After == [before EXCEPT ![job.cell] = job.value]

\* _writeSector(..., existing, newSector) starts by erasing the new sector.
BeginSector(from, to) ==
    /\ pc' = "erase"
    /\ source' = from
    /\ target' = to
    /\ next' = 1

\* write() and read(): currentValidSector() initializes sector 1 if neither
\* is valid.
Call(j) ==
    /\ pc = "idle"
    /\ before' = Read(flash)
    /\ job' = j
    /\ LET current == CurrentSector(flash)
       IN  IF current = Unknown THEN BeginSector(None, 1) /\ result' = "none"
           ELSE IF j # None THEN BeginSector(current, AlternateTo(current)) /\ result' = "none"
           ELSE result' = "ok" /\ UNCHANGED <<pc, source, target, next>>
    /\ UNCHANGED flash

BeginWrite == \E j \in Job : Call(j)

\* read() of an initialized DCD changes nothing.
BeginRead == CurrentSector(flash) = Unknown /\ Call(None)

\* The call returns; but an initialization made for a write is followed by
\* the write, whether or not it succeeded.
Return(r) ==
    IF source = None /\ job # None
    THEN BeginSector(1, 0) /\ UNCHANGED <<job, before, result>>
    ELSE Done /\ result' = r
-----------------------------------------------------------------------------
(* The operations on flash that _writeSector and write() are made of: what *)
(* the sector they work on becomes, and what it may be when they are cut   *)
(* short.                                                                  *)

\* Mutant: the counter is not reduced to its two bits.
WideCounter == IF source # None /\ flash[source].footer THEN flash[source].counter + 1 ELSE 0

NewCounter ==
    IF source # None /\ flash[source].footer THEN (flash[source].counter + 1) % 4 ELSE 0

CellValue == IF next = job.cell THEN job.value ELSE flash[source].data[next]

\* Mutant: the old sector is cleared the way version 1 did.
CompletedClearing(op, s) ==
    CASE op = "erase"  -> Erased
      [] op = "copy"   -> [s EXCEPT !.data[next] = CellValue]
      [] op = "footer" -> [s EXCEPT !.footer = TRUE, !.counter = NewCounter]
      [] op = "crc"    -> [s EXCEPT !.crc = ComputeCRC(s)]
      [] op = "seal"   -> [s EXCEPT !.mark = "valid", !.seal = "valid"]
      [] op = "retire" -> [s EXCEPT !.mark = "valid", !.seal = "other"]

Completed(op, s) ==
    CASE op = "erase"  -> Erased
      [] op = "copy"   -> [s EXCEPT !.data[next] = CellValue]
      [] op = "footer" -> [s EXCEPT !.footer = TRUE, !.counter = NewCounter]
      [] op = "crc"    -> [s EXCEPT !.crc = ComputeCRC(s)]
      [] op = "seal"   -> [s EXCEPT !.mark = "valid", !.seal = "valid"]
      [] op = "retire" -> [s EXCEPT !.mark = "valid", !.seal = "superseded"]

Headers(s, marks, seals) == {[s EXCEPT !.mark = h[1], !.seal = h[2]] : h \in marks \X seals}

\* What the watermark may be in a sector that was sealed.
SealMarks == IF LoneSeal THEN Mark ELSE {"valid"}

CutShort(op, s) ==
    CASE op = "erase" ->
            {t \in [mark : {s.mark, "blank"}, seal : {s.seal, "blank"},
                    data : [Cell -> Content], footer : {s.footer, FALSE},
                    counter : {s.counter, 3}, crc : {s.crc, NoCrc}] :
                \A c \in Cell : t.data[c] \in {s.data[c], Blank}}
      [] op = "copy" -> {[s EXCEPT !.data[next] = v] : v \in Content}
      [] op = "footer" -> {[s EXCEPT !.footer = w[1], !.counter = w[2]] : w \in BOOLEAN \X (0 .. 3)}
      [] op = "crc" -> {s, Completed("crc", s)}
      [] op = "seal" -> Headers(s, Mark, {s.seal, "other"}) \cup Headers(s, SealMarks, {"valid"})
      [] op = "retire" ->
            Headers(s, {s.mark, "other", "valid"}, {s.seal, "other", "superseded"})

\* The sector the next operation works on.
Worked == IF pc = "retire" THEN source ELSE target

Busy == pc # "idle"

Do(op, then) ==
    /\ pc = op
    /\ flash' = [flash EXCEPT ![Worked] = Completed(op, @)]
    /\ pc' = then
    /\ UNCHANGED <<control, result>>

EraseTarget == Do("erase", IF source = None THEN "footer" ELSE "copy") /\ UNCHANGED next

CopyCell == Do("copy", IF next = CellCount THEN "footer" ELSE "copy") /\ next' = next + 1

WriteFooter == Do("footer", "crc") /\ UNCHANGED next

WriteCrc == Do("crc", "seal") /\ UNCHANGED next

SealTarget ==
    /\ pc = "seal"
    /\ flash' = [flash EXCEPT ![target] = Completed("seal", @)]
    /\ IF source = None THEN Return("ok")
       ELSE pc' = "retire" /\ UNCHANGED <<control, next, result>>

RetireSource ==
    /\ pc = "retire"
    /\ flash' = [flash EXCEPT ![source] = Completed("retire", @)]
    /\ Return("ok")

\* An operation fails, possibly half way; the error is returned.
Fail ==
    /\ Busy
    /\ \E s \in CutShort(pc, flash[Worked]) : flash' = [flash EXCEPT ![Worked] = s]
    /\ Return("error")

\* The device is reset in the middle of an operation.
Reset ==
    /\ Busy
    /\ \E s \in CutShort(pc, flash[Worked]) : flash' = [flash EXCEPT ![Worked] = s]
    /\ Done
    /\ result' = "reset"

Next ==
    \/ BeginWrite \/ BeginRead
    \/ EraseTarget \/ CopyCell \/ WriteFooter \/ WriteCrc \/ SealTarget \/ RetireSource
    \/ Fail \/ Reset

Spec == Init /\ [][Next]_vars
-----------------------------------------------------------------------------
(* Properties *)

TypeOK ==
    /\ flash \in [Sector -> SectorState]
    /\ pc \in {"idle", "erase", "copy", "footer", "crc", "seal", "retire"}
    /\ source \in Sector \cup {None}
    /\ target \in Sector
    /\ next \in 1 .. CellCount + 1
    /\ job \in Job \cup {None}
    /\ before \in [Cell -> Content]
    /\ result \in {"none", "ok", "error", "reset"}

\* A write that returned DCD_SUCCESS is what the next read returns, also after
\* any number of failed writes and resets before it.
SuccessMeansStored == result = "ok" /\ job # None => Read(flash) = After

\* What is left of it when the sectors may have held something else than 0xFF at first: then a
\* failed initialization may leave a sector to be copied whose content nobody wrote.
CellStored == result = "ok" /\ job # None => Read(flash)[job.cell] = job.value

\* After a successful write the sector it copied is still there to fall back
\* on: if the new sector is lost altogether, read() returns the old content.
BackupKept ==
    result = "ok" /\ job # None =>
        Read([flash EXCEPT ![CurrentSector(flash)] = Erased]) = before

\* A write changes its cell at one moment or, if it fails or is cut short by a
\* reset, perhaps not at all; nothing else changes the content, whichever
\* operations fail.
Store == INSTANCE AtomicStore WITH
    value <- Read(flash),
    pending <- IF Busy THEN job ELSE None

ImplementsAtomicStore == Store!Spec

\* Whatever the sectors held at first: once there is a valid one there always is, and the content
\* changes by the write under way or not at all.
AtomicOnceValid ==
    [][CurrentSector(flash) # Unknown =>
            /\ CurrentSector(flash') # Unknown
            /\ [Store!Next]_(Store!vars)]_vars

=============================================================================
