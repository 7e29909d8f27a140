------------------------ MODULE EEPROMEmulation_proofs ------------------------
(***************************************************************************)
(* Theorems about the EEPROM emulation on flash that is programmed by half *)
(* words, for every capacity, size of the pages and length of a put.       *)
(***************************************************************************)
EXTENDS EEPROMEmulation, FiniteSetTheorems, SequenceTheorems, WellFoundedInduction, TLAPS

\* Programming a header is atomic and the first half of a record leaves it invalid.
HalfWordAssumption == Bytewise = FALSE

PageOf(n) == [1 .. n -> Slot]

Write == [slot : Nat \ {0}, record : Record]

JobOK(j) ==
    /\ j.first \in Cell /\ j.data \in Seq(Content)
    /\ j.first + Len(j.data) <= Capacity

\* The first k slots hold valid records and the next one does not.
Prefix(page, n, k) ==
    /\ k \in 0 .. n
    /\ \A s \in 1 .. k : Valid(page[s])
    /\ k < n => ~ Valid(page[k + 1])

ContentOfPage(page) == [c \in Cell |-> ValueOf(page, c)]

Overlaid(content, j) ==
    [c \in Cell |-> IF InBlock(j, c) THEN j.data[c - j.first + 1] ELSE content[c]]

\* Outside of sp all of the block was put over b, or none of it.
Whole(content, b, j, sp) ==
    \E whole \in {b, Overlaid(b, j)} : \A c \in Cell \ sp : content[c] = whole[c]

\* The block was put over b, and what is not of the block may differ in sp.
Covered(content, b, j, sp) ==
    \A c \in Cell : content[c] = Overlaid(b, j)[c] \/ (c \in sp /\ ~ InBlock(j, c))
-----------------------------------------------------------------------------
(* The inductive invariant *)

Open == pc \notin {"boot", "clear1", "clear2", "clear3"}

Putting == pc \in {"append", "erase", "mark", "move", "activate", "retire"}

\* Unless marking the old page inactive has failed the page in use is the one that a reset would
\* choose.
PagesOK ==
    /\ slot = [p \in Page |-> slot[p]]
    /\ Open => activePage \in Page
    /\ Open /\ ~ unretired /\ pc # "retire" => ActiveOf(status) = activePage
    /\ pc = "retire" => status[Alternate(activePage)] = "active"

\* Of the records W all but the first d are left.
Remaining(rest, W, d) ==
    /\ d \in 0 .. Len(W) - 1
    /\ rest \in Seq(Write) /\ Len(rest) = Len(W) - d
    /\ \A m \in 1 .. Len(rest) : rest[m] = W[m + d]

\* The records of an append become valid with the last one, which is written to the empty slot
\* behind the valid ones; behind them the page ends or a slot is not valid.
Appending(page, n, W, rest, k, d) ==
    /\ Prefix(page, n, k)
    /\ k + Len(W) <= n
    /\ page[k + 1] = Empty
    /\ k + Len(W) < n => ~ Valid(page[k + Len(W) + 1])
    /\ Remaining(rest, W, d)
    /\ \A m \in 1 .. d : page[W[m].slot] = W[m].record

IsAppending(page, n, W, rest) ==
    \E k \in 0 .. n : \E d \in 0 .. Len(W) - 1 : Appending(page, n, W, rest, k, d)

AppendOK ==
    pc = "append" =>
        IsAppending(slot[activePage], Slots[activePage], Appended(slot[activePage], job), todo)

\* The first slots of the other page hold the first d records, and the others nothing.
Copied(page, n, W, d) ==
    /\ d <= n
    /\ \A s \in 1 .. d : page[s] = W[s].record
    /\ \A s \in d + 1 .. n : page[s] = Empty

IsCopying(page, n, W, rest) ==
    \E d \in 0 .. Len(W) - 1 : Remaining(rest, W, d) /\ Copied(page, n, W, d)

Swapping(other, W) ==
    /\ pc \in {"erase", "mark"} => todo = W
    /\ pc = "mark" => other = BlankPage(Alternate(activePage))
    /\ pc = "move" => IsCopying(other, Slots[Alternate(activePage)], W, todo)
    /\ pc \in {"activate", "retire"} => Copied(other, Slots[Alternate(activePage)], W, Len(W))

SwapOK ==
    pc \in {"erase", "mark", "move", "activate", "retire"} =>
        Swapping(slot[Alternate(activePage)], Moved(slot[activePage], job))

\* What the EEPROM holds: what it held before until the records of an append are visible, then
\* all of the block or none of it, up to what was spoilt.
ContentOK ==
    /\ Putting => JobOK(job) /\ Whole(Get, before, job, spoilt)
    /\ pc = "append" => Get = before
    /\ pc \in {"idle", "pending"} =>
          /\ job # None /\ ~ unretired => Whole(Get, before, job, spoilt)
          /\ result = "done" => Covered(Get, before, job, spoilt)
    /\ pc = "boot" => result # "done" /\ (job # None => Whole(GetAfterReset, before, job, spoilt))
    /\ pc \in {"clear1", "clear2", "clear3"} => job = None

EEPROMInv == TypeOK /\ PagesOK /\ AppendOK /\ SwapOK /\ ContentOK
-----------------------------------------------------------------------------
(* Numbers *)

\* A set of natural numbers has a least member.
LEMMA LeastOfNats ==
    ASSUME NEW S, S \subseteq Nat, S # {}
    PROVE  \E x \in S : \A y \in S : x <= y
<1> DEFINE Less == OpToRel(<, Nat)
<1>1. \A x, y \in Nat : y < x => <<y, x>> \in Less
    BY DEF OpToRel
<1>2. IsWellFoundedOn(Less, Nat)
    BY NatLessThanWellFounded
<1> HIDE DEF Less
<1>3. \E x \in S : \A y \in S : ~ (<<y, x>> \in Less)
    BY <1>2, WFMin
<1>4. \E x \in S : \A y \in S : ~ (y < x)
    BY <1>1, <1>3, Zenon
<1> QED BY <1>4

\* Nth enumerates a finite set, each member once: their ranks are different numbers below the
\* cardinality, as many as there are members.
LEMMA NthMember ==
    ASSUME NEW S, IsFiniteSet(S), S \subseteq Nat
    PROVE  /\ Cardinality(S) \in Nat
           /\ \A n \in 1 .. Cardinality(S) : Nth(S, n) \in S
           /\ \A i \in S : \E n \in 1 .. Cardinality(S) : Nth(S, n) = i
           /\ \A m, n \in 1 .. Cardinality(S) : Nth(S, m) = Nth(S, n) => m = n
<1> DEFINE c == Cardinality(S)
           Below(i) == {j \in S : j < i}
           rank == [i \in S |-> Cardinality(Below(i))]
<1>1. c \in Nat
    BY FS_CardinalityType
<1>2. \A i \in S : rank[i] \in 0 .. c - 1
    <2> TAKE i \in S
    <2>1. IsFiniteSet(Below(i)) /\ Cardinality(Below(i)) <= c /\ (Cardinality(Below(i)) = c => S = Below(i))
        BY FS_Subset
    <2>2. Cardinality(Below(i)) \in Nat
        BY <2>1, FS_CardinalityType
    <2>3. Below(i) # S
        OBVIOUS
    <2> QED BY <1>1, <2>1, <2>2, <2>3
<1>3. \A i, j \in S : i < j => rank[i] < rank[j]
    <2> TAKE i, j \in S
    <2> HAVE i < j
    <2>4. Below(i) \in SUBSET Below(j) /\ i \in Below(j) /\ i \notin Below(i)
        <3>1. i \in Nat /\ j \in Nat
            OBVIOUS
        <3>2. \A x \in S : x < i => x < j
            BY <3>1
        <3>3. i \in Below(j) /\ ~ (i < i)
            BY <3>1
        <3> QED BY <3>2, <3>3, Zenon
    <2>5. Below(j) \in SUBSET S
        OBVIOUS
    <2>1. IsFiniteSet(Below(j))
        BY <2>5, FS_Subset
    <2>2. /\ IsFiniteSet(Below(i))
          /\ Cardinality(Below(i)) <= Cardinality(Below(j))
          /\ Cardinality(Below(j)) # Cardinality(Below(i))
        BY <2>1, <2>4, FS_Subset
    <2>3. Cardinality(Below(i)) \in Nat /\ Cardinality(Below(j)) \in Nat
        BY <2>1, <2>2, FS_CardinalityType
    <2> QED BY <2>2, <2>3
<1>4. \A i, j \in S : rank[i] = rank[j] => i = j
    BY <1>1, <1>2, <1>3
<1>5. rank \in Surjection(S, 0 .. c - 1)
    <2> HIDE DEF rank
    <2>1. rank \in Injection(S, 0 .. c - 1)
        BY <1>2, <1>4 DEF rank, Injection, IsInjective
    <2>2. IsFiniteSet(0 .. c - 1) /\ Cardinality(0 .. c - 1) = c
        <3>1. 0 \in Int /\ c - 1 \in Int /\ (IF 0 > c - 1 THEN 0 ELSE (c - 1) - 0 + 1) = c
            BY <1>1
        <3> QED BY <3>1, FS_Interval
    <2> QED BY <2>1, <2>2, FS_Injection
<1>6. \A n \in 1 .. c : \E i \in S : rank[i] = n - 1
    <2> HIDE DEF rank
    <2> TAKE n \in 1 .. c
    <2>1. n - 1 \in 0 .. c - 1
        BY <1>1
    <2> QED BY <1>5, <2>1 DEF Surjection
<1>7. \A n \in 1 .. c : Nth(S, n) \in S /\ rank[Nth(S, n)] = n - 1
    <2> TAKE n \in 1 .. c
    <2>1. \E i \in S : Cardinality(Below(i)) = n - 1
        BY <1>6
    <2> QED BY <2>1, Zenon DEF Nth
<1>8. \A i \in S : \E n \in 1 .. c : Nth(S, n) = i
    <2> TAKE i \in S
    <2> HIDE DEF rank
    <2>1. PICK n \in 1 .. c : n - 1 = rank[i]
        <3>1. rank[i] + 1 \in 1 .. c /\ (rank[i] + 1) - 1 = rank[i]
            BY <1>1, <1>2
        <3> QED BY <3>1
    <2>2. Nth(S, n) \in S /\ rank[Nth(S, n)] = rank[i]
        BY <1>7, <2>1
    <2>3. Nth(S, n) = i
        BY <1>4, <2>2
    <2> QED BY <2>3
<1>9. \A m, n \in 1 .. c : Nth(S, m) = Nth(S, n) => m = n
    <2> HIDE DEF rank
    <2> QED BY <1>1, <1>7
<1> QED BY <1>1, <1>7, <1>8, <1>9

LEMMA SubsetOfInterval ==
    ASSUME NEW a \in Nat, NEW b \in Nat, NEW S, S \subseteq a .. b
    PROVE  IsFiniteSet(S) /\ S \subseteq Nat
<1>1. IsFiniteSet(a .. b) /\ S \in SUBSET (a .. b)
    <2>1. a \in Int /\ b \in Int
        OBVIOUS
    <2> QED BY <2>1, FS_Interval
<1>2. S \subseteq Nat
    OBVIOUS
<1> QED BY <1>1, <1>2, FS_Subset
-----------------------------------------------------------------------------
(* Reading a page *)

LEMMA PrefixExists ==
    ASSUME NEW n \in Nat, NEW page
    PROVE  \E k \in 0 .. n : Prefix(page, n, k)
<1> DEFINE Bad == {s \in 1 .. n : ~ Valid(page[s])} \cup {n + 1}
<1>1. PICK x \in Bad : \A y \in Bad : x <= y
    <2>1. Bad \subseteq Nat /\ Bad # {}
        OBVIOUS
    <2> QED BY <2>1, LeastOfNats
<1>2. x - 1 \in 0 .. n /\ x \in Nat /\ x - 1 + 1 = x
    OBVIOUS
<1>3. \A s \in 1 .. (x - 1) : Valid(page[s])
    BY <1>1, <1>2
<1>4. x - 1 < n => ~ Valid(page[x])
    BY <1>1, <1>2
<1> QED BY <1>2, <1>3, <1>4 DEF Prefix

LEMMA PrefixIs ==
    ASSUME NEW n \in Nat, NEW page, DOMAIN page = 1 .. n, NEW k, Prefix(page, n, k)
    PROVE  ValidSlots(page) = 1 .. k /\ FirstFree(page) = k + 1
<1>1. \A s \in 1 .. n : s \in ValidSlots(page) <=> s <= k
    <2> TAKE s \in 1 .. n
    <2>1. CASE s <= k
        BY <2>1 DEF ValidSlots, Prefix
    <2>2. CASE s > k
        <3>1. k + 1 \in 1 .. s /\ ~ Valid(page[k + 1])
            BY <2>2 DEF Prefix
        <3> QED BY <2>2, <3>1 DEF ValidSlots, Prefix
    <2> QED BY <2>1, <2>2 DEF Prefix
<1>2. ValidSlots(page) = 1 .. k
    BY <1>1 DEF ValidSlots, Prefix
<1>3. Cardinality(1 .. k) = k
    <2>1. 1 \in Int /\ k \in Int /\ (IF 1 > k THEN 0 ELSE k - 1 + 1) = k
        BY DEF Prefix
    <2> QED BY <2>1, FS_Interval
<1> QED BY <1>2, <1>3 DEF FirstFree

\* The value of a byte is that of the last record of its index.
LEMMA LatestValue ==
    ASSUME NEW n \in Nat, NEW page, DOMAIN page = 1 .. n, NEW k, Prefix(page, n, k), NEW i
    PROVE  /\ (\A s \in 1 .. k : page[s].index # i) => ValueOf(page, i) = Blank
           /\ \A s \in 1 .. k :
                 page[s].index = i /\ (\A t \in s + 1 .. k : page[t].index # i)
                 => ValueOf(page, i) = page[s].data
<1>1. Holding(page, i) = {s \in 1 .. k : page[s].index = i}
    BY PrefixIs DEF Holding
<1>2. ASSUME NEW s \in 1 .. k, page[s].index = i, \A t \in s + 1 .. k : page[t].index # i
      PROVE  ValueOf(page, i) = page[s].data
    <2>1. s \in Holding(page, i) /\ \A t \in Holding(page, i) : t \in Nat /\ t <= s
        BY <1>1, <1>2 DEF Prefix
    <2>2. Max(Holding(page, i)) = s
        <3> DEFINE H == Holding(page, i)
        <3>1. \A y \in H : s >= y
            BY <1>2, <2>1
        <3>2. \A x \in H : (\A y \in H : x >= y) => x = s
            BY <1>2, <2>1
        <3> HIDE DEF H
        <3>3. s \in H
            BY <2>1 DEF H
        <3> QED BY <3>1, <3>2, <3>3, Zenon DEF Max, H
    <2> QED BY <2>1, <2>2 DEF ValueOf
<1> QED BY <1>1, <1>2 DEF ValueOf

Holder(page, k, i) == \E s \in 1 .. k : page[s].index = i

LastHolder(page, k, i, s) ==
    s \in 1 .. k /\ page[s].index = i /\ \A t \in s + 1 .. k : page[t].index # i

LEMMA HasLast ==
    ASSUME NEW k \in Nat, NEW page, NEW i, Holder(page, k, i)
    PROVE  \E s : LastHolder(page, k, i, s)
<1> DEFINE Gaps == {d \in Nat : \E s \in 1 .. k : page[s].index = i /\ s + d = k}
<1>1. Gaps # {}
    <2>1. PICK s \in 1 .. k : page[s].index = i
        BY DEF Holder
    <2>2. k - s \in Nat /\ s + (k - s) = k
        OBVIOUS
    <2> QED BY <2>1, <2>2
<1>2. PICK d \in Gaps : \A e \in Gaps : d <= e
    BY <1>1, LeastOfNats
<1>3. PICK s \in 1 .. k : page[s].index = i /\ s + d = k
    BY <1>2
<1>4. ASSUME NEW t \in s + 1 .. k, page[t].index = i PROVE FALSE
    <2>1. t \in 1 .. k /\ k - t \in Nat /\ t + (k - t) = k /\ k - t < d
        BY <1>2, <1>3
    <2>2. k - t \in Gaps
        BY <1>4, <2>1
    <2> QED BY <1>2, <2>1, <2>2
<1> QED BY <1>3, <1>4 DEF LastHolder

LEMMA ValueType ==
    ASSUME NEW n \in Nat, NEW page \in PageOf(n), NEW i
    PROVE  ValueOf(page, i) \in Content
<1>1. PICK k \in 0 .. n : Prefix(page, n, k)
    BY PrefixExists
<1>2. CASE ~ Holder(page, k, i)
    BY <1>1, <1>2, LatestValue DEF PageOf, Content, Holder
<1>3. CASE Holder(page, k, i)
    <2>4. k \in Nat
        OBVIOUS
    <2>1. PICK s : LastHolder(page, k, i, s)
        BY <1>3, <2>4, HasLast
    <2>2. ValueOf(page, i) = page[s].data
        BY <1>1, <2>1, LatestValue DEF PageOf, LastHolder
    <2>3. page[s] \in Record
        BY <1>1, <2>1 DEF Prefix, Valid, PageOf, Slot, LastHolder
    <2> QED BY <2>2, <2>3 DEF Record
<1> QED BY <1>2, <1>3

\* Records of other indexes behind the valid ones do not change a value.
LEMMA SameValue ==
    ASSUME NEW n \in Nat, NEW m \in Nat, NEW page, DOMAIN page = 1 .. n, NEW k, Prefix(page, n, k),
           NEW page2, DOMAIN page2 = 1 .. m, NEW l, Prefix(page2, m, l), k <= l,
           \A s \in 1 .. k : page2[s] = page[s],
           NEW i, \A t \in k + 1 .. l : page2[t].index # i
    PROVE  ValueOf(page2, i) = ValueOf(page, i)
<1> USE DEF Prefix
<1>1. CASE ~ Holder(page, k, i)
    <2>1. \A s \in 1 .. l : page2[s].index # i
        BY <1>1 DEF Holder
    <2> HIDE DEF Prefix
    <2> QED BY <1>1, <2>1, LatestValue DEF Holder
<1>2. CASE Holder(page, k, i)
    <2>5. k \in Nat
        OBVIOUS
    <2>1. PICK s : LastHolder(page, k, i, s)
        BY <1>2, <2>5, HasLast
    <2>2. s \in 1 .. l /\ page2[s] = page[s] /\ \A t \in s + 1 .. l : page2[t].index # i
        BY <2>1 DEF LastHolder
    <2> HIDE DEF Prefix
    <2>3. ValueOf(page, i) = page[s].data
        BY <2>1, LatestValue DEF LastHolder
    <2>4. ValueOf(page2, i) = page2[s].data
        BY <2>1, <2>2, LatestValue DEF LastHolder
    <2> QED BY <2>2, <2>3, <2>4
<1> QED BY <1>1, <1>2

\* Two pages that differ in one record differ in the bytes it is about.
LEMMA OtherValues ==
    ASSUME NEW n \in Nat, NEW page, DOMAIN page = 1 .. n, NEW k, Prefix(page, n, k),
           NEW page2, DOMAIN page2 = 1 .. n, NEW t \in 1 .. k, Valid(page2[t]),
           \A s \in 1 .. n : s # t => page2[s] = page[s],
           NEW i, i # page[t].index, i # page2[t].index
    PROVE  ValueOf(page2, i) = ValueOf(page, i)
<1>1. k \in Nat /\ k <= n /\ Prefix(page2, n, k)
    BY DEF Prefix
<1>2. \A s \in 1 .. k : page2[s].index = i <=> page[s].index = i
    BY <1>1
<1>3. CASE ~ Holder(page, k, i)
    BY <1>1, <1>2, <1>3, LatestValue DEF Holder
<1>4. CASE Holder(page, k, i)
    <2>1. PICK s : LastHolder(page, k, i, s)
        BY <1>1, <1>4, HasLast
    <2>2. s \in 1 .. k /\ s # t /\ page2[s] = page[s] /\ page[s].index = i
          /\ \A r \in s + 1 .. k : page[r].index # i
        BY <1>1, <2>1 DEF LastHolder
    <2>3. \A r \in s + 1 .. k : page2[r].index # i
        BY <1>1, <1>2, <2>2
    <2>4. ValueOf(page, i) = page[s].data
        BY <2>2, LatestValue
    <2>5. ValueOf(page2, i) = page2[s].data
        BY <1>1, <2>2, <2>3, LatestValue
    <2> QED BY <2>2, <2>4, <2>5
<1> QED BY <1>3, <1>4

-----------------------------------------------------------------------------
(* What a put writes *)

LEMMA Block ==
    ASSUME NEW j, JobOK(j)
    PROVE  /\ Len(j.data) \in Nat /\ DOMAIN j.data = 1 .. Len(j.data) /\ Cell \subseteq Nat
           /\ \A k \in 1 .. Len(j.data) :
                 /\ j.data[k] \in Content
                 /\ IndexOf(j, k) \in Cell /\ InBlock(j, IndexOf(j, k))
                 /\ IndexOf(j, k) - j.first + 1 = k
                 /\ New(j, k) \in Record
           /\ \A k, l \in 1 .. Len(j.data) : IndexOf(j, k) = IndexOf(j, l) => k = l
           /\ \A c \in Cell : InBlock(j, c) =>
                 c - j.first + 1 \in 1 .. Len(j.data) /\ IndexOf(j, c - j.first + 1) = c
<1>1. /\ j.first \in Nat /\ j.data \in Seq(Content) /\ Len(j.data) \in Nat /\ Capacity \in Nat
      /\ DOMAIN j.data = 1 .. Len(j.data) /\ j.first + Len(j.data) <= Capacity /\ Cell \subseteq Nat
    BY EEPROMAssumption DEF JobOK, Cell
<1>2. ASSUME NEW k \in 1 .. Len(j.data)
      PROVE  /\ j.data[k] \in Content
             /\ IndexOf(j, k) \in Cell /\ InBlock(j, IndexOf(j, k))
             /\ IndexOf(j, k) - j.first + 1 = k
             /\ New(j, k) \in Record
    <2>1. j.data[k] \in Content
        BY <1>1
    <2>2. IndexOf(j, k) \in Cell /\ InBlock(j, IndexOf(j, k)) /\ IndexOf(j, k) - j.first + 1 = k
        BY <1>1 DEF IndexOf, InBlock, Cell
    <2> QED BY <2>1, <2>2 DEF New, Record
<1>3. \A k, l \in 1 .. Len(j.data) : IndexOf(j, k) = IndexOf(j, l) => k = l
    BY <1>1 DEF IndexOf
<1>4. \A c \in Cell : InBlock(j, c) =>
          c - j.first + 1 \in 1 .. Len(j.data) /\ IndexOf(j, c - j.first + 1) = c
    BY <1>1 DEF IndexOf, InBlock, Cell
<1> QED BY <1>1, <1>2, <1>3, <1>4

\* What an append writes: the records of the bytes that change, each once, from the far end
\* of the free slots they take up.
AppendWrites(j, k, changed, c, W) ==
    /\ c \in Nat /\ W \in Seq(Write) /\ Len(W) = c
    /\ changed \subseteq 1 .. Len(j.data)
    /\ \A m \in 1 .. c :
          /\ W[m].slot = k + 1 + c - m
          /\ Nth(changed, m) \in changed /\ W[m].record = New(j, Nth(changed, m))
    /\ \A i \in changed : \E m \in 1 .. c : Nth(changed, m) = i
    /\ \A l, m \in 1 .. c : Nth(changed, l) = Nth(changed, m) => l = m

LEMMA AppendPlan ==
    ASSUME NEW n \in Nat, NEW page \in PageOf(n), NEW k, Prefix(page, n, k), NEW j, JobOK(j),
           NEW changed, changed = Changed(page, j), NEW c, c = Cardinality(changed),
           NEW W, W = Appended(page, j)
    PROVE  AppendWrites(j, k, changed, c, W)
<1>1. changed \subseteq 1 .. Len(j.data) /\ Len(j.data) \in Nat
    BY Block DEF Changed
<1>2. IsFiniteSet(changed) /\ changed \subseteq Nat
    BY <1>1, SubsetOfInterval
<1>3. /\ c \in Nat
      /\ \A m \in 1 .. c : Nth(changed, m) \in changed
      /\ \A i \in changed : \E m \in 1 .. c : Nth(changed, m) = i
      /\ \A l, m \in 1 .. c : Nth(changed, l) = Nth(changed, m) => l = m
    BY <1>2, NthMember
<1>4. FirstFree(page) = k + 1 /\ k \in Nat
    BY PrefixIs DEF PageOf, Prefix
<1>5. W = [m \in 1 .. c |-> [slot |-> k + 1 + c - m, record |-> New(j, Nth(changed, m))]]
    BY <1>4 DEF Appended
<1>6. \A m \in 1 .. c : k + 1 + c - m \in Nat \ {0} /\ New(j, Nth(changed, m)) \in Record
    BY <1>1, <1>3, <1>4, Block
<1>7. W \in [1 .. c -> Write]
    BY <1>5, <1>6 DEF Write
<1>8. W \in Seq(Write) /\ Len(W) = c
    BY <1>3, <1>7
<1> QED BY <1>1, <1>3, <1>5, <1>8 DEF AppendWrites

\* All records of W are written behind the first k, and what follows is not valid.
Complete(page, n, k, W, page2) ==
    /\ k + Len(W) <= n
    /\ \A s \in 1 .. k : page2[s] = page[s]
    /\ \A m \in 1 .. Len(W) : page2[W[m].slot] = W[m].record
    /\ k + Len(W) < n => ~ Valid(page2[k + Len(W) + 1])

\* Once all records are written the page holds what it held, overlaid with the block.
LEMMA AppendedContent ==
    ASSUME NEW n \in Nat, NEW page \in PageOf(n), NEW k, Prefix(page, n, k), NEW j, JobOK(j),
           NEW W, W = Appended(page, j), NEW page2 \in PageOf(n), Complete(page, n, k, W, page2)
    PROVE  ContentOfPage(page2) = Overlaid(ContentOfPage(page), j)
<1> DEFINE changed == Changed(page, j)
           c == Cardinality(changed)
<1>1. /\ c \in Nat /\ Len(W) = c
      /\ changed \subseteq 1 .. Len(j.data)
      /\ \A m \in 1 .. c :
            /\ W[m].slot = k + 1 + c - m
            /\ Nth(changed, m) \in changed /\ W[m].record = New(j, Nth(changed, m))
      /\ \A i \in changed : \E m \in 1 .. c : Nth(changed, m) = i
      /\ \A l, m \in 1 .. c : Nth(changed, l) = Nth(changed, m) => l = m
    BY AppendPlan DEF AppendWrites
<1>2. k \in Nat /\ DOMAIN page = 1 .. n /\ DOMAIN page2 = 1 .. n
    BY DEF Prefix, PageOf
<1>10. /\ k + c <= n
       /\ \A s \in 1 .. k : page2[s] = page[s]
       /\ \A m \in 1 .. c : page2[W[m].slot] = W[m].record
       /\ k + c < n => ~ Valid(page2[k + c + 1])
    BY <1>1 DEF Complete
<1> HIDE DEF changed, c
<1>9. PICK q \in Nat : q = k + c
    BY <1>1, <1>2
\* the record of slot t, if it is a new one
<1>3. ASSUME NEW t \in k + 1 .. q
      PROVE  \E m \in 1 .. c : t = k + 1 + c - m /\ page2[t] = New(j, Nth(changed, m))
    <2>1. PICK m \in 1 .. c : m = k + 1 + c - t
        BY <1>1, <1>2, <1>9
    <2>2. t = k + 1 + c - m
        BY <1>1, <1>2, <2>1
    <2>3. page2[t] = W[m].record /\ W[m].record = New(j, Nth(changed, m))
        BY <1>1, <1>10, <2>2
    <2> QED BY <2>2, <2>3
<1>4. Prefix(page2, n, q)
    <2>1. ASSUME NEW s \in 1 .. q PROVE Valid(page2[s])
        <3>1. CASE s <= k
            BY <1>2, <1>10, <3>1 DEF Prefix
        <3>2. CASE s > k
            <4>1. PICK m \in 1 .. c : page2[s] = New(j, Nth(changed, m))
                BY <1>1, <1>2, <1>3, <1>9, <3>2
            <4>2. Nth(changed, m) \in 1 .. Len(j.data)
                BY <1>1
            <4>3. page2[s] \in Record
                BY <4>1, <4>2, Block
            <4> QED BY <4>3, SlotAssumption DEF Valid
        <3> QED BY <1>2, <1>9, <3>1, <3>2
    <2>2. q \in 0 .. n /\ (q < n => ~ Valid(page2[q + 1]))
        BY <1>1, <1>2, <1>9, <1>10
    <2> QED BY <2>1, <2>2 DEF Prefix
<1>5. ASSUME NEW i \in Cell, NEW t \in k + 1 .. q, page2[t].index = i
      PROVE  \E m \in 1 .. c : /\ t = k + 1 + c - m /\ i = IndexOf(j, Nth(changed, m))
                               /\ page2[t].data = j.data[Nth(changed, m)]
    <2>1. PICK m \in 1 .. c : t = k + 1 + c - m /\ page2[t] = New(j, Nth(changed, m))
        BY <1>3, <1>5
    <2> QED BY <1>5, <2>1 DEF New
<1>6. ASSUME NEW i \in Cell, NEW l \in changed, i = IndexOf(j, l)
      PROVE  ValueOf(page2, i) = Overlaid(ContentOfPage(page), j)[i]
    <2>1. PICK m \in 1 .. c : Nth(changed, m) = l
        BY <1>1, <1>6
    <2> DEFINE s == k + 1 + c - m
    <2>2. s \in 1 .. q /\ s \in k + 1 .. q
        BY <1>1, <1>2, <1>9
    <2>3. page2[s] = New(j, l)
        <3>1. page2[s] = W[m].record
            BY <1>1, <1>10
        <3> QED BY <1>1, <2>1, <3>1
    <2>4. ASSUME NEW t \in s + 1 .. q, page2[t].index = i PROVE FALSE
        <3>1. t \in k + 1 .. q
            BY <1>1, <1>2, <1>9, <2>2
        <3>2. PICK m2 \in 1 .. c : t = k + 1 + c - m2 /\ i = IndexOf(j, Nth(changed, m2))
            BY <1>5, <2>4, <3>1
        <3>3. Nth(changed, m2) = l
            <4>1. Nth(changed, m2) \in 1 .. Len(j.data) /\ l \in 1 .. Len(j.data)
                BY <1>1, <1>6, <3>2
            <4>2. IndexOf(j, Nth(changed, m2)) = IndexOf(j, l)
                BY <1>6, <3>2
            <4> QED BY <4>1, <4>2, Block
        <3>4. m2 = m
            BY <1>1, <2>1, <3>3
        <3> QED BY <1>1, <1>2, <3>2, <3>4
    <2>5. ValueOf(page2, i) = page2[s].data
        <3>1. page2[s].index = i
            BY <1>6, <2>3 DEF New
        <3> HIDE DEF s
        <3> QED BY <1>2, <1>4, <2>2, <2>4, <3>1, LatestValue
    <2>6. InBlock(j, i) /\ i - j.first + 1 = l
        BY <1>1, <1>6, Block
    <2> QED BY <2>3, <2>5, <2>6 DEF Overlaid, New
<1>7. ASSUME NEW i \in Cell, \A l \in changed : i # IndexOf(j, l)
      PROVE  ValueOf(page2, i) = Overlaid(ContentOfPage(page), j)[i]
    <2>1. ASSUME NEW t \in k + 1 .. q, page2[t].index = i PROVE FALSE
        <3>1. PICK m \in 1 .. c : i = IndexOf(j, Nth(changed, m))
            BY <1>5, <2>1
        <3> QED BY <1>1, <1>7, <3>1
    <2>2. ValueOf(page2, i) = ValueOf(page, i)
        <3>1. k <= q
            BY <1>1, <1>2, <1>9
        <3> QED BY <1>2, <1>4, <1>10, <2>1, <3>1, SameValue
    <2>3. InBlock(j, i) => j.data[i - j.first + 1] = ValueOf(page, i)
        <3> SUFFICES ASSUME InBlock(j, i) PROVE j.data[i - j.first + 1] = ValueOf(page, i)
            OBVIOUS
        <3>1. PICK l \in 1 .. Len(j.data) : l = i - j.first + 1 /\ IndexOf(j, l) = i
            BY Block
        <3>2. l \notin changed
            BY <1>7, <3>1
        <3> QED BY <3>1, <3>2, Block DEF changed, Changed
    <2> QED BY <2>2, <2>3 DEF Overlaid, ContentOfPage
<1>8. \A i \in Cell : ValueOf(page2, i) = Overlaid(ContentOfPage(page), j)[i]
    BY <1>6, <1>7
<1> QED BY <1>8 DEF ContentOfPage, Overlaid

\* The bytes to keep and the positions of the block that a page swap writes.
Kept(page, j) == {i \in Cell \cup {StrayIndex} : ~ InBlock(j, i) /\ ValueOf(page, i) # Blank}

NotBlank(j) == {k \in DOMAIN j.data : j.data[k] # Blank}

\* What a page swap writes, from the first slot on: a record of every byte that is kept, and of
\* every byte of the block that is not 0xFF, each once.
MoveWrites(page, j, kept, new, a, b, W) ==
    /\ a \in Nat /\ b \in Nat /\ W \in Seq(Write) /\ Len(W) = a + b
    /\ new \subseteq 1 .. Len(j.data) /\ kept \subseteq Cell \cup {StrayIndex}
    /\ \A m \in 1 .. a + b : W[m].slot = m
    /\ \A m \in 1 .. a :
          /\ Nth(kept, m) \in kept
          /\ W[m].record = [index |-> Nth(kept, m), data |-> ValueOf(page, Nth(kept, m))]
    /\ \A m \in 1 .. b : Nth(new, m) \in new
    /\ \A m \in a + 1 .. a + b : m - a \in 1 .. b /\ W[m].record = New(j, Nth(new, m - a))
    /\ \A i \in kept : \E m \in 1 .. a : Nth(kept, m) = i
    /\ \A i \in new : \E m \in 1 .. b : Nth(new, m) = i
    /\ \A l, m \in 1 .. a : Nth(kept, l) = Nth(kept, m) => l = m
    /\ \A l, m \in 1 .. b : Nth(new, l) = Nth(new, m) => l = m

LEMMA MovePlan ==
    ASSUME NEW n \in Nat, NEW page \in PageOf(n), NEW j, JobOK(j),
           NEW kept, kept = Kept(page, j), NEW new, new = NotBlank(j),
           NEW a, a = Cardinality(kept), NEW b, b = Cardinality(new),
           NEW W, W = Moved(page, j)
    PROVE  MoveWrites(page, j, kept, new, a, b, W)
<1>1. new \subseteq 1 .. Len(j.data) /\ Len(j.data) \in Nat
    BY Block DEF NotBlank
<1>2. kept \subseteq Cell \cup {StrayIndex} /\ kept \subseteq 0 .. Capacity /\ Capacity \in Nat
    BY EEPROMAssumption DEF Kept, Cell, StrayIndex
<1>3. IsFiniteSet(new) /\ new \subseteq Nat /\ IsFiniteSet(kept) /\ kept \subseteq Nat
    BY <1>1, <1>2, SubsetOfInterval
<1>4. /\ a \in Nat
      /\ \A m \in 1 .. a : Nth(kept, m) \in kept
      /\ \A i \in kept : \E m \in 1 .. a : Nth(kept, m) = i
      /\ \A l, m \in 1 .. a : Nth(kept, l) = Nth(kept, m) => l = m
    BY <1>3, NthMember
<1>5. /\ b \in Nat
      /\ \A m \in 1 .. b : Nth(new, m) \in new
      /\ \A i \in new : \E m \in 1 .. b : Nth(new, m) = i
      /\ \A l, m \in 1 .. b : Nth(new, l) = Nth(new, m) => l = m
    BY <1>3, NthMember
<1> DEFINE R(m) == IF m <= a THEN [index |-> Nth(kept, m), data |-> ValueOf(page, Nth(kept, m))]
                   ELSE New(j, Nth(new, m - a))
<1>6. W = [m \in 1 .. a + b |-> [slot |-> m, record |-> R(m)]]
    BY Zenon DEF Moved, Kept, NotBlank
<1>7. \A m \in a + 1 .. a + b : m - a \in 1 .. b /\ ~ (m <= a)
    BY <1>4, <1>5
<1>8. ASSUME NEW m \in 1 .. a + b PROVE m \in Nat \ {0} /\ R(m) \in Record
    <2>1. m \in Nat \ {0} /\ (m <= a => m \in 1 .. a) /\ (~ (m <= a) => m \in a + 1 .. a + b)
        BY <1>4, <1>5
    <2>2. CASE m <= a
        <3>1. Nth(kept, m) \in Cell \cup {StrayIndex} /\ ValueOf(page, Nth(kept, m)) \in Content
            BY <1>2, <1>4, <2>1, <2>2, ValueType
        <3> QED BY <2>1, <2>2, <3>1 DEF Record
    <2>3. CASE ~ (m <= a)
        <3>1. Nth(new, m - a) \in 1 .. Len(j.data)
            BY <1>1, <1>5, <1>7, <2>1, <2>3
        <3> QED BY <2>1, <2>3, <3>1, Block
    <2> QED BY <2>2, <2>3
<1> HIDE DEF R
<1>9. W \in [1 .. a + b -> Write]
    BY <1>6, <1>8 DEF Write
<1>10. W \in Seq(Write) /\ Len(W) = a + b
    BY <1>4, <1>5, <1>9
<1>11. \A m \in 1 .. a + b : W[m].slot = m /\ W[m].record = R(m)
    BY <1>6
<1>12. \A m \in 1 .. a : m \in 1 .. a + b /\ R(m) = [index |-> Nth(kept, m), data |-> ValueOf(page, Nth(kept, m))]
    BY <1>4, <1>5 DEF R
<1>13. \A m \in a + 1 .. a + b : m \in 1 .. a + b /\ R(m) = New(j, Nth(new, m - a))
    BY <1>4, <1>5 DEF R
<1> QED BY <1>1, <1>2, <1>4, <1>5, <1>7, <1>10, <1>11, <1>12, <1>13 DEF MoveWrites

\* A page with these records and no others holds what the source holds, overlaid with the block.
LEMMA MovedContent ==
    ASSUME NEW n \in Nat, NEW page \in PageOf(n), NEW j, JobOK(j),
           NEW W, W = Moved(page, j), NEW n2 \in Nat, Len(W) <= n2,
           NEW page2 \in PageOf(n2),
           \A m \in 1 .. Len(W) : page2[m] = W[m].record,
           Len(W) < n2 => ~ Valid(page2[Len(W) + 1])
    PROVE  ContentOfPage(page2) = Overlaid(ContentOfPage(page), j)
<1> DEFINE kept == Kept(page, j)
           new == NotBlank(j)
           a == Cardinality(kept)
           b == Cardinality(new)
<1>8. kept = Kept(page, j) /\ new = NotBlank(j) /\ a = Cardinality(kept) /\ b = Cardinality(new)
    OBVIOUS
<1> HIDE DEF kept, new, a, b
<1>1. /\ a \in Nat /\ b \in Nat /\ W \in Seq(Write) /\ Len(W) = a + b
      /\ new \subseteq 1 .. Len(j.data) /\ kept \subseteq Cell \cup {StrayIndex}
      /\ \A m \in 1 .. a :
            /\ Nth(kept, m) \in kept
            /\ W[m].record = [index |-> Nth(kept, m), data |-> ValueOf(page, Nth(kept, m))]
      /\ \A m \in 1 .. b : Nth(new, m) \in new
      /\ \A m \in a + 1 .. a + b : m - a \in 1 .. b /\ W[m].record = New(j, Nth(new, m - a))
      /\ \A i \in kept : \E m \in 1 .. a : Nth(kept, m) = i
      /\ \A i \in new : \E m \in 1 .. b : Nth(new, m) = i
      /\ \A l, m \in 1 .. a : Nth(kept, l) = Nth(kept, m) => l = m
      /\ \A l, m \in 1 .. b : Nth(new, l) = Nth(new, m) => l = m
    <2>1. MoveWrites(page, j, kept, new, a, b, W)
        BY <1>8, MovePlan
    <2> QED BY <2>1 DEF MoveWrites
<1>2. PICK q \in Nat : q = a + b /\ q = Len(W)
    BY <1>1
<1>3. DOMAIN page2 = 1 .. n2 /\ q <= n2
    BY <1>2 DEF PageOf
<1>4. Prefix(page2, n2, q)
    <2>1. \A m \in 1 .. q : page2[m] \in Record
        <3>1. \A m \in 1 .. q : W[m] \in Write
            BY <1>1, <1>2
        <3> QED BY <1>2, <3>1 DEF Write
    <2> QED BY <1>2, <1>3, <2>1, SlotAssumption DEF Prefix, Valid
<1>5. ASSUME NEW t \in 1 .. q
      PROVE  \/ /\ t \in 1 .. a /\ Nth(kept, t) \in kept
                /\ page2[t].index = Nth(kept, t) /\ page2[t].data = ValueOf(page, Nth(kept, t))
             \/ /\ t \in a + 1 .. a + b /\ t - a \in 1 .. b /\ Nth(new, t - a) \in new
                /\ page2[t] = New(j, Nth(new, t - a))
    <2>1. page2[t] = W[t].record
        BY <1>2
    <2>2. t \in 1 .. a \/ t \in a + 1 .. a + b
        BY <1>1, <1>2
    <2>3. CASE t \in 1 .. a
        <3>1. Nth(kept, t) \in kept
              /\ page2[t] = [index |-> Nth(kept, t), data |-> ValueOf(page, Nth(kept, t))]
            BY <1>1, <2>1, <2>3
        <3> QED BY <2>3, <3>1
    <2>4. CASE t \in a + 1 .. a + b
        BY <1>1, <2>1, <2>4
    <2> QED BY <2>2, <2>3, <2>4
<1>6. ASSUME NEW i \in Cell, InBlock(j, i)
      PROVE  ValueOf(page2, i) = j.data[i - j.first + 1]
    <2>1. PICK l \in 1 .. Len(j.data) : l = i - j.first + 1 /\ IndexOf(j, l) = i
        BY <1>6, Block
    \* a record of this byte is that of its position in the block
    <2>2. ASSUME NEW t \in 1 .. q, page2[t].index = i
          PROVE  t - a \in 1 .. b /\ t \in Nat /\ Nth(new, t - a) = l /\ l \in new
        <3>1. ~ (page2[t].index \in kept)
            BY <1>6, <2>2 DEF kept, Kept
        <3>2. t - a \in 1 .. b /\ Nth(new, t - a) \in new /\ page2[t] = New(j, Nth(new, t - a))
            BY <1>5, <3>1
        <3>3. Nth(new, t - a) \in 1 .. Len(j.data) /\ IndexOf(j, Nth(new, t - a)) = i
            <4>1. page2[t].index = IndexOf(j, Nth(new, t - a))
                BY <3>2 DEF New
            <4> QED BY <1>1, <2>2, <3>2, <4>1
        <3>4. Nth(new, t - a) = l
            BY <2>1, <3>3, Block
        <3> QED BY <3>2, <3>4
    <2>3. CASE l \in new
        <3>1. PICK m \in 1 .. b : Nth(new, m) = l
            BY <1>1, <2>3
        <3>2. PICK s \in 1 .. q : s = a + m
            BY <1>1, <1>2
        <3>3. page2[s] = New(j, l)
            <4>1. s \in a + 1 .. a + b /\ s - a = m
                BY <1>1, <3>2
            <4> QED BY <1>1, <1>2, <3>1, <4>1
        <3>4. \A t \in s + 1 .. q : page2[t].index # i
            <4> SUFFICES ASSUME NEW t \in s + 1 .. q, page2[t].index = i PROVE FALSE
                OBVIOUS
            <4>1. t \in 1 .. q
                BY <3>2
            <4>2. t - a \in 1 .. b /\ t \in Nat /\ Nth(new, t - a) = Nth(new, m)
                BY <2>2, <3>1, <4>1
            <4>3. t - a = m
                BY <1>1, <4>2
            <4> QED BY <1>1, <3>2, <4>2, <4>3
        <3>5. ValueOf(page2, i) = page2[s].data
            <4>1. page2[s].index = i
                BY <2>1, <3>3 DEF New
            <4> QED BY <1>3, <1>4, <3>4, <4>1, LatestValue
        <3> QED BY <2>1, <3>3, <3>5 DEF New
    <2>4. CASE l \notin new
        <3>1. \A t \in 1 .. q : page2[t].index # i
            BY <2>2, <2>4
        <3>2. ValueOf(page2, i) = Blank
            BY <1>3, <1>4, <3>1, LatestValue
        <3>3. j.data[l] = Blank
            BY <2>4, Block DEF new, NotBlank
        <3> QED BY <2>1, <3>2, <3>3
    <2> QED BY <2>3, <2>4
<1>7. ASSUME NEW i \in Cell, ~ InBlock(j, i)
      PROVE  ValueOf(page2, i) = ValueOf(page, i)
    <2>1. ASSUME NEW t \in 1 .. q, page2[t].index = i
          PROVE  t \in 1 .. a /\ Nth(kept, t) = i /\ i \in kept
        <3>1. ASSUME Nth(new, t - a) \in new, page2[t] = New(j, Nth(new, t - a)) PROVE FALSE
            <4>1. Nth(new, t - a) \in 1 .. Len(j.data) /\ IndexOf(j, Nth(new, t - a)) = i
                <5>1. page2[t].index = IndexOf(j, Nth(new, t - a))
                    BY <3>1 DEF New
                <5> QED BY <1>1, <2>1, <3>1, <5>1
            <4> QED BY <1>7, <4>1, Block
        <3> QED BY <1>5, <2>1, <3>1
    <2>2. CASE i \in kept
        <3>1. PICK s \in 1 .. a : Nth(kept, s) = i
            BY <1>1, <2>2
        <3>2. s \in 1 .. q /\ s \in Nat
            BY <1>1, <1>2
        <3>3. page2[s].index = i /\ page2[s].data = ValueOf(page, i)
            <4>1. page2[s] = W[s].record
                BY <1>2, <3>2
            <4>2. W[s].record = [index |-> i, data |-> ValueOf(page, i)]
                BY <1>1, <3>1
            <4> QED BY <4>1, <4>2
        <3>4. \A t \in s + 1 .. q : page2[t].index # i
            <4> SUFFICES ASSUME NEW t \in s + 1 .. q, page2[t].index = i PROVE FALSE
                OBVIOUS
            <4>1. t \in 1 .. q /\ t \in Nat
                BY <3>2
            <4>2. t \in 1 .. a /\ Nth(kept, t) = Nth(kept, s)
                BY <2>1, <3>1, <4>1
            <4>3. t = s
                BY <1>1, <4>2
            <4> QED BY <3>2, <4>3
        <3> QED BY <1>3, <1>4, <3>2, <3>3, <3>4, LatestValue
    <2>3. CASE i \notin kept
        <3>1. \A t \in 1 .. q : page2[t].index # i
            BY <2>1, <2>3
        <3>2. ValueOf(page2, i) = Blank
            BY <1>3, <1>4, <3>1, LatestValue
        <3> QED BY <1>7, <2>3, <3>2 DEF kept, Kept
    <2> QED BY <2>2, <2>3
<1> QED BY <1>6, <1>7 DEF ContentOfPage, Overlaid

-----------------------------------------------------------------------------
(* Programming a slot *)

LEMMA SlotTypes == Empty \in Slot /\ Invalid \in Slot /\ Record \subseteq Slot /\ ~ Valid(Empty) /\ ~ Valid(Invalid)
BY DEF Slot, Valid

\* What programming leaves is a slot again; an empty one holds the record or is not valid.
LEMMA ProgramSlot ==
    ASSUME HalfWordAssumption, NEW x \in Slot, NEW r \in Record
    PROVE  /\ Written(x, r) \subseteq Slot /\ CutShort(x, r) \subseteq Slot /\ Misread(x, r) \subseteq Slot
           /\ Written(Empty, r) = {r}
           /\ \A y \in CutShort(Empty, r) : ~ Valid(y)
<1>1. x \notin {Empty, Invalid} => x \in Record
    BY DEF Slot
<1>2. Combined(x, r) \subseteq Content /\ r.index \in Cell \cup {StrayIndex} /\ r.data \in Content
    BY DEF Combined, Record
<1>3. Written(x, r) \subseteq Slot
    BY <1>1, <1>2 DEF Written, Record, Slot
<1>4. CutShort(x, r) \subseteq Slot
    BY <1>1, <1>2 DEF CutShort, HalfWritten, HalfWordAssumption, Valid, Record, Slot
<1>5. Empty # r
    BY SlotAssumption
<1>6. Written(Empty, r) = {r}
    <2>1. Written(Empty, r) = [index : {r.index}, data : {r.data}]
        BY <1>5, SlotTypes DEF Written, Combined
    <2>2. r = [index |-> r.index, data |-> r.data] /\ r \in [index : {r.index}, data : {r.data}]
        BY DEF Record
    <2>3. \A y \in [index : {r.index}, data : {r.data}] : y = [index |-> r.index, data |-> r.data]
        OBVIOUS
    <2> QED BY <2>1, <2>2, <2>3
<1>7. \A y \in CutShort(Empty, r) : ~ Valid(y)
    BY SlotTypes DEF CutShort, HalfWritten, HalfWordAssumption
<1>8. Misread(x, r) \subseteq Slot
    BY DEF Misread, Slot
<1> QED BY <1>3, <1>4, <1>6, <1>7, <1>8

\* Slots behind the first that is not valid do not matter.
LEMMA SamePrefix ==
    ASSUME NEW n \in Nat, NEW page \in PageOf(n), NEW page2 \in PageOf(n),
           NEW k, Prefix(page, n, k), Prefix(page2, n, k), \A s \in 1 .. k : page2[s] = page[s]
    PROVE  /\ ContentOfPage(page2) = ContentOfPage(page)
           /\ \A j : Appended(page2, j) = Appended(page, j)
<1>1. k \in Nat /\ k <= k /\ DOMAIN page = 1 .. n /\ DOMAIN page2 = 1 .. n
    BY DEF Prefix, PageOf
<1>2. \A i : ValueOf(page2, i) = ValueOf(page, i)
    <2> TAKE i
    <2>1. \A t \in k + 1 .. k : page2[t].index # i
        BY <1>1
    <2> QED BY <1>1, <2>1, SameValue
<1>3. FirstFree(page2) = FirstFree(page)
    BY <1>1, PrefixIs
<1>4. \A j : Changed(page2, j) = Changed(page, j)
    BY <1>2 DEF Changed
<1>5. ContentOfPage(page2) = ContentOfPage(page)
    BY <1>2 DEF ContentOfPage
<1>6. \A j : Appended(page2, j) = Appended(page, j)
    BY <1>3, <1>4 DEF Appended
<1> QED BY <1>5, <1>6

\* Where the next of L records goes, and where the ones before it went.
LEMMA Places ==
    ASSUME NEW n \in Nat, NEW k \in Nat, NEW L \in Nat, NEW d \in Nat, d < L, k + L <= n
    PROVE  /\ k + L - d \in k + 1 .. k + L /\ k + L - d \in 1 .. n
           /\ k + L - d = k + 1 <=> d + 1 = L
           /\ \A m \in 1 .. d : k + 1 + L - m \in 1 .. n /\ k + 1 + L - m # k + L - d
OBVIOUS

LEMMA TailFacts ==
    ASSUME NEW S, NEW rest \in Seq(S), rest # <<>>
    PROVE  /\ Tail(rest) \in Seq(S) /\ Len(rest) \in Nat \ {0} /\ Len(Tail(rest)) = Len(rest) - 1
           /\ Head(rest) = rest[1] /\ Head(rest) \in S
           /\ \A m \in 1 .. Len(Tail(rest)) : Tail(rest)[m] = rest[m + 1]
           /\ Tail(rest) = <<>> <=> Len(rest) = 1
<1>1. Tail(rest) \in Seq(S) /\ Len(rest) \in Nat \ {0} /\ Len(Tail(rest)) = Len(rest) - 1
    OBVIOUS
<1>2. \A m \in 1 .. Len(Tail(rest)) : Tail(rest)[m] = rest[m + 1]
    BY <1>1
<1>3. Head(rest) = rest[1] /\ Head(rest) \in S
    OBVIOUS
<1>4. Tail(rest) = <<>> <=> Len(rest) = 1
    <2>1. Len(Tail(rest)) = 0 => Tail(rest) = <<>>
        BY <1>1, EmptySeq
    <2>2. Tail(rest) = <<>> => Len(Tail(rest)) = 0
        BY EmptySeq
    <2> QED BY <1>1, <2>1, <2>2
<1> QED BY <1>1, <1>2, <1>3, <1>4

\* The next write of an append goes to page: the last one makes the whole block valid, any other
\* and whatever does not come out as the record leaves the content of the page alone, unless it
\* is the last one and comes out as another record.
AppendStep(page, n, j, rest) ==
    /\ rest # <<>> /\ Head(rest) \in Write /\ Head(rest).slot \in 1 .. n
    /\ \A x \in CutShort(page[Head(rest).slot], Head(rest).record) :
          ContentOfPage([page EXCEPT ![Head(rest).slot] = x]) = ContentOfPage(page)
    /\ \A x \in Written(page[Head(rest).slot], Head(rest).record) \ {Head(rest).record} :
          ContentOfPage([page EXCEPT ![Head(rest).slot] = x]) = ContentOfPage(page)
    /\ \A x \in Misread(page[Head(rest).slot], Head(rest).record) :
          LET content == ContentOfPage([page EXCEPT ![Head(rest).slot] = x])
          IN  IF Head(rest).slot = FirstFree(page) /\ Valid(x)
              THEN \A c \in Cell \ {Head(rest).record.index, x.index} :
                       content[c] = Overlaid(ContentOfPage(page), j)[c]
              ELSE content = ContentOfPage(page)
    /\ LET page2 == [page EXCEPT ![Head(rest).slot] = Head(rest).record]
       IN  IF Tail(rest) # <<>>
           THEN /\ ContentOfPage(page2) = ContentOfPage(page)
                /\ IsAppending(page2, n, Appended(page2, j), Tail(rest))
           ELSE ContentOfPage(page2) = Overlaid(ContentOfPage(page), j)

LEMMA AppendWrite ==
    ASSUME HalfWordAssumption, NEW n \in Nat, NEW page \in PageOf(n), NEW j, JobOK(j),
           NEW W, W = Appended(page, j), NEW rest, IsAppending(page, n, W, rest)
    PROVE  AppendStep(page, n, j, rest)
<1>1. PICK k \in 0 .. n : \E d \in 0 .. Len(W) - 1 : Appending(page, n, W, rest, k, d)
    BY DEF IsAppending
<1>2. PICK d \in 0 .. Len(W) - 1 : Appending(page, n, W, rest, k, d)
    BY <1>1
<1>3. /\ Prefix(page, n, k) /\ k \in Nat /\ W \in Seq(Write) /\ Len(W) \in Nat
      /\ k + Len(W) <= n /\ page[k + 1] = Empty
      /\ k + Len(W) < n => ~ Valid(page[k + Len(W) + 1])
      /\ rest \in Seq(Write) /\ Len(rest) = Len(W) - d /\ \A m \in 1 .. Len(rest) : rest[m] = W[m + d]
      /\ \A m \in 1 .. d : page[W[m].slot] = W[m].record
    <2>1. Prefix(page, n, k) /\ k \in Nat
        BY <1>2 DEF Appending
    <2>2. AppendWrites(j, k, Changed(page, j), Cardinality(Changed(page, j)), W)
        BY <2>1, AppendPlan
    <2> QED BY <1>2, <2>1, <2>2 DEF Appending, Remaining, AppendWrites
<1>4. \A m \in 1 .. Len(W) : W[m].slot = k + 1 + Len(W) - m /\ W[m] \in Write
    <2>1. AppendWrites(j, k, Changed(page, j), Cardinality(Changed(page, j)), W)
        BY <1>3, AppendPlan
    <2> QED BY <1>3, <2>1 DEF AppendWrites
<1> DEFINE w == W[d + 1]
           t == k + Len(W) - d
           With(x) == [page EXCEPT ![t] = x]
<1>5. /\ d + 1 \in 1 .. Len(W) /\ d \in Nat
      /\ rest # <<>> /\ Head(rest) = w /\ w \in Write /\ w.slot = t /\ w.record \in Record
      /\ t \in k + 1 .. k + Len(W) /\ t \in 1 .. n /\ t = k + Len(W) - d
      /\ (t = k + 1 <=> d + 1 = Len(W)) /\ (Tail(rest) = <<>> <=> d + 1 = Len(W))
    <2>1. d + 1 \in 1 .. Len(W) /\ d \in Nat /\ Len(rest) \in Nat /\ 1 \in 1 .. Len(rest) /\ rest # <<>>
        BY <1>3
    <2>2. Head(rest) = w
        BY <1>3, <2>1
    <2>3. w \in Write /\ w.slot = t
        <3>1. w \in Write /\ w.slot = k + 1 + Len(W) - (d + 1)
            BY <1>4, <2>1
        <3>2. Len(W) \in Nat /\ k \in Nat /\ d \in Nat
            BY <1>3, <2>1
        <3> HIDE DEF w
        <3> QED BY <3>1, <3>2
    <2>4. Tail(rest) = <<>> <=> d + 1 = Len(W)
        BY <1>3, <2>1, TailFacts
    <2>5. t \in k + 1 .. k + Len(W) /\ t \in 1 .. n /\ (t = k + 1 <=> d + 1 = Len(W))
        <3>1. Len(W) \in Nat /\ k \in Nat /\ d \in Nat /\ d < Len(W) /\ k + Len(W) <= n
            BY <1>3, <2>1
        <3> QED BY <3>1, Places
    <2>6. w.record \in Record
        BY <2>3 DEF Write
    <2> QED BY <2>1, <2>2, <2>3, <2>4, <2>5, <2>6
<1> HIDE DEF w, t
<1>6. page[t] \in Slot
    BY <1>5 DEF PageOf
\* whatever is not valid in the first free slot, or is behind it, leaves the content
<1>7. ASSUME NEW x \in Slot, t = k + 1 => ~ Valid(x)
      PROVE  /\ With(x) \in PageOf(n) /\ Prefix(With(x), n, k)
             /\ ContentOfPage(With(x)) = ContentOfPage(page)
             /\ Appended(With(x), j) = W
    <2>1. With(x) \in PageOf(n) /\ \A s \in 1 .. k : With(x)[s] = page[s]
        BY <1>3, <1>5, <1>7 DEF PageOf
    <2>2. Prefix(With(x), n, k)
        BY <1>3, <1>5, <1>7, <2>1, SlotTypes DEF Prefix, PageOf
    <2> HIDE DEF With
    <2> QED BY <1>3, <2>1, <2>2, SamePrefix
<1>8. \A x \in CutShort(page[t], w.record) : ContentOfPage(With(x)) = ContentOfPage(page)
    <2> TAKE x \in CutShort(page[t], w.record)
    <2>1. x \in Slot /\ (t = k + 1 => ~ Valid(x))
        BY <1>3, <1>5, <1>6, ProgramSlot
    <2> QED BY <1>7, <2>1
<1>9. \A x \in Written(page[t], w.record) \ {w.record} : ContentOfPage(With(x)) = ContentOfPage(page)
    <2> TAKE x \in Written(page[t], w.record) \ {w.record}
    <2>1. x \in Slot /\ t # k + 1
        BY <1>3, <1>5, <1>6, ProgramSlot
    <2> QED BY <1>7, <2>1
<1>10. w.record \in Slot /\ Valid(w.record)
    BY <1>5, SlotTypes, SlotAssumption DEF Valid
<1>13. FirstFree(page) = k + 1
    BY <1>3, PrefixIs DEF PageOf
<1>14. ASSUME NEW x \in Misread(page[t], w.record), ~ (t = k + 1 /\ Valid(x))
       PROVE  ContentOfPage(With(x)) = ContentOfPage(page)
    <2>1. x \in Slot
        BY <1>5, <1>6, ProgramSlot
    <2> QED BY <1>7, <1>14, <2>1
<1>11. CASE d + 1 # Len(W)
    <2>1. /\ With(w.record) \in PageOf(n) /\ Prefix(With(w.record), n, k)
          /\ ContentOfPage(With(w.record)) = ContentOfPage(page) /\ Appended(With(w.record), j) = W
        BY <1>5, <1>7, <1>10, <1>11
    <2>2. Remaining(Tail(rest), W, d + 1)
        <3>1. /\ Tail(rest) \in Seq(Write) /\ Len(Tail(rest)) = Len(W) - (d + 1)
              /\ \A m \in 1 .. Len(Tail(rest)) : m + 1 \in 1 .. Len(rest) /\ Tail(rest)[m] = rest[m + 1]
            BY <1>3, <1>5, TailFacts
        <3>2. \A m \in 1 .. Len(Tail(rest)) : Tail(rest)[m] = W[m + (d + 1)]
            BY <1>3, <1>5, <3>1
        <3>3. d + 1 \in 0 .. Len(W) - 1
            BY <1>3, <1>5, <1>11
        <3> QED BY <3>1, <3>2, <3>3 DEF Remaining
    <2>3. \A m \in 1 .. d + 1 : With(w.record)[W[m].slot] = W[m].record
        <3> TAKE m \in 1 .. d + 1
        <3>1. CASE m = d + 1
            BY <1>5, <3>1 DEF w, PageOf
        <3>2. CASE m # d + 1
            <4>1. m \in 1 .. d /\ W[m].slot = k + 1 + Len(W) - m /\ W[m].slot \in 1 .. n /\ W[m].slot # t
                <5>1. Len(W) \in Nat /\ k \in Nat /\ d < Len(W) /\ k + Len(W) <= n
                    BY <1>3, <1>5
                <5>2. m \in 1 .. d /\ W[m].slot = k + 1 + Len(W) - m
                    <6>1. m \in 1 .. d /\ m \in 1 .. Len(W)
                        BY <1>5, <1>11, <3>2, <5>1
                    <6> QED BY <1>4, <6>1
                <5> QED BY <1>5, <5>1, <5>2, Places
            <4> QED BY <1>3, <4>1 DEF PageOf
        <3> QED BY <3>1, <3>2
    <2>4. With(w.record)[k + 1] = Empty
        BY <1>3, <1>5, <1>11 DEF PageOf
    <2>5. k + Len(W) < n => ~ Valid(With(w.record)[k + Len(W) + 1])
        BY <1>3, <1>5 DEF PageOf
    <2>6. d + 1 \in 0 .. Len(W) - 1
        BY <1>3, <1>5, <1>11
    <2> HIDE DEF With
    <2>7. Appending(With(w.record), n, W, Tail(rest), k, d + 1)
        BY <1>3, <2>1, <2>2, <2>3, <2>4, <2>5 DEF Appending
    <2>8. IsAppending(With(w.record), n, W, Tail(rest))
        BY <1>1, <2>6, <2>7 DEF IsAppending
    <2>9. \A x \in Misread(page[t], w.record) : t # k + 1 /\ ContentOfPage(With(x)) = ContentOfPage(page)
        BY <1>5, <1>11, <1>14
    <2> QED BY <1>5, <1>8, <1>9, <1>11, <1>13, <2>1, <2>8, <2>9 DEF With, AppendStep
<1>12. CASE d + 1 = Len(W)
    <2>1. With(w.record) \in PageOf(n) /\ \A s \in 1 .. k : With(w.record)[s] = page[s]
        BY <1>3, <1>5, <1>10 DEF PageOf
    <2>2. \A m \in 1 .. Len(W) : With(w.record)[W[m].slot] = W[m].record
        <3> TAKE m \in 1 .. Len(W)
        <3>1. CASE m = d + 1
            BY <1>5, <3>1 DEF w, PageOf
        <3>2. CASE m # d + 1
            <4>1. m \in 1 .. d /\ W[m].slot = k + 1 + Len(W) - m /\ W[m].slot \in 1 .. n /\ W[m].slot # t
                <5>1. Len(W) \in Nat /\ k \in Nat /\ d < Len(W) /\ k + Len(W) <= n
                    BY <1>3, <1>5
                <5>2. m \in 1 .. d /\ W[m].slot = k + 1 + Len(W) - m
                    <6>1. m \in 1 .. d /\ m \in 1 .. Len(W)
                        BY <1>5, <1>12, <3>2, <5>1
                    <6> QED BY <1>4, <6>1
                <5> QED BY <1>5, <5>1, <5>2, Places
            <4> QED BY <1>3, <4>1 DEF PageOf
        <3> QED BY <3>1, <3>2
    <2>3. k + Len(W) < n => ~ Valid(With(w.record)[k + Len(W) + 1])
        BY <1>3, <1>5 DEF PageOf
    <2> HIDE DEF With
    <2>5. Complete(page, n, k, W, With(w.record))
        BY <1>3, <2>1, <2>2, <2>3 DEF Complete
    <2>4. ContentOfPage(With(w.record)) = Overlaid(ContentOfPage(page), j)
        BY <1>3, <2>1, <2>5, AppendedContent
    <2>6. ASSUME NEW x \in Misread(page[t], w.record), t = k + 1, Valid(x),
                 NEW c \in Cell \ {w.record.index, x.index}
          PROVE  ContentOfPage(With(x))[c] = Overlaid(ContentOfPage(page), j)[c]
        <3>1. x \in Slot
            BY <1>5, <1>6, <2>6, ProgramSlot
        <3>2. PICK m \in 0 .. n : Prefix(With(w.record), n, m)
            BY <2>1, PrefixExists
        <3>3. /\ DOMAIN With(w.record) = 1 .. n /\ DOMAIN With(x) = 1 .. n
              /\ With(w.record)[t] = w.record /\ With(x)[t] = x
              /\ \A s \in 1 .. n : s # t => With(x)[s] = With(w.record)[s]
            BY <1>5 DEF With, PageOf
        <3>4. t \in 1 .. m
            <4>1. \A s \in 1 .. t : Valid(With(w.record)[s])
                BY <1>3, <1>5, <1>10, <2>1, <2>6, <3>3 DEF Prefix
            <4>2. m < n => ~ Valid(With(w.record)[m + 1])
                BY <3>2 DEF Prefix
            <4> QED BY <1>3, <1>5, <3>2, <4>1, <4>2
        <3>5. ValueOf(With(x), c) = ValueOf(With(w.record), c)
            BY <2>6, <3>2, <3>3, <3>4, OtherValues
        <3>6. /\ ContentOfPage(With(x))[c] = ValueOf(With(x), c)
              /\ ContentOfPage(With(w.record))[c] = ValueOf(With(w.record), c)
            BY <2>6 DEF ContentOfPage
        <3> QED BY <2>4, <3>5, <3>6
    <2> QED BY <1>5, <1>8, <1>9, <1>12, <1>13, <1>14, <2>4, <2>6 DEF With, AppendStep
<1> QED BY <1>11, <1>12

\* The next write of a page swap goes to an empty slot, so that it comes out as the record.
MoveStep(page, n, W, rest) ==
    /\ rest # <<>> /\ rest \in Seq(Write) /\ Head(rest) \in Write
    /\ Head(rest).slot <= n =>
          /\ Head(rest).slot \in 1 .. n
          /\ page[Head(rest).slot] = Empty
          /\ Written(page[Head(rest).slot], Head(rest).record) = {Head(rest).record}
          /\ LET page2 == [page EXCEPT ![Head(rest).slot] = Head(rest).record]
             IN  IF Tail(rest) # <<>> THEN IsCopying(page2, n, W, Tail(rest))
                 ELSE Copied(page2, n, W, Len(W))

LEMMA MoveWrite ==
    ASSUME HalfWordAssumption, NEW n \in Nat, NEW page \in PageOf(n), NEW W \in Seq(Write),
           \A m \in 1 .. Len(W) : W[m].slot = m,
           NEW rest, IsCopying(page, n, W, rest)
    PROVE  MoveStep(page, n, W, rest)
<1>1. PICK d \in 0 .. Len(W) - 1 : Remaining(rest, W, d) /\ Copied(page, n, W, d)
    BY DEF IsCopying
<1>2. /\ rest \in Seq(Write) /\ Len(rest) = Len(W) - d /\ \A m \in 1 .. Len(rest) : rest[m] = W[m + d]
      /\ Len(W) \in Nat /\ d \in Nat /\ d < Len(W)
    BY <1>1 DEF Remaining
<1>3. rest # <<>> /\ 1 \in 1 .. Len(rest)
    BY <1>2
<1>4. /\ Head(rest) = rest[1] /\ Head(rest) \in Write
      /\ Tail(rest) \in Seq(Write) /\ Len(Tail(rest)) = Len(rest) - 1
      /\ \A m \in 1 .. Len(Tail(rest)) : Tail(rest)[m] = rest[m + 1]
      /\ Tail(rest) = <<>> <=> Len(rest) = 1
    BY <1>2, <1>3, TailFacts
<1> DEFINE w == W[d + 1]
<1>5. /\ d + 1 \in 1 .. Len(W) /\ Head(rest) = w /\ w.slot = d + 1 /\ w.record \in Record
    <2>1. d + 1 \in 1 .. Len(W) /\ Head(rest) = w
        BY <1>2, <1>3, <1>4
    <2> QED BY <1>4, <2>1 DEF Write
<1> HIDE DEF w
<1>6. SUFFICES ASSUME d + 1 <= n
               PROVE  /\ d + 1 \in 1 .. n
                      /\ page[d + 1] = Empty
                      /\ Written(page[d + 1], w.record) = {w.record}
                      /\ LET page2 == [page EXCEPT ![d + 1] = w.record]
                         IN  IF Tail(rest) # <<>> THEN IsCopying(page2, n, W, Tail(rest))
                             ELSE Copied(page2, n, W, Len(W))
    BY <1>2, <1>3, <1>4, <1>5 DEF MoveStep
<1>7. d + 1 \in 1 .. n /\ page[d + 1] = Empty
    BY <1>1, <1>2, <1>6 DEF Copied
<1>8. Written(page[d + 1], w.record) = {w.record}
    BY <1>5, <1>7, SlotTypes, ProgramSlot
<1> DEFINE page2 == [page EXCEPT ![d + 1] = w.record]
<1>9. Copied(page2, n, W, d + 1)
    <2>1. \A s \in 1 .. d + 1 : s \in 1 .. n /\ page2[s] = W[s].record
        <3> TAKE s \in 1 .. d + 1
        <3>1. CASE s = d + 1
            BY <1>7, <3>1 DEF w, PageOf
        <3>2. CASE s # d + 1
            BY <1>1, <1>2, <1>7, <3>2 DEF Copied, PageOf
        <3> QED BY <3>1, <3>2
    <2>2. \A s \in (d + 1) + 1 .. n : page2[s] = Empty
        BY <1>1, <1>2, <1>7 DEF Copied, PageOf
    <2> QED BY <1>6, <2>1, <2>2 DEF Copied
<1> HIDE DEF page2
<1>10. CASE Tail(rest) = <<>>
    <2>1. d + 1 = Len(W)
        BY <1>2, <1>4, <1>10
    <2> QED BY <1>7, <1>8, <1>9, <1>10, <2>1 DEF page2
<1>11. CASE Tail(rest) # <<>>
    <2>1. d + 1 \in 0 .. Len(W) - 1 /\ Len(Tail(rest)) = Len(W) - (d + 1)
        BY <1>2, <1>4, <1>5, <1>11
    <2>2. \A m \in 1 .. Len(Tail(rest)) : m + 1 \in 1 .. Len(rest) /\ Tail(rest)[m] = W[m + (d + 1)]
        BY <1>2, <1>4, <2>1
    <2>3. Remaining(Tail(rest), W, d + 1)
        BY <1>4, <2>1, <2>2 DEF Remaining
    <2>4. IsCopying(page2, n, W, Tail(rest))
        BY <1>9, <2>1, <2>3 DEF IsCopying
    <2> QED BY <1>7, <1>8, <1>11, <2>4 DEF page2
<1> QED BY <1>10, <1>11
-----------------------------------------------------------------------------
(* The steps of the device *)

LEMMA Types ==
    ASSUME EEPROMInv
    PROVE  /\ Page = {1, 2} /\ None \notin Page
           /\ \A p \in Page : /\ slot[p] \in PageOf(Slots[p]) /\ Slots[p] \in Nat
                              /\ Alternate(p) \in Page /\ Alternate(p) # p /\ Alternate(Alternate(p)) = p
           /\ slot = [p \in Page |-> slot[p]]
           /\ status \in [Page -> PageStatus]
           /\ Open => activePage \in Page
BY EEPROMAssumption, SlotAssumption DEF EEPROMInv, TypeOK, PagesOK, PageOf, Page, Alternate

\* What is read before and after a step.
LEMMA Reading ==
    /\ None \notin Page
    /\ activePage \in Page => Get = ContentOfPage(slot[activePage])
    /\ activePage' \in Page => Get' = ContentOfPage(slot'[activePage'])
    /\ ActiveOf(status) \in Page => GetAfterReset = ContentOfPage(slot[ActiveOf(status)])
    /\ ActiveOf(status') \in Page => GetAfterReset' = ContentOfPage(slot'[ActiveOf(status')])
    /\ ActiveOf(status) \in Page \cup {None} /\ ActiveOf(status') \in Page \cup {None}
    /\ After = Overlaid(before, job) /\ After' = Overlaid(before', job')
<1>1. None \notin Page
    BY SlotAssumption
<1>3. ActiveOf(status) \in Page \cup {None} /\ ActiveOf(status') \in Page \cup {None}
    BY DEF ActiveOf, Page
<1>4. After = Overlaid(before, job) /\ After' = Overlaid(before', job')
    BY DEF After, Overlaid
<1>5. activePage \in Page => Get = ContentOfPage(slot[activePage])
    BY <1>1 DEF Get, ContentOf, ContentOfPage
<1>6. activePage' \in Page => Get' = ContentOfPage(slot'[activePage'])
    BY <1>1 DEF Get, ContentOf, ContentOfPage
<1>7. ActiveOf(status) \in Page => GetAfterReset = ContentOfPage(slot[ActiveOf(status)])
    BY <1>1 DEF GetAfterReset, ContentOf, ContentOfPage
<1>8. ActiveOf(status') \in Page => GetAfterReset' = ContentOfPage(slot'[ActiveOf(status')])
    BY <1>1 DEF GetAfterReset, ContentOf, ContentOfPage
<1> QED BY <1>1, <1>3, <1>4, <1>5, <1>6, <1>7, <1>8

LEMMA InitEEPROM == Init => EEPROMInv
<1> SUFFICES ASSUME Init PROVE EEPROMInv
    OBVIOUS
<1>1. TypeOK
    <2>1. \A p \in Page : slot[p] \in [1 .. Slots[p] -> Slot]
        BY SlotTypes DEF Init, BlankPage
    <2>2. before \in [Cell -> Content]
        BY DEF Init, Content
    <2>3. unretired \in BOOLEAN
        BY Zenon DEF Init
    <2> QED BY <2>1, <2>2, <2>3, EEPROMAssumption DEF Init, TypeOK, PageStatus, Calls
<1>2. PagesOK
    BY DEF Init, PagesOK, Open
<1> QED BY <1>1, <1>2 DEF Init, EEPROMInv, AppendOK, SwapOK, ContentOK, Putting

\* The content of a page is a function from cells to bytes.
LEMMA ContentType ==
    ASSUME NEW n \in Nat, NEW page \in PageOf(n)
    PROVE  ContentOfPage(page) \in [Cell -> Content]
BY ValueType DEF ContentOfPage

\* What a page swap writes, as far as the steps need it.
LEMMA MovedWrites ==
    ASSUME NEW n \in Nat, NEW page \in PageOf(n), NEW j, JobOK(j)
    PROVE  Moved(page, j) \in Seq(Write) /\ \A m \in 1 .. Len(Moved(page, j)) : Moved(page, j)[m].slot = m
<1> DEFINE W == Moved(page, j)
<1>1. MoveWrites(page, j, Kept(page, j), NotBlank(j), Cardinality(Kept(page, j)), Cardinality(NotBlank(j)), W)
    BY MovePlan
<1> QED BY <1>1 DEF MoveWrites

LEMMA TodoType ==
    ASSUME NEW rest \in Seq(Write)
    PROVE  \A n \in DOMAIN rest : rest[n].slot \in Nat \ {0} /\ rest[n].record \in Record
<1>1. \A n \in DOMAIN rest : rest[n] \in Write
    OBVIOUS
<1> QED BY <1>1 DEF Write

\* An attempt of the page swap begins, from a page that still holds what it held before the put.
LEMMA AttemptKeeps ==
    ASSUME EEPROMInv, HalfWordAssumption, Open, NEW n \in {0, 1}, Attempt(job', n),
           activePage' = activePage, job' # job => pc = "idle",
           status' \in [Page -> PageStatus], ~ unretired' => ActiveOf(status') = activePage,
           slot' = [p \in Page |-> slot'[p]],
           \A p \in Page : slot'[p] \in PageOf(Slots[p]),
           n = 0 => slot'[Alternate(activePage)] = slot[Alternate(activePage)],
           JobOK(job'), Whole(ContentOfPage(slot'[activePage]), before', job', spoilt'),
           before' \in [Cell -> Content], spoilt' \in SUBSET Cell,
           failures' \in 0 .. MaxFailures, unretired' \in BOOLEAN
    PROVE  EEPROMInv'
<1>1. /\ tries' = n /\ todo' = Moved(slot'[activePage], job') /\ result' = result
      /\ pc' \in {"mark", "erase"}
      /\ pc' = "mark" => slot'[Alternate(activePage)] = BlankPage(Alternate(activePage))
    BY DEF Attempt, VerifyPage
<1>2. activePage \in Page /\ Slots[activePage] \in Nat
    BY Types
<1>3. todo' \in Seq(Write)
    BY <1>1, <1>2, MovedWrites
<1>4. TypeOK'
    <2>1. \A m \in DOMAIN todo' : todo'[m].slot \in Nat \ {0} /\ todo'[m].record \in Record
        BY <1>3, TodoType
    <2>2. \A p \in Page : slot'[p] \in [1 .. Slots[p] -> Slot]
        BY DEF PageOf
    <2> QED BY <1>1, <1>2, <2>1, <2>2 DEF TypeOK, Calls
<1>5. PagesOK'
    BY <1>1, <1>2 DEF PagesOK
<1>6. AppendOK'
    BY <1>1 DEF AppendOK
<1>7. SwapOK'
    BY <1>1 DEF SwapOK, Swapping, BlankPage, Alternate
<1>8. ContentOK'
    BY <1>1, <1>2, Reading DEF ContentOK
<1> QED BY <1>4, <1>5, <1>6, <1>7, <1>8 DEF EEPROMInv

\* A write of a put fails: the put goes on with a page swap, or ends.
LEMMA FailureKeeps ==
    ASSUME EEPROMInv, HalfWordAssumption, Putting, NEW f \in 0 .. MaxFailures, OnFailure(f),
           UNCHANGED <<activePage, job, before>>,
           status' \in [Page -> PageStatus], ~ unretired' => ActiveOf(status') = activePage,
           slot' = [p \in Page |-> slot'[p]],
           \A p \in Page : slot'[p] \in PageOf(Slots[p]),
           Whole(ContentOfPage(slot'[activePage]), before, job, spoilt'), spoilt' \in SUBSET Cell,
           pc = "append" => slot'[Alternate(activePage)] = slot[Alternate(activePage)],
           unretired' \in BOOLEAN
    PROVE  EEPROMInv'
<1>1. Open /\ activePage \in Page /\ JobOK(job) /\ before \in [Cell -> Content]
    BY Types DEF Putting, Open, EEPROMInv, ContentOK, TypeOK
<1>2. /\ activePage' \in Page /\ JobOK(job') /\ before' \in [Cell -> Content]
      /\ Whole(ContentOfPage(slot'[activePage]), before', job', spoilt')
    BY <1>1
<1>3. CASE pc = "append"
    BY <1>1, <1>2, <1>3, AttemptKeeps DEF OnFailure
<1>4. CASE pc # "append" /\ tries = 0
    <2>1. Attempt(job', 1) /\ failures' = f
        BY <1>4 DEF OnFailure, Attempt
    <2> QED BY <1>1, <1>2, <2>1, AttemptKeeps
<1>5. CASE pc # "append" /\ tries # 0
    <2>1. pc' = "idle" /\ todo' = <<>> /\ tries' = 0 /\ failures' = 0 /\ result' = "failed"
        BY <1>5 DEF OnFailure, Return
    <2>2. TypeOK'
        <3>1. \A p \in Page : slot'[p] \in [1 .. Slots[p] -> Slot]
            BY DEF PageOf
        <3> QED BY <1>2, <2>1, <3>1, EEPROMAssumption DEF TypeOK, Calls
    <2>3. PagesOK'
        BY <1>1, <2>1 DEF PagesOK
    <2>4. ContentOK'
        BY <1>2, <2>1, Reading DEF ContentOK, Putting
    <2> QED BY <2>1, <2>2, <2>3, <2>4 DEF EEPROMInv, AppendOK, SwapOK
<1> QED BY <1>3, <1>4, <1>5

LEMMA BootKeeps ==
    ASSUME EEPROMInv, Boot PROVE EEPROMInv'
<1>1. /\ pc = "boot" /\ activePage' = ActiveOf(status)
      /\ UNCHANGED <<status, slot, todo, tries, before, spoilt, failures, unretired, result>>
    BY DEF Boot, pages
<1>2. result # "done" /\ (job # None => Whole(GetAfterReset, before, job, spoilt))
    BY <1>1 DEF EEPROMInv, ContentOK
<1>3. slot = [p \in Page |-> slot[p]] /\ ActiveOf(status) \in Page \cup {None}
    BY Types, Reading
<1>4. CASE ActiveOf(status) = None
    <2>1. pc' = "clear1" /\ job' = None
        BY <1>4 DEF Boot
    <2>2. TypeOK'
        BY <1>1, <1>3, <2>1 DEF EEPROMInv, TypeOK, Calls
    <2> QED BY <1>1, <1>3, <2>1, <2>2
            DEF EEPROMInv, PagesOK, Open, AppendOK, SwapOK, ContentOK, Putting
<1>5. CASE ActiveOf(status) \in Page
    <2>1. pc' = "idle" /\ job' = job /\ activePage' \in Page
        BY <1>1, <1>5, Reading DEF Boot
    <2>2. TypeOK'
        BY <1>1, <1>3, <2>1 DEF EEPROMInv, TypeOK, Calls
    <2>4. PagesOK'
        BY <1>1, <1>3, <2>1 DEF PagesOK
    <2>5. Get' = GetAfterReset
        BY <1>1, <1>5, <2>1, Reading
    <2>6. ContentOK'
        BY <1>1, <1>2, <2>1, <2>5 DEF ContentOK, Putting
    <2> QED BY <2>1, <2>2, <2>4, <2>6 DEF EEPROMInv, AppendOK, SwapOK
<1> QED BY <1>3, <1>4, <1>5

LEMMA PutKeeps ==
    ASSUME EEPROMInv, HalfWordAssumption, BeginPut PROVE EEPROMInv'
<1>1. PICK j : j.first \in Cell /\ j.data \in Seq(Content) /\ Put(j)
    <2>1. PICK length \in 1 .. MaxLength :
              \E first \in Cell, data \in [1 .. length -> Content] : Put([first |-> first, data |-> data])
        BY DEF BeginPut
    <2>2. PICK first \in Cell, data \in [1 .. length -> Content] : Put([first |-> first, data |-> data])
        BY <2>1
    <2>3. data \in Seq(Content)
        BY EEPROMAssumption
    <2> QED BY <2>2, <2>3
<1> DEFINE page == slot[activePage]
<1>2. /\ pc = "idle" /\ activePage \in Page /\ j.first + Len(j.data) <= Capacity
      /\ UNCHANGED <<status, slot, activePage, unretired>> /\ job' = j /\ before' = Get /\ spoilt' = {}
      /\ Open /\ slot = [p \in Page |-> slot[p]]
    BY <1>1, Types DEF Put, pages, Open, EEPROMInv, PagesOK
<1>3. JobOK(j) /\ JobOK(job')
    BY <1>1, <1>2 DEF JobOK
<1>4. /\ page \in PageOf(Slots[activePage]) /\ Slots[activePage] \in Nat /\ before' = ContentOfPage(page)
      /\ before' \in [Cell -> Content] /\ \A p \in Page : slot[p] \in PageOf(Slots[p])
    BY <1>2, Types, Reading, ContentType
<1>5. /\ tries \in {0, 1} /\ failures \in 0 .. MaxFailures /\ unretired \in BOOLEAN
      /\ \A n \in DOMAIN todo : todo[n].slot \in Nat \ {0} /\ todo[n].record \in Record
      /\ status \in [Page -> PageStatus]
      /\ 0 \in 0 .. MaxFailures
    BY EEPROMAssumption DEF EEPROMInv, TypeOK
<1>6. /\ \A p \in Page : slot'[p] \in [1 .. Slots[p] -> Slot]
      /\ slot' = [p \in Page |-> slot'[p]]
    BY <1>2, <1>4 DEF PageOf
<1>7. ~ unretired => ActiveOf(status) = activePage
    BY <1>2 DEF EEPROMInv, PagesOK
<1> HIDE DEF page
<1>8. PICK k \in 0 .. Slots[activePage] : Prefix(page, Slots[activePage], k)
    BY <1>4, PrefixExists
<1>9. DOMAIN page = 1 .. Slots[activePage] /\ Len(page) = Slots[activePage] /\ FirstFree(page) = k + 1
    BY <1>4, <1>8, PrefixIs DEF PageOf
<1>10. /\ AppendWrites(j, k, Changed(page, j), Cardinality(Changed(page, j)), Appended(page, j))
       /\ IsFiniteSet(Changed(page, j))
    <2>1. Changed(page, j) \subseteq 1 .. Len(j.data) /\ Len(j.data) \in Nat
        BY <1>3, Block DEF Changed
    <2> QED BY <1>3, <1>4, <1>8, <2>1, AppendPlan, SubsetOfInterval
<1>11. CASE ~ HasInvalidRecords(page) /\ Changed(page, j) = {}
    <2>1. pc' = "idle" /\ todo' = <<>> /\ tries' = 0 /\ failures' = 0 /\ result' = "done"
        BY <1>1, <1>11 DEF Put, Return, page
    <2>2. Overlaid(ContentOfPage(page), j) = ContentOfPage(page)
        <3>1. ASSUME NEW c \in Cell, InBlock(j, c) PROVE j.data[c - j.first + 1] = ValueOf(page, c)
            <4>1. PICK l \in 1 .. Len(j.data) : l = c - j.first + 1 /\ IndexOf(j, l) = c
                BY <1>3, <3>1, Block
            <4> QED BY <1>3, <1>11, <4>1, Block DEF Changed
        <3> QED BY <3>1 DEF Overlaid, ContentOfPage
    <2>3. TypeOK'
        BY <1>2, <1>4, <1>5, <1>6, <2>1 DEF TypeOK, Calls
    <2>4. PagesOK'
        BY <1>2, <1>6, <1>7, <2>1 DEF PagesOK
    <2>5. Get' = before' /\ Overlaid(before', job') = before'
        BY <1>2, <1>4, <2>2, Reading DEF page
    <2>6. ContentOK'
        BY <2>1, <2>5 DEF ContentOK, Putting, Whole, Covered
    <2> QED BY <2>1, <2>3, <2>4, <2>6 DEF EEPROMInv, AppendOK, SwapOK
<1>12. CASE ~ HasInvalidRecords(page) /\ Changed(page, j) # {} /\ CanAppend(page, j)
    <2>1. pc' = "append" /\ todo' = Appended(page, j) /\ UNCHANGED <<tries, failures, result>>
        BY <1>1, <1>12 DEF Put, page
    <2> DEFINE W == Appended(page, j)
               c == Len(W)
    <2>2. c = Cardinality(Changed(page, j)) /\ c \in Nat /\ W \in Seq(Write)
        BY <1>10 DEF AppendWrites
    <2>3. c # 0
        BY <1>10, <1>12, <2>2, FS_EmptySet
    <2>4. k + c <= Slots[activePage] /\ (k + c < Slots[activePage] => page[k + c + 1] = Empty)
        <3>1. (k + 1) + c - 1 <= Slots[activePage] /\ Separated(page, c)
            BY <1>9, <1>12, <2>2 DEF CanAppend
        <3>2. (k + 1) + c \in 1 .. Slots[activePage] => page[(k + 1) + c] = Empty
            BY <1>9, <3>1 DEF Separated
        <3>3. k + c <= Slots[activePage]
            BY <1>8, <2>2, <3>1
        <3>4. (k + 1) + c = k + c + 1 /\ (k + c < Slots[activePage] => k + c + 1 \in 1 .. Slots[activePage])
            BY <1>4, <1>8, <2>2
        <3> QED BY <3>2, <3>3, <3>4
    <2>5. page[k + 1] = Empty
        <3>1. k + 1 \in 1 .. Slots[activePage]
            BY <1>4, <1>8, <2>2, <2>3, <2>4
        <3>2. page[k + 1] \in Slot /\ page[k + 1] # Invalid /\ ~ Valid(page[k + 1])
            BY <1>4, <1>8, <1>9, <1>12, <3>1 DEF PageOf, HasInvalidRecords, Prefix
        <3> QED BY <3>2 DEF Valid
    <2>6. Remaining(W, W, 0)
        BY <2>2, <2>3 DEF Remaining
    <2>7. Appending(page, Slots[activePage], W, W, k, 0)
        BY <1>8, <2>4, <2>5, <2>6, SlotTypes DEF Appending
    <2>8. IsAppending(page, Slots[activePage], W, W)
        <3>1. 0 \in 0 .. Len(W) - 1
            BY <2>2, <2>3
        <3> QED BY <2>7, <3>1 DEF IsAppending
    <2>9. AppendOK'
        BY <1>2, <2>1, <2>8 DEF AppendOK, page
    <2>10. TypeOK'
        BY <1>2, <1>4, <1>5, <1>6, <2>1, <2>2, TodoType DEF TypeOK, Calls
    <2>11. PagesOK'
        BY <1>2, <1>6, <1>7, <2>1 DEF PagesOK
    <2>12. ContentOK'
        <3>1. Get' = before'
            BY <1>2, <1>4, Reading DEF page
        <3> QED BY <1>3, <2>1, <3>1 DEF ContentOK, Whole
    <2> QED BY <2>1, <2>9, <2>10, <2>11, <2>12 DEF EEPROMInv, SwapOK
<1>13. CASE ~ (~ HasInvalidRecords(page) /\ Changed(page, j) = {}) /\ ~ CanAppend(page, j)
    <2>1. Attempt(job', 0) /\ failures' = failures
        BY <1>1, <1>2, <1>13 DEF Put, page
    <2>2. Whole(ContentOfPage(slot'[activePage]), before', job', spoilt')
        BY <1>2, <1>4 DEF Whole, page
    <2> QED BY <1>2, <1>3, <1>4, <1>5, <1>7, <2>1, <2>2, AttemptKeeps DEF page
<1> QED BY <1>11, <1>12, <1>13 DEF CanAppend

\* Programming one slot of a page.
LEMMA ProgramPage ==
    ASSUME EEPROMInv, NEW p \in Page, NEW s \in 1 .. Slots[p], NEW x \in Slot,
           slot' = [slot EXCEPT ![p][s] = x]
    PROVE  /\ slot' = [q \in Page |-> slot'[q]]
           /\ \A q \in Page : slot'[q] \in PageOf(Slots[q])
           /\ slot'[p] = [slot[p] EXCEPT ![s] = x]
           /\ slot'[Alternate(p)] = slot[Alternate(p)]
BY Types DEF PageOf

LEMMA RestType ==
    ASSUME NEW page, NEW n, NEW W, NEW rest, IsAppending(page, n, W, rest) \/ IsCopying(page, n, W, rest)
    PROVE  rest \in Seq(Write)
BY DEF IsAppending, Appending, IsCopying, Remaining

LEMMA WriteKeeps ==
    ASSUME EEPROMInv, HalfWordAssumption, WriteRecord PROVE EEPROMInv'
<1>1. /\ pc \in {"append", "move"} /\ UNCHANGED <<status, activePage, job, before, spoilt, unretired>>
      /\ Open /\ Putting /\ activePage \in Page /\ JobOK(job)
      /\ Whole(Get, before, job, spoilt) /\ (pc = "append" => Get = before)
    BY Types DEF WriteRecord, Open, Putting, EEPROMInv, ContentOK
<1>2. /\ before \in [Cell -> Content] /\ spoilt \in SUBSET Cell
      /\ failures \in 0 .. MaxFailures /\ unretired \in BOOLEAN
      /\ status \in [Page -> PageStatus] /\ tries \in {0, 1} /\ 0 \in 0 .. MaxFailures
      /\ slot = [q \in Page |-> slot[q]]
      /\ \A q \in Page : slot[q] \in PageOf(Slots[q]) /\ Slots[q] \in Nat
    BY Types, EEPROMAssumption DEF EEPROMInv, TypeOK
<1>3. ~ unretired => ActiveOf(status) = activePage
    BY <1>1 DEF EEPROMInv, PagesOK
<1>4. PICK w : w = NextWrite
    OBVIOUS
<1>5. PICK page : page = slot[activePage]
    OBVIOUS
<1>6. PICK n \in Nat : n = Slots[activePage] /\ page \in PageOf(n) /\ Get = ContentOfPage(page)
    BY <1>1, <1>2, <1>5, Reading
<1>7. CASE pc = "append"
    <2>1. Target = activePage /\ IsAppending(page, n, Appended(page, job), todo)
        BY <1>5, <1>6, <1>7 DEF Target, EEPROMInv, AppendOK
    <2>2. /\ w = Head(todo) /\ w \in Write /\ w.slot \in 1 .. n
          /\ \A x \in Written(page[w.slot], w.record) \ {w.record} :
                ContentOfPage([page EXCEPT ![w.slot] = x]) = ContentOfPage(page)
          /\ LET page2 == [page EXCEPT ![w.slot] = w.record]
             IN  IF Tail(todo) # <<>>
                 THEN /\ ContentOfPage(page2) = ContentOfPage(page)
                      /\ IsAppending(page2, n, Appended(page2, job), Tail(todo))
                 ELSE ContentOfPage(page2) = Overlaid(ContentOfPage(page), job)
        <3>1. w = Head(todo)
            BY <1>4 DEF NextWrite
        <3>2. AppendStep(page, n, job, todo)
            BY <1>1, <1>6, <2>1, AppendWrite
        <3> QED BY <3>1, <3>2 DEF AppendStep
    <2>3. PICK x \in Written(page[w.slot], w.record) :
              /\ slot' = [slot EXCEPT ![activePage][w.slot] = x]
              /\ IF x = w.record THEN AfterRecord ELSE OnFailure(failures)
        <3>1. ~ (w.slot > Slots[activePage])
            BY <1>6, <2>2
        <3> QED BY <1>4, <1>5, <2>1, <3>1 DEF WriteRecord
    <2>4. x \in Slot
        <3>1. page[w.slot] \in Slot /\ w.record \in Record
            BY <1>6, <2>2 DEF PageOf, Write
        <3> QED BY <2>3, <3>1, ProgramSlot
    <2>5. /\ slot' = [q \in Page |-> slot'[q]] /\ \A q \in Page : slot'[q] \in PageOf(Slots[q])
          /\ slot'[activePage] = [page EXCEPT ![w.slot] = x]
          /\ slot'[Alternate(activePage)] = slot[Alternate(activePage)]
        BY <1>1, <1>5, <1>6, <2>2, <2>3, <2>4, ProgramPage
    <2>6. CASE x # w.record
        <3>1. ContentOfPage(slot'[activePage]) = ContentOfPage(page)
            BY <2>2, <2>3, <2>5, <2>6
        <3>2. Whole(ContentOfPage(slot'[activePage]), before, job, spoilt')
            BY <1>1, <1>6, <3>1
        <3> QED BY <1>1, <1>2, <1>3, <1>7, <2>3, <2>5, <2>6, <3>2, FailureKeeps
    <2>7. CASE x = w.record /\ Tail(todo) # <<>>
        <3>1. todo' = Tail(todo) /\ UNCHANGED <<pc, tries, failures, result>>
            BY <2>3, <2>7 DEF AfterRecord
        <3>2. /\ ContentOfPage(slot'[activePage]) = ContentOfPage(page)
              /\ IsAppending(slot'[activePage], n, Appended(slot'[activePage], job), Tail(todo))
            BY <2>2, <2>5, <2>7
        <3>3. TypeOK'
            <4>1. Tail(todo) \in Seq(Write)
                BY <3>2, RestType
            <4>2. \A m \in DOMAIN todo' : todo'[m].slot \in Nat \ {0} /\ todo'[m].record \in Record
                BY <3>1, <4>1, TodoType
            <4>3. \A q \in Page : slot'[q] \in [1 .. Slots[q] -> Slot]
                BY <2>5 DEF PageOf
            <4> QED BY <1>1, <1>2, <1>7, <3>1, <4>2, <4>3 DEF TypeOK, Calls
        <3>4. PagesOK'
            BY <1>1, <1>3, <1>7, <2>5, <3>1 DEF PagesOK
        <3>5. AppendOK'
            BY <1>1, <1>6, <3>1, <3>2 DEF AppendOK
        <3>6. ContentOK'
            <4>1. Get' = before'
                BY <1>1, <1>6, <1>7, <3>2, Reading
            <4> QED BY <1>1, <1>7, <3>1, <4>1 DEF ContentOK, Whole
        <3> QED BY <1>7, <3>1, <3>3, <3>4, <3>5, <3>6 DEF EEPROMInv, SwapOK
    <2>8. CASE x = w.record /\ Tail(todo) = <<>>
        <3>1. pc' = "idle" /\ todo' = <<>> /\ tries' = 0 /\ failures' = 0 /\ result' = "done"
            BY <1>7, <2>3, <2>8 DEF AfterRecord, Return
        <3>2. ContentOfPage(slot'[activePage]) = Overlaid(ContentOfPage(page), job)
            BY <2>2, <2>5, <2>8
        <3>3. Get' = Overlaid(before', job')
            BY <1>1, <1>6, <1>7, <3>2, Reading
        <3>4. TypeOK'
            <4>1. \A q \in Page : slot'[q] \in [1 .. Slots[q] -> Slot]
                BY <2>5 DEF PageOf
            <4> QED BY <1>1, <1>2, <3>1, <4>1 DEF TypeOK, Calls
        <3>5. PagesOK'
            BY <1>1, <1>3, <2>5, <3>1 DEF PagesOK
        <3>6. ContentOK'
            BY <3>1, <3>3 DEF ContentOK, Putting, Whole, Covered
        <3> QED BY <3>1, <3>4, <3>5, <3>6 DEF EEPROMInv, AppendOK, SwapOK
    <2> QED BY <2>6, <2>7, <2>8
<1>8. CASE pc = "move"
    <2>1. PICK other \in Page : other = Alternate(activePage) /\ other = Target /\ other # activePage
        BY <1>1, <1>8, Types DEF Target
    <2>2. PICK W \in Seq(Write) : W = Moved(page, job) /\ \A m \in 1 .. Len(W) : W[m].slot = m
        BY <1>1, <1>6, MovedWrites
    <2>3. IsCopying(slot[other], Slots[other], W, todo)
        BY <1>5, <1>8, <2>1, <2>2 DEF EEPROMInv, SwapOK, Swapping
    <2>4. slot[other] \in PageOf(Slots[other]) /\ Slots[other] \in Nat
        BY <1>2
    <2>5. /\ w = Head(todo) /\ w \in Write
          /\ w.slot <= Slots[other] =>
                /\ w.slot \in 1 .. Slots[other]
                /\ Written(slot[other][w.slot], w.record) = {w.record}
                /\ LET page2 == [slot[other] EXCEPT ![w.slot] = w.record]
                   IN  IF Tail(todo) # <<>> THEN IsCopying(page2, Slots[other], W, Tail(todo))
                       ELSE Copied(page2, Slots[other], W, Len(W))
        <3>1. MoveStep(slot[other], Slots[other], W, todo)
            BY <2>2, <2>3, <2>4, MoveWrite
        <3> QED BY <1>4, <3>1 DEF MoveStep, NextWrite
    <2>6. w.slot \in Nat /\ w.record \in Record /\ Record \subseteq Slot
        BY <2>5, SlotTypes DEF Write
    <2>7. CASE w.slot > Slots[other]
        <3>1. OnFailure(failures) /\ slot' = slot
            BY <1>4, <2>1, <2>7 DEF WriteRecord
        <3>2. Whole(ContentOfPage(slot'[activePage]), before, job, spoilt')
            BY <1>1, <1>5, <1>6, <3>1
        <3> QED BY <1>1, <1>2, <1>3, <1>8, <3>1, <3>2, FailureKeeps
    <2>8. CASE ~ (w.slot > Slots[other])
        <3>1. w.slot <= Slots[other] /\ w.slot \in 1 .. Slots[other]
            BY <2>4, <2>5, <2>6, <2>8
        <3>2. slot' = [slot EXCEPT ![other][w.slot] = w.record] /\ AfterRecord
            BY <1>4, <2>1, <2>5, <2>8, <3>1 DEF WriteRecord
        <3>3. /\ slot' = [q \in Page |-> slot'[q]] /\ \A q \in Page : slot'[q] \in PageOf(Slots[q])
              /\ slot'[other] = [slot[other] EXCEPT ![w.slot] = w.record]
              /\ slot'[activePage] = page
            BY <1>1, <1>5, <2>1, <2>6, <3>1, <3>2, ProgramPage, Types
        <3>4. Whole(Get', before', job', spoilt') /\ JobOK(job')
            <4>1. Get' = Get
                BY <1>1, <1>6, <3>3, Reading
            <4> QED BY <1>1, <4>1
        <3>5. CASE Tail(todo) # <<>>
            <4>1. todo' = Tail(todo) /\ UNCHANGED <<pc, tries, failures, result>>
                BY <3>2, <3>5 DEF AfterRecord
            <4>2. IsCopying(slot'[other], Slots[other], W, Tail(todo))
                BY <2>5, <3>1, <3>3, <3>5
            <4>3. TypeOK'
                <5>1. Tail(todo) \in Seq(Write)
                    BY <4>2, RestType
                <5>2. \A m \in DOMAIN todo' : todo'[m].slot \in Nat \ {0} /\ todo'[m].record \in Record
                    BY <4>1, <5>1, TodoType
                <5>3. \A q \in Page : slot'[q] \in [1 .. Slots[q] -> Slot]
                    BY <3>3 DEF PageOf
                <5> QED BY <1>1, <1>2, <1>8, <4>1, <5>2, <5>3 DEF TypeOK, Calls
            <4>4. PagesOK'
                BY <1>1, <1>3, <1>8, <3>3, <4>1 DEF PagesOK
            <4>5. SwapOK'
                BY <1>1, <1>8, <2>1, <2>2, <3>3, <4>1, <4>2 DEF SwapOK, Swapping
            <4>6. ContentOK'
                BY <1>8, <3>4, <4>1 DEF ContentOK
            <4> QED BY <1>8, <4>1, <4>3, <4>4, <4>5, <4>6 DEF EEPROMInv, AppendOK
        <3>6. CASE Tail(todo) = <<>>
            <4>1. pc' = "activate" /\ todo' = <<>> /\ UNCHANGED <<tries, failures, result>>
                BY <1>8, <3>2, <3>6 DEF AfterRecord
            <4>2. Copied(slot'[other], Slots[other], W, Len(W))
                BY <2>5, <3>1, <3>3, <3>6
            <4>3. TypeOK'
                <5>1. \A q \in Page : slot'[q] \in [1 .. Slots[q] -> Slot]
                    BY <3>3 DEF PageOf
                <5> QED BY <1>1, <1>2, <4>1, <5>1 DEF TypeOK, Calls
            <4>4. PagesOK'
                BY <1>1, <1>3, <3>3, <4>1 DEF PagesOK
            <4>5. SwapOK'
                BY <1>1, <2>1, <2>2, <3>3, <4>1, <4>2 DEF SwapOK, Swapping
            <4>6. ContentOK'
                BY <3>4, <4>1 DEF ContentOK
            <4> QED BY <4>1, <4>3, <4>4, <4>5, <4>6 DEF EEPROMInv, AppendOK
        <3> QED BY <3>5, <3>6
    <2> QED BY <2>7, <2>8
<1> QED BY <1>1, <1>7, <1>8

Swap == {"erase", "mark", "move", "activate", "retire"}

\* A step of a page swap leaves the source alone.
LEMMA SwapGoesOn ==
    ASSUME EEPROMInv, pc \in Swap, pc' \in Swap,
           UNCHANGED <<activePage, todo, tries, job, before, spoilt, failures, unretired, result>>,
           slot' = [q \in Page |-> slot'[q]], \A q \in Page : slot'[q] \in PageOf(Slots[q]),
           slot'[activePage] = slot[activePage],
           status' \in [Page -> PageStatus],
           pc' = "retire" => status'[Alternate(activePage)] = "active",
           pc' # "retire" /\ ~ unretired => ActiveOf(status') = activePage,
           SwapOK'
    PROVE  EEPROMInv'
<1>1. activePage \in Page /\ JobOK(job) /\ Whole(Get, before, job, spoilt)
    BY Types DEF Swap, Open, Putting, EEPROMInv, ContentOK
<1>2. TypeOK'
    <2>1. \A q \in Page : slot'[q] \in [1 .. Slots[q] -> Slot]
        BY DEF PageOf
    <2> QED BY <1>1, <2>1 DEF EEPROMInv, TypeOK, Calls, Swap
<1>3. PagesOK'
    BY <1>1 DEF PagesOK
<1>4. ContentOK'
    <2>1. Get' = Get
        BY <1>1, Reading
    <2> QED BY <1>1, <2>1 DEF ContentOK, Swap
<1> QED BY <1>2, <1>3, <1>4 DEF EEPROMInv, AppendOK, Swap

\* Changing one page and its header.
LEMMA OnePage ==
    ASSUME EEPROMInv, NEW p \in Page, NEW st \in PageStatus, NEW page \in PageOf(Slots[p]),
           status' = [status EXCEPT ![p] = st], slot' = [slot EXCEPT ![p] = page]
    PROVE  /\ status' \in [Page -> PageStatus] /\ status'[p] = st /\ slot'[p] = page
           /\ status'[Alternate(p)] = status[Alternate(p)] /\ slot'[Alternate(p)] = slot[Alternate(p)]
           /\ slot' = [q \in Page |-> slot'[q]] /\ \A q \in Page : slot'[q] \in PageOf(Slots[q])
           /\ \A q \in Page : q # p => q = Alternate(p)
           /\ status[Alternate(p)] = "active" /\ st # "active" => ActiveOf(status') = Alternate(p)
<1>1. \A q \in Page : q # p => q = Alternate(p)
    BY Types DEF Page, Alternate
<1>2. /\ status' \in [Page -> PageStatus] /\ status'[p] = st /\ slot'[p] = page
      /\ status'[Alternate(p)] = status[Alternate(p)] /\ slot'[Alternate(p)] = slot[Alternate(p)]
      /\ slot' = [q \in Page |-> slot'[q]] /\ \A q \in Page : slot'[q] \in PageOf(Slots[q])
    BY Types
<1>3. status[Alternate(p)] = "active" /\ st # "active" => ActiveOf(status') = Alternate(p)
    BY <1>1, <1>2 DEF ActiveOf, Page, Alternate
<1> QED BY <1>1, <1>2, <1>3

\* The page that a reset would choose is marked active.
LEMMA ActiveMarked ==
    ASSUME NEW p \in Page, ActiveOf(status) = p PROVE status[p] = "active"
BY SlotAssumption DEF ActiveOf

LEMMA BlankIsPage == \A p \in Page : BlankPage(p) \in PageOf(Slots[p])
BY SlotTypes DEF BlankPage, PageOf

LEMMA EraseKeeps ==
    ASSUME EEPROMInv, EraseDestination PROVE EEPROMInv'
<1>1. PICK other \in Page : /\ other = Alternate(activePage) /\ other = Target
                            /\ activePage \in Page /\ Alternate(other) = activePage
    BY Types DEF EraseDestination, Open, Target
<1>2. /\ pc = "erase" /\ pc' = "mark"
      /\ status' = [status EXCEPT ![other] = "erased"] /\ slot' = [slot EXCEPT ![other] = BlankPage(other)]
      /\ UNCHANGED <<activePage, todo, tries, job, before, spoilt, failures, unretired, result>>
    BY <1>1 DEF EraseDestination
<1>3. todo = Moved(slot[activePage], job) /\ (~ unretired => ActiveOf(status) = activePage)
    BY <1>1, <1>2 DEF EEPROMInv, PagesOK, Open, SwapOK, Swapping
<1>4. /\ status' \in [Page -> PageStatus] /\ slot'[other] = BlankPage(other)
      /\ slot'[activePage] = slot[activePage]
      /\ slot' = [q \in Page |-> slot'[q]] /\ \A q \in Page : slot'[q] \in PageOf(Slots[q])
      /\ ~ unretired => ActiveOf(status') = activePage
    BY <1>1, <1>2, <1>3, OnePage, ActiveMarked, BlankIsPage DEF PageStatus
<1>5. SwapOK'
    BY <1>1, <1>2, <1>3, <1>4 DEF SwapOK, Swapping, BlankPage
<1> QED BY <1>2, <1>4, <1>5, SwapGoesOn DEF Swap

LEMMA MarkKeeps ==
    ASSUME EEPROMInv, MarkCopy PROVE EEPROMInv'
<1>1. PICK other \in Page : /\ other = Alternate(activePage) /\ other = Target
                            /\ activePage \in Page /\ Alternate(other) = activePage
    BY Types DEF MarkCopy, Open, Target
<1>2. /\ pc = "mark" /\ pc' = IF todo = <<>> THEN "activate" ELSE "move"
      /\ status' = [status EXCEPT ![other] = "copy"] /\ slot' = slot
      /\ UNCHANGED <<activePage, todo, tries, job, before, spoilt, failures, unretired, result>>
    BY <1>1 DEF MarkCopy
<1>3. /\ slot[other] \in PageOf(Slots[other]) /\ Slots[other] \in Nat
      /\ slot[activePage] \in PageOf(Slots[activePage]) /\ Slots[activePage] \in Nat
      /\ JobOK(job)
    BY <1>1, <1>2, Types DEF EEPROMInv, ContentOK, Putting
<1>4. /\ ~ unretired => ActiveOf(status) = activePage
      /\ todo = Moved(slot[activePage], job)
      /\ slot[other] = BlankPage(other)
    BY <1>1, <1>2 DEF EEPROMInv, PagesOK, Open, SwapOK, Swapping
<1>5. /\ status' \in [Page -> PageStatus]
      /\ slot'[activePage] = slot[activePage]
      /\ slot' = [q \in Page |-> slot'[q]] /\ \A q \in Page : slot'[q] \in PageOf(Slots[q])
      /\ ~ unretired => ActiveOf(status') = activePage
    <2>1. slot' = [slot EXCEPT ![other] = slot[other]]
        BY <1>2, Types
    <2> QED BY <1>1, <1>2, <1>3, <1>4, <2>1, OnePage, ActiveMarked DEF PageStatus
<1>6. todo \in Seq(Write)
    BY <1>3, <1>4, MovedWrites
<1>7. Copied(slot[other], Slots[other], todo, 0)
    BY <1>3, <1>4 DEF Copied, BlankPage
<1>8. CASE todo = <<>>
    <2>1. Len(todo) = 0
        BY <1>8, EmptySeq
    <2>2. SwapOK'
        BY <1>1, <1>2, <1>4, <1>7, <1>8, <2>1 DEF SwapOK, Swapping
    <2> QED BY <1>2, <1>5, <1>8, <2>2, SwapGoesOn DEF Swap
<1>9. CASE todo # <<>>
    <2>1. 0 \in 0 .. Len(todo) - 1 /\ Remaining(todo, todo, 0)
        <3>1. Len(todo) \in Nat \ {0}
            BY <1>6, <1>9, TailFacts
        <3> QED BY <1>6, <3>1 DEF Remaining
    <2>2. IsCopying(slot[other], Slots[other], todo, todo)
        BY <1>7, <2>1 DEF IsCopying
    <2>3. SwapOK'
        BY <1>1, <1>2, <1>4, <1>9, <2>2 DEF SwapOK, Swapping
    <2> QED BY <1>2, <1>5, <1>9, <2>3, SwapGoesOn DEF Swap
<1> QED BY <1>8, <1>9

\* Putting the block over what was read makes up for nothing but the block.
LEMMA OverlaidAgain ==
    ASSUME NEW content, NEW b, NEW j, NEW sp, Whole(content, b, j, sp)
    PROVE  Covered(Overlaid(content, j), b, j, sp) /\ Whole(Overlaid(content, j), b, j, sp)
<1>1. PICK whole \in {b, Overlaid(b, j)} : \A c \in Cell \ sp : content[c] = whole[c]
    BY DEF Whole
<1>2. \A c \in Cell : Overlaid(content, j)[c] = Overlaid(b, j)[c] \/ (c \in sp /\ ~ InBlock(j, c))
    BY <1>1 DEF Overlaid
<1> QED BY <1>2 DEF Covered, Whole

\* Once everything is copied the other page holds the block and the rest of the bytes.
LEMMA SwappedContent ==
    ASSUME EEPROMInv, pc \in {"activate", "retire"}
    PROVE  /\ Covered(ContentOfPage(slot[Alternate(activePage)]), before, job, spoilt)
           /\ Whole(ContentOfPage(slot[Alternate(activePage)]), before, job, spoilt)
<1>1. activePage \in Page /\ JobOK(job) /\ Whole(Get, before, job, spoilt)
    BY Types DEF Open, Putting, EEPROMInv, ContentOK
<1>2. PICK other \in Page : other = Alternate(activePage)
    BY <1>1, Types
<1>3. PICK W : W = Moved(slot[activePage], job)
    OBVIOUS
<1>4. Copied(slot[other], Slots[other], W, Len(W))
    BY <1>2, <1>3 DEF EEPROMInv, SwapOK, Swapping
<1>5. /\ slot[other] \in PageOf(Slots[other]) /\ Slots[other] \in Nat
      /\ slot[activePage] \in PageOf(Slots[activePage]) /\ Slots[activePage] \in Nat
    BY <1>1, Types
<1>6. Len(W) \in Nat
    BY <1>1, <1>3, <1>5, MovedWrites
<1>7. /\ Len(W) <= Slots[other] /\ \A m \in 1 .. Len(W) : slot[other][m] = W[m].record
      /\ Len(W) < Slots[other] => ~ Valid(slot[other][Len(W) + 1])
    <2>1. Len(W) < Slots[other] => Len(W) + 1 \in Len(W) + 1 .. Slots[other]
        BY <1>5, <1>6
    <2> QED BY <1>4, <2>1, SlotTypes DEF Copied
<1>8. ContentOfPage(slot[other]) = Overlaid(ContentOfPage(slot[activePage]), job)
    BY <1>1, <1>3, <1>5, <1>7, MovedContent
<1> QED BY <1>1, <1>2, <1>8, Reading, OverlaidAgain

LEMMA ActivateKeeps ==
    ASSUME EEPROMInv, Activate PROVE EEPROMInv'
<1>1. PICK other \in Page : /\ other = Alternate(activePage) /\ other = Target
                            /\ activePage \in Page /\ Alternate(other) = activePage
    BY Types DEF Activate, Open, Target
<1>2. /\ pc = "activate" /\ pc' = "retire"
      /\ status' = [status EXCEPT ![other] = "active"] /\ slot' = slot
      /\ UNCHANGED <<activePage, todo, tries, job, before, spoilt, failures, unretired, result>>
    BY <1>1 DEF Activate
<1>3. slot[other] \in PageOf(Slots[other])
    BY <1>1, <1>2, Types DEF EEPROMInv, PagesOK, Open
<1>4. /\ status' \in [Page -> PageStatus] /\ status'[other] = "active"
      /\ slot'[activePage] = slot[activePage]
      /\ slot' = [q \in Page |-> slot'[q]] /\ \A q \in Page : slot'[q] \in PageOf(Slots[q])
    <2>1. slot' = [slot EXCEPT ![other] = slot[other]]
        BY <1>2, Types
    <2> QED BY <1>1, <1>2, <1>3, <2>1, OnePage DEF PageStatus
<1>5. SwapOK'
    BY <1>1, <1>2 DEF EEPROMInv, SwapOK, Swapping
<1> QED BY <1>1, <1>2, <1>4, <1>5, SwapGoesOn DEF Swap

LEMMA RetireKeeps ==
    ASSUME EEPROMInv, RetireSource PROVE EEPROMInv'
<1>1. PICK other \in Page : /\ other = Alternate(activePage) /\ activePage \in Page
                            /\ Alternate(other) = activePage
    BY Types DEF RetireSource, Open
<1>2. /\ pc = "retire" /\ pc' = "idle" /\ todo' = <<>> /\ tries' = 0 /\ failures' = 0 /\ result' = "done"
      /\ status' = [status EXCEPT ![activePage] = "inactive"] /\ slot' = slot
      /\ activePage' = ActiveOf(status') /\ unretired' = FALSE /\ UNCHANGED <<job, before, spoilt>>
    BY DEF RetireSource, Return
<1>3. status[other] = "active" /\ slot[activePage] \in PageOf(Slots[activePage])
    BY <1>1, <1>2, Types DEF EEPROMInv, PagesOK
<1>4. /\ status' \in [Page -> PageStatus] /\ status'[other] = "active" /\ ActiveOf(status') = other
      /\ slot' = [q \in Page |-> slot'[q]] /\ \A q \in Page : slot'[q] \in PageOf(Slots[q])
    <2>1. slot' = [slot EXCEPT ![activePage] = slot[activePage]]
        BY <1>2, Types
    <2> QED BY <1>1, <1>2, <1>3, <2>1, OnePage DEF PageStatus
<1>5. TypeOK'
    <2>1. \A q \in Page : slot'[q] \in [1 .. Slots[q] -> Slot]
        BY <1>4 DEF PageOf
    <2>2. unretired' \in BOOLEAN
        BY <1>2, Zenon
    <2> QED BY <1>1, <1>2, <1>4, <2>1, <2>2, EEPROMAssumption DEF EEPROMInv, TypeOK, Calls
<1>6. PagesOK'
    BY <1>1, <1>2, <1>4 DEF PagesOK
<1>7. Covered(Get', before', job', spoilt') /\ Whole(Get', before', job', spoilt')
    <2>1. Get' = ContentOfPage(slot[other])
        BY <1>1, <1>2, <1>4, Reading
    <2> QED BY <1>1, <1>2, <2>1, SwappedContent
<1>8. ContentOK'
    BY <1>2, <1>7 DEF ContentOK, Putting
<1> QED BY <1>2, <1>5, <1>6, <1>8 DEF EEPROMInv, AppendOK, SwapOK

-----------------------------------------------------------------------------
(* Failures and resets *)

LEMMA NextRecord ==
    ASSUME EEPROMInv, HalfWordAssumption, Writing
    PROVE  /\ pc \in {"append", "move"} /\ Putting /\ activePage \in Page /\ JobOK(job)
           /\ Target \in Page /\ NextWrite \in Write /\ NextWrite.slot \in 1 .. Slots[Target]
           /\ slot[Target][NextWrite.slot] \in Slot /\ NextWrite.record \in Record
           /\ pc = "append" => /\ Target = activePage
                              /\ AppendStep(slot[activePage], Slots[activePage], job, todo)
           /\ pc = "move" => Target = Alternate(activePage) /\ Alternate(Target) = activePage
<1>1. /\ pc \in {"append", "move"} /\ NextWrite.slot <= Slots[Target]
      /\ Putting /\ activePage \in Page /\ JobOK(job)
    BY Types DEF Writing, Putting, Open, EEPROMInv, ContentOK
<1>2. PICK w : w = NextWrite
    OBVIOUS
<1>3. PICK p \in Page : p = Target
    BY <1>1, Types DEF Target
<1>4. slot[p] \in PageOf(Slots[p]) /\ Slots[p] \in Nat
    BY Types
<1>5. CASE pc = "append"
    <2>1. p = activePage /\ IsAppending(slot[p], Slots[p], Appended(slot[p], job), todo)
        BY <1>3, <1>5 DEF Target, EEPROMInv, AppendOK
    <2>2. AppendStep(slot[p], Slots[p], job, todo)
        BY <1>1, <1>4, <2>1, AppendWrite
    <2>3. w \in Write /\ w.slot \in 1 .. Slots[p]
        BY <1>2, <2>2 DEF AppendStep, NextWrite
    <2>4. slot[p][w.slot] \in Slot /\ w.record \in Record
        BY <1>4, <2>3 DEF PageOf, Write
    <2> QED BY <1>1, <1>2, <1>3, <1>5, <2>1, <2>2, <2>3, <2>4
<1>6. CASE pc = "move"
    <2>1. PICK W \in Seq(Write) : /\ W = Moved(slot[activePage], job)
                                  /\ \A m \in 1 .. Len(W) : W[m].slot = m
        BY <1>1, Types, MovedWrites
    <2>2. IsCopying(slot[p], Slots[p], W, todo)
        BY <1>3, <1>6, <2>1 DEF Target, EEPROMInv, SwapOK, Swapping
    <2>3. MoveStep(slot[p], Slots[p], W, todo)
        BY <1>4, <2>1, <2>2, MoveWrite
    <2>4. w \in Write /\ w.slot \in 1 .. Slots[p]
        BY <1>1, <1>2, <1>3, <2>3 DEF MoveStep, NextWrite
    <2>5. slot[p][w.slot] \in Slot /\ w.record \in Record
        BY <1>4, <2>4 DEF PageOf, Write
    <2>6. p = Alternate(activePage) /\ Alternate(p) = activePage
        BY <1>1, <1>3, <1>6, Types DEF Target
    <2> QED BY <1>1, <1>2, <1>3, <1>6, <2>4, <2>5, <2>6
<1> QED BY <1>1, <1>5, <1>6

LEMMA RecordCut ==
    ASSUME EEPROMInv, HalfWordAssumption, Writing, RecordCutShort
    PROVE  /\ Putting /\ status' = status
           /\ slot' = [q \in Page |-> slot'[q]] /\ \A q \in Page : slot'[q] \in PageOf(Slots[q])
           /\ ContentOfPage(slot'[activePage]) = ContentOfPage(slot[activePage])
<1>1. PICK p \in Page, w \in Write : /\ p = Target /\ w = NextWrite /\ w.slot \in 1 .. Slots[p]
                                     /\ slot[p][w.slot] \in Slot /\ w.record \in Record
    BY NextRecord
<1>2. PICK x \in CutShort(slot[p][w.slot], w.record) : slot' = [slot EXCEPT ![p][w.slot] = x]
    BY <1>1 DEF RecordCutShort
<1>3. x \in Slot
    BY <1>1, <1>2, ProgramSlot
<1>4. /\ slot' = [q \in Page |-> slot'[q]] /\ \A q \in Page : slot'[q] \in PageOf(Slots[q])
      /\ slot'[p] = [slot[p] EXCEPT ![w.slot] = x] /\ slot'[Alternate(p)] = slot[Alternate(p)]
    BY <1>1, <1>2, <1>3, ProgramPage
<1>5. CASE pc = "append"
    <2>1. p = activePage /\ AppendStep(slot[p], Slots[p], job, todo)
        BY <1>1, <1>5, NextRecord
    <2> QED BY <1>1, <1>2, <1>4, <2>1, NextRecord DEF AppendStep, NextWrite, RecordCutShort
<1>6. CASE pc = "move"
    BY <1>1, <1>4, <1>6, NextRecord DEF RecordCutShort
<1> QED BY <1>5, <1>6, NextRecord

\* A record that is not read back as it was written: the page in use holds what it held, or the
\* block up to the bytes that the record and what became of it are about.
LEMMA RecordFailed ==
    ASSUME EEPROMInv, HalfWordAssumption, RecordFails
    PROVE  /\ Putting /\ status' = status /\ spoilt' \in SUBSET Cell
           /\ slot' = [q \in Page |-> slot'[q]] /\ \A q \in Page : slot'[q] \in PageOf(Slots[q])
           /\ Whole(ContentOfPage(slot'[activePage]), before, job, spoilt')
           /\ pc = "append" => slot'[Alternate(activePage)] = slot[Alternate(activePage)]
<1> USE DEF RecordFails
<1>1. PICK p \in Page, w \in Write : /\ p = Target /\ w = NextWrite /\ w.slot \in 1 .. Slots[p]
                                     /\ slot[p][w.slot] \in Slot /\ w.record \in Record
    BY NextRecord
<1>2. PICK x \in Misread(slot[p][w.slot], w.record) :
          /\ slot' = [slot EXCEPT ![p][w.slot] = x]
          /\ spoilt' = IF InSight(x) THEN {w.record.index, x.index} \cap Cell ELSE spoilt
    BY <1>1
<1> HIDE DEF RecordFails
<1>3. x \in Slot
    BY <1>1, <1>2, ProgramSlot
<1>4. /\ slot' = [q \in Page |-> slot'[q]] /\ \A q \in Page : slot'[q] \in PageOf(Slots[q])
      /\ slot'[p] = [slot[p] EXCEPT ![w.slot] = x] /\ slot'[Alternate(p)] = slot[Alternate(p)]
    BY <1>1, <1>2, <1>3, ProgramPage
<1>5. /\ pc \in {"append", "move"} /\ Putting /\ activePage \in Page /\ status' = status
      /\ pc = "append" => p = activePage /\ AppendStep(slot[p], Slots[p], job, todo)
      /\ pc = "move" => Alternate(p) = activePage
    BY <1>1, NextRecord DEF RecordFails
<1>6. /\ Whole(Get, before, job, spoilt) /\ (pc = "append" => Get = before)
      /\ Get = ContentOfPage(slot[activePage]) /\ spoilt \in SUBSET Cell
    BY <1>5, Reading DEF EEPROMInv, ContentOK, TypeOK
<1>7. spoilt' \in SUBSET Cell
    BY <1>2, <1>6
<1>8. CASE ~ InSight(x)
    <2>1. ContentOfPage(slot'[activePage]) = Get
        <3>1. CASE pc = "append"
            <4>1. ~ (w.slot = FirstFree(slot[p]) /\ Valid(x))
                BY <1>1, <1>5, <1>8, <3>1 DEF InSight
            <4> QED BY <1>1, <1>2, <1>4, <1>5, <1>6, <3>1, <4>1 DEF AppendStep, NextWrite
        <3>2. CASE pc = "move"
            BY <1>4, <1>5, <1>6, <3>2
        <3> QED BY <1>5, <3>1, <3>2
    <2> QED BY <1>2, <1>4, <1>5, <1>6, <1>7, <1>8, <2>1
<1>9. CASE InSight(x)
    <2>1. pc = "append" /\ w.slot = FirstFree(slot[p]) /\ Valid(x) /\ p = activePage
        BY <1>1, <1>5, <1>9 DEF InSight
    <2>2. \A c \in Cell \ {w.record.index, x.index} :
              ContentOfPage(slot'[p])[c] = Overlaid(before, job)[c]
        BY <1>1, <1>2, <1>4, <1>5, <1>6, <2>1 DEF AppendStep, NextWrite
    <2>3. \A c \in Cell \ spoilt' : ContentOfPage(slot'[p])[c] = Overlaid(before, job)[c]
        BY <1>2, <1>9, <2>2
    <2> QED BY <1>4, <1>5, <1>7, <2>1, <2>3 DEF Whole
<1> QED BY <1>8, <1>9

LEMMA HeaderCut ==
    ASSUME EEPROMInv, HalfWordAssumption, HeaderCutShort,
           NEW p \in Page, NEW new \in PageStatus, HeaderWrite = [page |-> p, status |-> new]
    PROVE  /\ slot' = slot /\ slot' = [q \in Page |-> slot'[q]]
           /\ \A q \in Page : slot'[q] \in PageOf(Slots[q])
           /\ status' \in [Page -> PageStatus]
           /\ status' = status \/ status' = [status EXCEPT ![p] = new]
<1>1. slot' = slot /\ \E st \in {status[p], new} : status' = [status EXCEPT ![p] = st]
    BY DEF HeaderCutShort, StatusCutShort, HalfWordAssumption
<1>2. status' = status \/ status' = [status EXCEPT ![p] = new]
    <2>1. PICK st \in {status[p], new} : status' = [status EXCEPT ![p] = st]
        BY <1>1
    <2>2. status \in [Page -> PageStatus]
        BY Types
    <2>3. st = status[p] => status' = status
        BY <2>1, <2>2
    <2> QED BY <2>1, <2>3
<1>3. status' \in [Page -> PageStatus]
    BY <1>2, Types
<1>4. slot' = [q \in Page |-> slot'[q]] /\ \A q \in Page : slot'[q] \in PageOf(Slots[q])
    BY <1>1, Types
<1> QED BY <1>1, <1>2, <1>3, <1>4

LEMMA EraseCut ==
    ASSUME EEPROMInv, NEW p \in Page, EraseCutShort(p)
    PROVE  /\ status' \in [Page -> PageStatus]
           /\ slot' = [q \in Page |-> slot'[q]] /\ \A q \in Page : slot'[q] \in PageOf(Slots[q])
           /\ slot'[Alternate(p)] = slot[Alternate(p)]
           /\ status' = status \/ (status[Alternate(p)] = "active" => ActiveOf(status') = Alternate(p))
<1>1. PICK st \in {status[p], "erased"} : status' = [status EXCEPT ![p] = st]
    BY DEF EraseCutShort
<1>2. PICK erased \in SUBSET DOMAIN slot[p] :
          slot' = [slot EXCEPT ![p] = [s \in DOMAIN slot[p] |-> IF s \in erased THEN Empty ELSE slot[p][s]]]
    BY Types DEF EraseCutShort
<1> DEFINE page == [s \in DOMAIN slot[p] |-> IF s \in erased THEN Empty ELSE slot[p][s]]
<1>3. page \in PageOf(Slots[p])
    BY Types, SlotTypes DEF PageOf
<1> HIDE DEF page
<1>4. st \in PageStatus
    BY <1>1, Types DEF PageStatus
<1>5. slot' = [slot EXCEPT ![p] = page]
    BY <1>2 DEF page
<1>6. st = "erased" \/ status' = status
    BY <1>1, Types
<1>7. /\ status' \in [Page -> PageStatus]
      /\ slot' = [q \in Page |-> slot'[q]] /\ \A q \in Page : slot'[q] \in PageOf(Slots[q])
      /\ slot'[Alternate(p)] = slot[Alternate(p)]
      /\ status[Alternate(p)] = "active" /\ st # "active" => ActiveOf(status') = Alternate(p)
    BY <1>1, <1>3, <1>4, <1>5, OnePage
<1> QED BY <1>6, <1>7

LEMMA FailKeeps ==
    ASSUME EEPROMInv, HalfWordAssumption, Fail PROVE EEPROMInv'
<1>1. /\ failures < MaxFailures /\ OnFailure(failures + 1) /\ UNCHANGED <<activePage, job, before>>
      /\ unretired' = (unretired \/ pc = "retire")
    BY DEF Fail
<1>2. failures + 1 \in 0 .. MaxFailures
    BY <1>1, EEPROMAssumption DEF EEPROMInv, TypeOK
<1>3. unretired' \in BOOLEAN /\ (~ unretired' => ~ unretired /\ pc # "retire")
    BY <1>1, Zenon
<1>4. CASE RecordFails
    <2>1. ~ unretired' => ActiveOf(status') = activePage
        BY <1>3, <1>4, RecordFailed DEF EEPROMInv, PagesOK, Open, Putting
    <2>2. status' \in [Page -> PageStatus]
        BY <1>4, RecordFailed, Types
    <2> QED BY <1>1, <1>2, <1>3, <1>4, <2>1, <2>2, RecordFailed, FailureKeeps
<1>5. CASE HeaderFails
    <2>1. /\ pc \in {"mark", "activate", "retire"} /\ Putting /\ activePage \in Page
          /\ Alternate(activePage) \in Page /\ slot' = slot /\ spoilt' = spoilt
          /\ slot = [q \in Page |-> slot[q]] /\ \A q \in Page : slot[q] \in PageOf(Slots[q])
        BY <1>5, Types DEF HeaderFails, Putting, Open
    <2>2. PICK p \in Page : /\ p = HeaderWrite.page
                            /\ pc # "retire" => p = Alternate(activePage) /\ Alternate(p) = activePage
        <3>1. CASE pc = "mark"
            BY <2>1, <3>1, Types DEF HeaderWrite, Target
        <3>2. CASE pc = "activate"
            BY <2>1, <3>2, Types DEF HeaderWrite, Target
        <3>3. CASE pc = "retire"
            BY <2>1, <3>3 DEF HeaderWrite
        <3> QED BY <2>1, <3>1, <3>2, <3>3
    <2>3. PICK st \in {status[p], "other"} : status' = [status EXCEPT ![p] = st]
        <3>1. PICK h : h = HeaderWrite
            OBVIOUS
        <3>2. PICK st \in {status[h.page], "other"} \ {h.status} : status' = [status EXCEPT ![h.page] = st]
            BY <1>5, <3>1 DEF HeaderFails
        <3>3. h.page = p
            BY <2>2, <3>1
        <3> QED BY <3>2, <3>3
    <2>4. status \in [Page -> PageStatus] /\ st \in PageStatus /\ status' \in [Page -> PageStatus]
        BY <2>3, Types DEF PageStatus
    <2>5. ~ unretired' => ActiveOf(status') = activePage
        <3> SUFFICES ASSUME ~ unretired' PROVE ActiveOf(status') = activePage
            OBVIOUS
        <3>1. pc # "retire" /\ ActiveOf(status) = activePage
            BY <1>3, <2>1 DEF EEPROMInv, PagesOK, Open
        <3>2. CASE st = status[p]
            <4>1. status' = status
                BY <2>3, <2>4, <3>2
            <4> QED BY <3>1, <4>1
        <3>3. CASE st = "other"
            <4>1. PICK page \in PageOf(Slots[p]) : slot' = [slot EXCEPT ![p] = page]
                <5>1. slot' = [slot EXCEPT ![p] = slot[p]] /\ slot[p] \in PageOf(Slots[p])
                    BY <2>1
                <5> QED BY <5>1
            <4>2. status[Alternate(p)] = "active" /\ Alternate(p) = activePage
                BY <2>1, <2>2, <3>1, ActiveMarked
            <4>3. status[Alternate(p)] = "active" /\ st # "active" => ActiveOf(status') = Alternate(p)
                BY <2>3, <2>4, <4>1, OnePage
            <4> QED BY <3>3, <4>2, <4>3
        <3> QED BY <2>3, <3>2, <3>3
    <2>6. Whole(ContentOfPage(slot'[activePage]), before, job, spoilt') /\ spoilt' \in SUBSET Cell
        BY <2>1, Reading DEF EEPROMInv, ContentOK, TypeOK
    <2> QED BY <1>1, <1>2, <1>3, <2>1, <2>4, <2>5, <2>6, FailureKeeps
<1> QED BY <1>4, <1>5 DEF Fail

LEMMA ResetKeeps ==
    ASSUME EEPROMInv, HalfWordAssumption, Reset PROVE EEPROMInv'
<1>1. /\ pc # "boot" /\ pc' = "boot" /\ activePage' = None /\ todo' = <<>> /\ tries' = 0 /\ failures' = 0
      /\ result' = "reset" /\ job' = (IF unretired THEN None ELSE job)
      /\ unretired' = FALSE /\ before' = before /\ spoilt' = spoilt
    BY DEF Reset
\* what remains to be shown of each operation that is cut short
<1> DEFINE Safe == /\ status' \in [Page -> PageStatus]
                   /\ slot' = [q \in Page |-> slot'[q]] /\ \A q \in Page : slot'[q] \in PageOf(Slots[q])
                   /\ job # None /\ ~ unretired =>
                         /\ ActiveOf(status') \in Page
                         /\ Whole(ContentOfPage(slot'[ActiveOf(status')]), before, job, spoilt)
<1>2. ASSUME Safe PROVE EEPROMInv'
    <2>1. TypeOK'
        <3>1. \A q \in Page : slot'[q] \in [1 .. Slots[q] -> Slot]
            BY <1>2 DEF PageOf
        <3>2. unretired' \in BOOLEAN
            BY <1>1, Zenon
        <3> QED BY <1>1, <1>2, <3>1, <3>2, EEPROMAssumption DEF EEPROMInv, TypeOK, Calls
    <2>2. job' # None => Whole(GetAfterReset', before', job', spoilt')
        <3> SUFFICES ASSUME job' # None PROVE Whole(GetAfterReset', before', job', spoilt')
            OBVIOUS
        <3>1. job' = job /\ job # None /\ ~ unretired
            BY <1>1
        <3> QED BY <1>1, <1>2, <3>1, Reading
    <2> QED BY <1>1, <1>2, <2>1, <2>2 DEF EEPROMInv, PagesOK, Open, AppendOK, SwapOK, ContentOK, Putting
<1>3. /\ None \notin Page /\ (pc \notin {"clear1", "clear2", "clear3"} => activePage \in Page)
      /\ \A p \in Page : Alternate(p) \in Page /\ Alternate(p) # p /\ Alternate(Alternate(p)) = p
      /\ status \in [Page -> PageStatus] /\ slot = [q \in Page |-> slot[q]]
      /\ \A q \in Page : slot[q] \in PageOf(Slots[q])
    BY <1>1, Types DEF Open
<1>4. pc \in {"clear1", "clear2", "clear3"} => job = None
    BY DEF EEPROMInv, ContentOK
<1>5. pc \notin {"clear1", "clear2", "clear3"} =>
          (~ unretired /\ pc # "retire" => ActiveOf(status) = activePage)
    BY <1>1 DEF EEPROMInv, PagesOK, Open
<1>6. /\ pc \notin {"clear1", "clear2", "clear3"} => Get = ContentOfPage(slot[activePage])
      /\ pc \in {"idle", "pending"} /\ job # None /\ ~ unretired => Whole(Get, before, job, spoilt)
      /\ Putting => Whole(Get, before, job, spoilt)
    BY <1>3, Reading DEF EEPROMInv, ContentOK
<1>7. pc \in Calls
    BY DEF EEPROMInv, TypeOK
<1>8. CASE Writing
    <2>1. RecordCutShort
        BY <1>8 DEF Reset, Writing
    <2>2. pc \in {"append", "move"} /\ Putting
        BY <1>8 DEF Writing, Putting
    <2>3. /\ status' = status
          /\ slot' = [q \in Page |-> slot'[q]] /\ \A q \in Page : slot'[q] \in PageOf(Slots[q])
          /\ ContentOfPage(slot'[activePage]) = ContentOfPage(slot[activePage])
        BY <1>8, <2>1, RecordCut
    <2> QED BY <1>2, <1>3, <1>5, <1>6, <2>2, <2>3
<1>9. CASE pc \in {"mark", "activate", "retire"}
    <2>1. HeaderCutShort
        BY <1>9 DEF Reset, Writing
    <2>2. Putting
        BY <1>9 DEF Putting
    <2>3. PICK other \in Page : other = Alternate(activePage) /\ other # activePage /\ activePage \in Page
        BY <1>3, <1>9
    <2>4. CASE pc = "mark"
        <3>1. HeaderWrite = [page |-> other, status |-> "copy"]
            BY <2>3, <2>4 DEF HeaderWrite, Target
        <3>2. /\ slot' = slot /\ status' \in [Page -> PageStatus]
              /\ status' = status \/ status' = [status EXCEPT ![other] = "copy"]
            BY <2>1, <3>1, HeaderCut DEF PageStatus
        <3>3. ~ unretired => ActiveOf(status') = activePage
            BY <1>3, <1>5, <2>3, <2>4, <3>2 DEF ActiveOf, Page
        <3> QED BY <1>2, <1>3, <1>6, <2>2, <2>3, <2>4, <3>2, <3>3
    <2>5. CASE pc = "activate"
        <3>1. HeaderWrite = [page |-> other, status |-> "active"]
            BY <2>3, <2>5 DEF HeaderWrite, Target
        <3>2. /\ slot' = slot /\ status' \in [Page -> PageStatus]
              /\ status' = status \/ status' = [status EXCEPT ![other] = "active"]
            BY <2>1, <3>1, HeaderCut DEF PageStatus
        <3>3. ~ unretired => ActiveOf(status') \in {activePage, other}
            BY <1>3, <1>5, <2>3, <2>5, <3>2 DEF ActiveOf, Page
        <3>4. Whole(ContentOfPage(slot[other]), before, job, spoilt)
            BY <2>3, <2>5, SwappedContent
        <3> QED BY <1>2, <1>3, <1>6, <2>2, <2>3, <2>5, <3>2, <3>3, <3>4
    <2>6. CASE pc = "retire"
        <3>1. HeaderWrite = [page |-> activePage, status |-> "inactive"]
            BY <2>6 DEF HeaderWrite
        <3>2. /\ slot' = slot /\ status' \in [Page -> PageStatus]
              /\ status' = status \/ status' = [status EXCEPT ![activePage] = "inactive"]
            BY <2>1, <2>3, <3>1, HeaderCut DEF PageStatus
        <3>3. status[other] = "active"
            BY <2>3, <2>6 DEF EEPROMInv, PagesOK
        <3>4. ActiveOf(status') \in {activePage, other}
            BY <1>3, <2>3, <3>2, <3>3 DEF ActiveOf, Page
        <3>5. Whole(ContentOfPage(slot[other]), before, job, spoilt)
            BY <2>3, <2>6, SwappedContent
        <3> QED BY <1>2, <1>3, <1>6, <2>2, <2>3, <2>6, <3>2, <3>4, <3>5
    <2> QED BY <1>9, <2>4, <2>5, <2>6
<1>10. CASE pc \in {"erase", "pending"}
    <2>1. EraseCutShort(Alternate(activePage))
        BY <1>10 DEF Reset, Writing
    <2>2. PICK other \in Page : /\ other = Alternate(activePage) /\ Alternate(other) = activePage
                                /\ activePage \in Page
        BY <1>3, <1>10
    <2>3. /\ status' \in [Page -> PageStatus]
          /\ slot' = [q \in Page |-> slot'[q]] /\ \A q \in Page : slot'[q] \in PageOf(Slots[q])
          /\ slot'[activePage] = slot[activePage]
          /\ status' = status \/ (status[activePage] = "active" => ActiveOf(status') = activePage)
        BY <2>1, <2>2, EraseCut
    <2>4. ~ unretired => ActiveOf(status') = activePage
        BY <1>5, <1>10, <2>2, <2>3, ActiveMarked
    <2>5. job # None /\ ~ unretired => Whole(Get, before, job, spoilt)
        BY <1>6, <1>10 DEF Putting
    <2> QED BY <1>2, <1>6, <1>10, <2>2, <2>3, <2>4, <2>5
<1>11. CASE pc \in {"clear1", "clear2", "clear3"}
    <2>1. 1 \in Page /\ 2 \in Page
        BY DEF Page
    <2>2. CASE pc = "clear1"
        <3>1. EraseCutShort(1)
            BY <2>2 DEF Reset, Writing
        <3> QED BY <1>2, <1>4, <2>1, <2>2, <3>1, EraseCut
    <2>3. CASE pc = "clear2"
        <3>1. EraseCutShort(2)
            BY <2>3 DEF Reset, Writing
        <3> QED BY <1>2, <1>4, <2>1, <2>3, <3>1, EraseCut
    <2>4. CASE pc = "clear3"
        <3>1. HeaderCutShort /\ HeaderWrite = [page |-> 1, status |-> "active"]
            BY <2>4 DEF Reset, Writing, HeaderWrite
        <3> QED BY <1>2, <1>4, <2>1, <2>4, <3>1, HeaderCut DEF PageStatus
    <2> QED BY <1>11, <2>2, <2>3, <2>4
<1>12. CASE pc \in {"idle", "append", "move"} /\ ~ Writing
    <2>1. status' = status /\ slot' = slot
        BY <1>12 DEF Reset, pages
    <2>2. ~ unretired /\ job # None => Whole(Get, before, job, spoilt)
        BY <1>6, <1>12 DEF Putting
    <2> QED BY <1>2, <1>3, <1>5, <1>6, <1>12, <2>1, <2>2
<1> QED BY <1>1, <1>7, <1>8, <1>9, <1>10, <1>11, <1>12 DEF Calls

-----------------------------------------------------------------------------
(* Clearing the EEPROM and erasing the page that is not in use *)

LEMMA ClearKeeps ==
    ASSUME EEPROMInv, BeginClear \/ ClearPage1 \/ ClearPage2 \/ ClearDone PROVE EEPROMInv'
<1> USE DEF Page
<1>1. CASE BeginClear
    <2>1. /\ pc = "idle" /\ pc' = "clear1" /\ job' = None
          /\ UNCHANGED <<status, slot, activePage, todo, tries, before, spoilt, failures, unretired, result>>
        BY <1>1 DEF BeginClear, pages
    <2>2. TypeOK'
        BY <2>1 DEF EEPROMInv, TypeOK, Calls
    <2> QED BY <2>1, <2>2, Types
            DEF EEPROMInv, PagesOK, Open, AppendOK, SwapOK, ContentOK, Putting
<1>2. ASSUME NEW p \in Page, NEW then \in {"clear2", "clear3"}, ClearPage(p, then), job = None
      PROVE  EEPROMInv'
    <2>1. /\ status' = [status EXCEPT ![p] = "erased"] /\ slot' = [slot EXCEPT ![p] = BlankPage(p)]
          /\ pc' = then
          /\ UNCHANGED <<activePage, todo, tries, job, before, spoilt, failures, unretired, result>>
        BY <1>2 DEF ClearPage, ErasePage
    <2>2. /\ status' \in [Page -> PageStatus]
          /\ slot' = [q \in Page |-> slot'[q]] /\ \A q \in Page : slot'[q] \in PageOf(Slots[q])
        BY <2>1, OnePage, BlankIsPage DEF PageStatus
    <2>3. TypeOK'
        <3>1. \A q \in Page : slot'[q] \in [1 .. Slots[q] -> Slot]
            BY <2>2 DEF PageOf
        <3> QED BY <1>2, <2>1, <2>2, <3>1 DEF EEPROMInv, TypeOK, Calls
    <2> QED BY <1>2, <2>1, <2>2, <2>3
            DEF EEPROMInv, PagesOK, Open, AppendOK, SwapOK, ContentOK, Putting
<1>3. CASE ClearPage1
    <2>1. job = None
        BY <1>3 DEF ClearPage1, EEPROMInv, ContentOK
    <2> QED BY <1>2, <1>3, <2>1 DEF ClearPage1
<1>4. CASE ClearPage2
    <2>1. job = None
        BY <1>4 DEF ClearPage2, EEPROMInv, ContentOK
    <2> QED BY <1>2, <1>4, <2>1 DEF ClearPage2
<1>5. CASE ClearDone
    <2>1. /\ pc = "clear3" /\ status' = [status EXCEPT ![1] = "active"] /\ slot' = slot
          /\ activePage' = ActiveOf(status') /\ unretired' = FALSE
          /\ pc' = "idle" /\ todo' = <<>> /\ tries' = 0 /\ failures' = 0 /\ result' = "cleared"
          /\ UNCHANGED <<job, before, spoilt>>
        BY <1>5 DEF ClearDone, Return
    <2>2. job = None
        BY <2>1 DEF EEPROMInv, ContentOK
    <2>3. /\ status' \in [Page -> PageStatus] /\ ActiveOf(status') = 1 /\ status'[1] = "active"
          /\ slot' = [q \in Page |-> slot'[q]] /\ \A q \in Page : slot'[q] \in PageOf(Slots[q])
        BY <2>1, Types DEF ActiveOf, PageStatus
    <2>4. TypeOK'
        <3>1. \A q \in Page : slot'[q] \in [1 .. Slots[q] -> Slot]
            BY <2>3 DEF PageOf
        <3>2. unretired' \in BOOLEAN
            BY <2>1, Zenon
        <3> QED BY <2>1, <2>3, <3>1, <3>2, EEPROMAssumption DEF EEPROMInv, TypeOK, Calls
    <2> QED BY <2>1, <2>2, <2>3, <2>4
            DEF EEPROMInv, PagesOK, Open, AppendOK, SwapOK, ContentOK, Putting
<1> QED BY <1>1, <1>3, <1>4, <1>5

LEMMA PendingKeeps ==
    ASSUME EEPROMInv, BeginPendingErase \/ PerformPendingErase PROVE EEPROMInv'
<1>1. pc \in {"idle", "pending"}
    BY DEF BeginPendingErase, PendingErase, PerformPendingErase
<1>2. PICK other \in Page : /\ other = Alternate(activePage) /\ Alternate(other) = activePage
                            /\ activePage \in Page
    BY <1>1, Types DEF Open
<1>3. CASE BeginPendingErase
    <2>1. /\ pc = "idle" /\ pc' = "pending"
          /\ UNCHANGED <<status, slot, activePage, todo, tries, job, before, spoilt, failures, unretired, result>>
        BY <1>3 DEF BeginPendingErase, PendingErase, pages
    <2>2. TypeOK'
        BY <2>1 DEF EEPROMInv, TypeOK, Calls
    <2>3. PagesOK'
        BY <2>1 DEF EEPROMInv, PagesOK, Open
    <2>4. Get' = Get
        BY <2>1 DEF Get, ContentOf
    <2>5. ContentOK'
        BY <2>1, <2>4 DEF EEPROMInv, ContentOK, Putting
    <2> QED BY <2>1, <2>2, <2>3, <2>5 DEF EEPROMInv, AppendOK, SwapOK
<1>4. CASE PerformPendingErase
    <2>1. /\ pc = "pending" /\ pc' = "idle"
          /\ status' = [status EXCEPT ![other] = "erased"] /\ slot' = [slot EXCEPT ![other] = BlankPage(other)]
          /\ UNCHANGED <<activePage, todo, tries, job, before, spoilt, failures, unretired, result>>
        BY <1>2, <1>4 DEF PerformPendingErase, ErasePage
    <2>2. ~ unretired => ActiveOf(status) = activePage
        BY <2>1 DEF EEPROMInv, PagesOK, Open
    <2>3. /\ status' \in [Page -> PageStatus]
          /\ slot'[activePage] = slot[activePage] /\ (~ unretired => ActiveOf(status') = activePage)
          /\ slot' = [q \in Page |-> slot'[q]] /\ \A q \in Page : slot'[q] \in PageOf(Slots[q])
        <3>1. "erased" \in PageStatus /\ BlankPage(other) \in PageOf(Slots[other])
            BY BlankIsPage DEF PageStatus
        <3>2. ~ unretired => status[Alternate(other)] = "active"
            BY <1>2, <2>2, ActiveMarked
        <3> QED BY <1>2, <2>1, <3>1, <3>2, OnePage
    <2>4. TypeOK'
        <3>1. \A q \in Page : slot'[q] \in [1 .. Slots[q] -> Slot]
            BY <2>3 DEF PageOf
        <3> QED BY <2>1, <2>3, <3>1 DEF EEPROMInv, TypeOK, Calls
    <2>5. PagesOK'
        BY <1>2, <2>1, <2>3 DEF PagesOK
    <2>6. Get' = Get
        BY <1>2, <2>1, <2>3, Reading
    <2>7. ContentOK'
        BY <2>1, <2>6 DEF EEPROMInv, ContentOK, Putting
    <2> QED BY <2>1, <2>4, <2>5, <2>7 DEF EEPROMInv, AppendOK, SwapOK
<1> QED BY <1>3, <1>4

LEMMA StutterKeeps ==
    ASSUME EEPROMInv, UNCHANGED vars PROVE EEPROMInv'
<1>1. /\ status' = status /\ slot' = slot /\ activePage' = activePage /\ pc' = pc /\ todo' = todo
      /\ tries' = tries /\ job' = job /\ before' = before /\ spoilt' = spoilt /\ failures' = failures
      /\ unretired' = unretired /\ result' = result
    BY DEF vars, pages
<1>2. TypeOK' /\ PagesOK'
    BY <1>1 DEF EEPROMInv, TypeOK, PagesOK, Open
<1>3. AppendOK'
    BY <1>1 DEF EEPROMInv, AppendOK
<1>4. SwapOK'
    BY <1>1 DEF EEPROMInv, SwapOK, Swapping
<1>5. Get' = Get /\ GetAfterReset' = GetAfterReset
    BY <1>1 DEF Get, GetAfterReset, ContentOf
<1>6. ContentOK'
    BY <1>1, <1>5 DEF EEPROMInv, ContentOK, Putting
<1> QED BY <1>2, <1>3, <1>4, <1>6 DEF EEPROMInv
-----------------------------------------------------------------------------
(* Theorems *)

LEMMA EEPROMInductive ==
    ASSUME HalfWordAssumption, EEPROMInv, [Next]_vars PROVE EEPROMInv'
<1>1. CASE Boot
    BY <1>1, BootKeeps
<1>2. CASE BeginPut
    BY <1>2, PutKeeps
<1>3. CASE WriteRecord
    BY <1>3, WriteKeeps
<1>4. CASE EraseDestination
    BY <1>4, EraseKeeps
<1>5. CASE MarkCopy
    BY <1>5, MarkKeeps
<1>6. CASE Activate
    BY <1>6, ActivateKeeps
<1>7. CASE RetireSource
    BY <1>7, RetireKeeps
<1>8. CASE Fail
    BY <1>8, FailKeeps
<1>9. CASE BeginClear \/ ClearPage1 \/ ClearPage2 \/ ClearDone
    BY <1>9, ClearKeeps
<1>10. CASE BeginPendingErase \/ PerformPendingErase
    BY <1>10, PendingKeeps
<1>11. CASE Reset
    BY <1>11, ResetKeeps
<1>12. CASE UNCHANGED vars
    BY <1>12, StutterKeeps
<1> QED BY <1>1, <1>2, <1>3, <1>4, <1>5, <1>6, <1>7, <1>8, <1>9, <1>10, <1>11, <1>12 DEF Next

LEMMA EEPROMInvariant ==
    ASSUME HalfWordAssumption PROVE Spec => []EEPROMInv
BY InitEEPROM, EEPROMInductive, PTL DEF Spec

\* At every moment of a put, and after it, a reset leaves all of the block or none of it.
LEMMA AtomicState ==
    ASSUME EEPROMInv PROVE AtomicPut
<1> SUFFICES ASSUME job # None, ~ unretired PROVE Whole(GetAfterReset, before, job, spoilt)
    BY Reading DEF AtomicPut, AllOrNothing, Whole
<1>1. pc \in Calls /\ pc \notin {"clear1", "clear2", "clear3"}
    BY DEF EEPROMInv, TypeOK, ContentOK
<1>2. CASE pc = "boot"
    BY <1>2 DEF EEPROMInv, ContentOK
<1>3. CASE Open
    <2>1. PICK other \in Page : other = Alternate(activePage) /\ other # activePage /\ activePage \in Page
        BY <1>3, Types
    <2>2. Whole(Get, before, job, spoilt)
        BY <1>1, <1>3 DEF Open, EEPROMInv, ContentOK, Putting, Calls
    <2>3. CASE pc # "retire"
        <3>1. ActiveOf(status) = activePage
            BY <1>3, <2>3 DEF EEPROMInv, PagesOK
        <3> QED BY <2>1, <2>2, <3>1, Reading
    <2>4. CASE pc = "retire"
        <3>1. ActiveOf(status) \in {activePage, other}
            BY <1>3, <2>1, <2>4 DEF EEPROMInv, PagesOK, ActiveOf, Page
        <3>2. Whole(ContentOfPage(slot[other]), before, job, spoilt)
            BY <2>1, <2>4, SwappedContent
        <3> QED BY <2>1, <2>2, <3>1, <3>2, Reading
    <2> QED BY <2>3, <2>4
<1> QED BY <1>1, <1>2, <1>3 DEF Open

\* Every state of the emulation has its types.
THEOREM EEPROMTypeCorrect ==
    ASSUME HalfWordAssumption PROVE Spec => []TypeOK
<1>1. EEPROMInv => TypeOK
    BY DEF EEPROMInv
<1> QED BY <1>1, EEPROMInvariant, PTL

\* A put is atomic: whenever the device is reset it finds all of the block or none of it, and every
\* other byte as it was, whatever the capacity, the pages, the block and the remains of earlier
\* puts, and whatever the cells that fail to be programmed read back: only if they turn the record
\* that makes an append visible into another one are the two bytes these are about excepted, and
\* nothing is claimed once marking the old page inactive has failed.
THEOREM PutIsAtomic ==
    ASSUME HalfWordAssumption PROVE Spec => []AtomicPut
<1>1. EEPROMInv => AtomicPut
    BY AtomicState
<1> QED BY <1>1, EEPROMInvariant, PTL

\* Between calls get() returns what it would return after a reset.
THEOREM ReadsAreWhatAResetFinds ==
    ASSUME HalfWordAssumption PROVE Spec => []ReadsAreDurable
<1>1. EEPROMInv => ReadsAreDurable
    BY DEF EEPROMInv, PagesOK, Open, ReadsAreDurable, Get, GetAfterReset
<1> QED BY <1>1, EEPROMInvariant, PTL

\* When a put returns and one of its attempts succeeded, get() returns the block, and elsewhere
\* what it returned before, except for the byte that a spoilt record of an append is about.
THEOREM PutIsStored ==
    ASSUME HalfWordAssumption PROVE Spec => []PutStores
<1>1. EEPROMInv => PutStores
    BY Reading DEF EEPROMInv, ContentOK, PutStores, Stored, Covered
<1> QED BY <1>1, EEPROMInvariant, PTL

=============================================================================
