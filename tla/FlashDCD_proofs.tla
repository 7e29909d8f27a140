--------------------------- MODULE FlashDCD_proofs ---------------------------
(***************************************************************************)
(* The DCD stores atomically, for every number of cells and every set of   *)
(* values, if its sectors are blank or used by version 1 at first and no   *)
(* watermark fails alone.  If they hold something else, the initialization *)
(* may be cut short in a way the code does not survive (see the README);   *)
(* from the first valid sector on it is atomic then, too.                  *)
(***************************************************************************)
EXTENDS FlashDCD, TLAPS

AllBlank == [c \in Cell |-> Blank]

\* Nobody has given the DCD sectors of unknown content.
FactoryAssumption == Factory \subseteq {"blank", "v1"}

\* No sector is sealed whose watermark was written in vain.
NoLoneSeal == ~ LoneSeal

-----------------------------------------------------------------------------
(* The inductive invariant *)

\* A sector that cannot be taken for current.
Unsealed(s) == s.seal \in {"blank", "other"}

\* Since its checksum was written a sector has only been erased, in parts.
Eroded(s) ==
    s.crc # NoCrc =>
        /\ s.crc.footer
        /\ s.counter \in {s.crc.counter, 3}
        /\ \A c \in Cell : s.data[c] \in {s.crc.data[c], Blank}

\* b is the successor of a, as far as it can be told from their counters.
Succeeds(b, a) == CrcValid(a) => b.counter = (a.counter + 1) % 4

\* Sector c is current, and stays so while the other one is erased and written.
Settled(f, c) ==
    LET o == AlternateTo(c)
    IN  /\ f[c].mark = "valid" /\ f[c].seal = "valid"
        /\ \/ Unsealed(f[o])
           \/ CrcValid(f[c]) /\ Succeeds(f[c], f[o])
           \/ c = 1 /\ f[o].seal = "valid" /\ ~ CrcValid(f[c]) /\ ~ CrcValid(f[o])

\* No sector is current, and sector 1, which a write after a failed
\* initialization copies, holds nothing that was ever written to it.
Unset(f) ==
    /\ Unsealed(f[0]) /\ Unsealed(f[1])
    /\ FactoryAssumption => f[1].data = AllBlank

\* What is to be written to the target.
Goal == IF source = None THEN AllBlank
        ELSE [flash[source].data EXCEPT ![job.cell] = job.value]

\* What has been done to the target before each operation.
Progress ==
    LET t == flash[target]
    IN  /\ pc \in {"copy", "footer", "crc", "seal"} => Unsealed(t)
        /\ pc \in {"copy", "footer", "crc"} => t.crc = NoCrc
        /\ pc = "erase" => next = 1
        /\ pc = "copy" => next \in Cell /\ \A c \in 1 .. next - 1 : t.data[c] = Goal[c]
        /\ pc \in {"footer", "crc", "seal", "retire"} => t.data = Goal
        /\ pc \in {"crc", "seal"} => t.footer /\ t.counter = NewCounter
        /\ pc \in {"seal", "retire"} => CrcValid(t)

\* Where the old content is while a call is under way.
Sources ==
    IF source = None
    THEN /\ target = 1 /\ Unset(flash) /\ before = AllBlank
         /\ pc \in {"erase", "footer", "crc", "seal"}
    ELSE /\ job # None /\ target = AlternateTo(source)
         /\ FactoryAssumption => flash[source].data = before
         /\ IF pc = "retire"
            THEN Settled(flash, target) /\ Succeeds(flash[target], flash[source])
            ELSE \/ Settled(flash, source) /\ flash[source].data = before
                 \/ Unset(flash) /\ source = 1 /\ before = AllBlank

\* After a successful write the content and the one before it are both there.
Stored ==
    result = "ok" /\ job # None =>
        \E c \in Sector :
            LET o == flash[AlternateTo(c)]
            IN  /\ Settled(flash, c)
                /\ flash[c].data[job.cell] = job.value
                /\ FactoryAssumption => flash[c].data = After
                /\ HeaderValid(o)
                /\ FactoryAssumption => o.data = before

DCDInv ==
    /\ \A s \in Sector : Eroded(flash[s])
    /\ pc = "idle" => Unset(flash) \/ \E c \in Sector : Settled(flash, c)
    /\ Busy => Progress /\ Sources
    /\ result = "ok" => ~ Busy
    /\ Stored

-----------------------------------------------------------------------------
(* Which sector is current *)

LEMMA SectorFacts ==
    /\ \A s \in Sector : AlternateTo(s) \in Sector /\ AlternateTo(s) # s /\ AlternateTo(AlternateTo(s)) = s
    /\ None \notin Sector /\ Unknown \notin Sector
    /\ 0 \in Sector /\ 1 \in Sector
    /\ \A s \in Sector : s = 0 \/ s = 1
    /\ AlternateTo(0) = 1 /\ AlternateTo(1) = 0
BY CrcAssumption DEF Sector, AlternateTo, Unknown

\* The one way to choose between two sectors does choose the settled one.
LEMMA SettledIsCurrent ==
    ASSUME NEW f \in [Sector -> SectorState], NEW c \in Sector, Settled(f, c)
    PROVE  CurrentSector(f) = c /\ Read(f) = f[c].data
<1> DEFINE o == AlternateTo(c)
<1>1. o \in Sector /\ o # c /\ AlternateTo(o) = c
    BY SectorFacts
<1>2. /\ f[c].counter \in 0 .. 3 /\ f[o].counter \in 0 .. 3
      /\ CrcValid(f[c]) \in BOOLEAN /\ CrcValid(f[o]) \in BOOLEAN
    BY <1>1 DEF SectorState, CrcValid
<1>3. HeaderValid(f[c]) /\ f[c].seal = "valid"
    BY DEF Settled, HeaderValid
<1>4. \/ Unsealed(f[o])
      \/ CrcValid(f[c]) /\ (CrcValid(f[o]) => f[c].counter = (f[o].counter + 1) % 4)
      \/ c = 1 /\ f[o].seal = "valid" /\ ~ CrcValid(f[c]) /\ ~ CrcValid(f[o])
    BY DEF Settled, Succeeds
<1>5. CASE c = 0
    <2>1. o = 1 /\ FindValidSector(f) = 0
        BY <1>3, <1>5, SectorFacts DEF FindValidSector
    <2>2. CurrentSector(f) = EvaluateSectors(f, 0, 1)
        BY <2>1, SectorFacts DEF CurrentSector, Unknown
    <2>3. EvaluateSectors(f, 0, 1) = 0
        BY <1>2, <1>4, <1>5, <2>1 DEF EvaluateSectors, MostRecent, Unsealed
    <2> QED BY <1>5, <2>2, <2>3 DEF Read, Unknown
<1>6. CASE c = 1 /\ HeaderValid(f[0])
    <2>1. o = 0 /\ FindValidSector(f) = 0
        BY <1>6, SectorFacts DEF FindValidSector
    <2>2. CurrentSector(f) = EvaluateSectors(f, 0, 1)
        BY <2>1, SectorFacts DEF CurrentSector, Unknown
    <2>3. f[0].seal \in {"valid", "superseded"}
        BY <1>6 DEF HeaderValid
    <2>4. EvaluateSectors(f, 0, 1) = 1
        BY <1>2, <1>3, <1>4, <1>6, <2>1, <2>3 DEF EvaluateSectors, MostRecent, Unsealed
    <2> QED BY <1>6, <2>2, <2>4 DEF Read, Unknown
<1>7. CASE c = 1 /\ ~ HeaderValid(f[0])
    <2>1. o = 0 /\ FindValidSector(f) = 1
        BY <1>3, <1>7, SectorFacts DEF FindValidSector
    <2>2. CurrentSector(f) = EvaluateSectors(f, 1, 0)
        BY <2>1, SectorFacts DEF CurrentSector, Unknown
    <2>3. EvaluateSectors(f, 1, 0) = 1
        BY <1>2, <1>4, <1>7, <2>1 DEF EvaluateSectors, MostRecent, Unsealed
    <2> QED BY <1>7, <2>2, <2>3 DEF Read, Unknown
<1> QED BY <1>5, <1>6, <1>7, SectorFacts

LEMMA UnsetIsUnknown ==
    ASSUME NEW f, Unset(f)
    PROVE  CurrentSector(f) = Unknown /\ Read(f) = AllBlank
BY DEF Unset, Unsealed, CurrentSector, FindValidSector, HeaderValid, Read, AllBlank

\* A sector with no other that could be taken for current is.
LEMMA LoneSectorIsCurrent ==
    ASSUME NEW f \in [Sector -> SectorState], NEW c \in Sector, HeaderValid(f[c]),
           f[AlternateTo(c)] = Erased
    PROVE  Read(f) = f[c].data
<1>1. CASE c = 0
    <2>1. FindValidSector(f) = 0 /\ f[1].seal = "blank"
        BY <1>1, SectorFacts DEF FindValidSector, Erased
    <2> QED BY <1>1, <2>1, SectorFacts DEF Read, CurrentSector, EvaluateSectors, Unknown
<1>2. CASE c = 1
    <2>1. FindValidSector(f) = 1 /\ f[0].seal = "blank"
        BY <1>2, SectorFacts DEF FindValidSector, Erased, HeaderValid
    <2> QED BY <1>2, <2>1, SectorFacts DEF Read, CurrentSector, EvaluateSectors, Unknown
<1> QED BY <1>1, <1>2, SectorFacts

-----------------------------------------------------------------------------
(* What interrupted operations leave behind *)

\* Erasing a sector in parts never makes its checksum valid.
LEMMA ErodedStays ==
    ASSUME NEW s \in SectorState, Eroded(s), NEW t \in CutShort("erase", s)
    PROVE  /\ t \in SectorState /\ Eroded(t)
           /\ CrcValid(t) => CrcValid(s) /\ t.counter = s.counter
           /\ t.seal \in {s.seal, "blank"}
           /\ s.data = AllBlank => t.data = AllBlank
<1>1. /\ t \in [mark : {s.mark, "blank"}, seal : {s.seal, "blank"},
                data : [Cell -> Content], footer : {s.footer, FALSE},
                counter : {s.counter, 3}, crc : {s.crc, NoCrc}]
      /\ \A c \in Cell : t.data[c] \in {s.data[c], Blank}
    BY DEF CutShort
<1>2. /\ t.mark \in {s.mark, "blank"} /\ t.seal \in {s.seal, "blank"}
      /\ t.data \in [Cell -> Content] /\ t.footer \in {s.footer, FALSE}
      /\ t.counter \in {s.counter, 3} /\ t.crc \in {s.crc, NoCrc}
    BY <1>1
<1>3. t \in SectorState
    <2>1. /\ s.mark \in Mark /\ s.seal \in Seal /\ s.footer \in BOOLEAN /\ s.counter \in 0 .. 3
          /\ s.crc \in Covered \cup {NoCrc}
        BY DEF SectorState
    <2>2. /\ t.mark \in Mark /\ t.seal \in Seal /\ t.footer \in BOOLEAN /\ t.counter \in 0 .. 3
          /\ t.crc \in Covered \cup {NoCrc}
        <3>1. t.footer \in BOOLEAN
            BY <1>2, <2>1, Zenon
        <3>2. t.mark \in Mark /\ t.seal \in Seal
            BY <1>2, <2>1 DEF Mark, Seal
        <3>3. t.counter \in 0 .. 3
            BY <1>2, <2>1
        <3>4. t.crc \in Covered \cup {NoCrc}
            BY <1>2, <2>1
        <3> QED BY <3>1, <3>2, <3>3, <3>4
    <2>3. t = [mark |-> t.mark, seal |-> t.seal, data |-> t.data, footer |-> t.footer,
               counter |-> t.counter, crc |-> t.crc]
        BY <1>1
    <2> QED BY <1>2, <2>2, <2>3 DEF SectorState
<1>4. Eroded(t)
    BY <1>1, <1>2 DEF Eroded
<1>5. ASSUME CrcValid(t) PROVE CrcValid(s) /\ t.counter = s.counter
    <2>1. t.footer /\ t.crc = [data |-> t.data, footer |-> t.footer, counter |-> t.counter]
        BY <1>5 DEF CrcValid, ComputeCRC
    <2>2. t.crc \in Covered
        BY <1>3, <2>1 DEF Covered, SectorState
    <2>3. s.crc = t.crc /\ s.crc # NoCrc
        BY <1>2, <2>2, CrcAssumption
    <2>4. s.footer /\ s.footer = t.footer
        BY <1>2, <2>1 DEF SectorState
    <2>5. t.counter = s.counter
        BY <1>2, <2>1, <2>3 DEF Eroded
    <2>6. \A c \in Cell : s.data[c] = t.data[c]
        BY <1>1, <2>1, <2>3 DEF Eroded
    <2>7. s.data = t.data
        BY <1>2, <2>6 DEF SectorState
    <2> QED BY <2>1, <2>3, <2>4, <2>5, <2>7 DEF CrcValid, ComputeCRC
<1>6. ASSUME s.data = AllBlank PROVE t.data = AllBlank
    BY <1>1, <1>2, <1>6 DEF AllBlank
<1> QED BY <1>2, <1>3, <1>4, <1>5, <1>6

\* What the calls on a sector may leave, by the operation they are made of.
LEMMA ContentTypes ==
    /\ Erased \in SectorState
    /\ \A s \in SectorState : ComputeCRC(s) \in Covered
    /\ \A v \in Value : v \in Content
    /\ Blank \in Content
BY DEF Erased, SectorState, ComputeCRC, Covered, Content, Mark, Seal

LEMMA GoalType ==
    ASSUME TypeOK, source # None => job # None
    PROVE  /\ Goal \in [Cell -> Content]
           /\ source # None => job \in Job
BY ContentTypes DEF TypeOK, Goal, Job, AllBlank, SectorState

LEMMA CounterType == TypeOK => NewCounter \in 0 .. 3
BY DEF TypeOK, NewCounter, SectorState

LEMMA CutCopy ==
    ASSUME NEW s \in SectorState, next \in Cell, NEW t \in CutShort("copy", s)
    PROVE  /\ t \in SectorState /\ t.seal = s.seal /\ t.crc = s.crc
           /\ \A c \in Cell \ {next} : t.data[c] = s.data[c]
<1> PICK v \in Content : t = [s EXCEPT !.data[next] = v]
    BY DEF CutShort
<1> QED BY DEF SectorState

LEMMA CutFooter ==
    ASSUME NEW s \in SectorState, NEW t \in CutShort("footer", s)
    PROVE  /\ t \in SectorState /\ t.seal = s.seal /\ t.crc = s.crc
           /\ t.data = s.data
<1> PICK w \in BOOLEAN \X (0 .. 3) : t = [s EXCEPT !.footer = w[1], !.counter = w[2]]
    BY DEF CutShort
<1> QED BY DEF SectorState

LEMMA CompletedCrc ==
    ASSUME NEW s \in SectorState, s.footer, NEW t, t = Completed("crc", s)
    PROVE  /\ t \in SectorState /\ Eroded(t) /\ CrcValid(t)
           /\ t.data = s.data /\ t.footer = s.footer /\ t.counter = s.counter /\ t.seal = s.seal
<1>1. /\ t \in SectorState /\ t.crc = ComputeCRC(s)
      /\ t.data = s.data /\ t.footer = s.footer /\ t.counter = s.counter /\ t.seal = s.seal
    BY ContentTypes DEF SectorState, Completed
<1>2. ComputeCRC(t) = ComputeCRC(s)
    BY <1>1 DEF ComputeCRC
<1>3. CrcValid(t)
    BY <1>1, <1>2 DEF CrcValid
<1>4. Eroded(t)
    BY <1>1 DEF Eroded, ComputeCRC
<1> QED BY <1>1, <1>3, <1>4

LEMMA CutCrc ==
    ASSUME NEW s \in SectorState, s.footer, Eroded(s), NEW t \in CutShort("crc", s)
    PROVE  t \in SectorState /\ Eroded(t) /\ t.data = s.data /\ t.seal = s.seal
<1>1. t = s \/ t = Completed("crc", s)
    BY DEF CutShort
<1> QED BY <1>1, CompletedCrc

\* Sealing and retiring change nothing the checksum covers.
LEMMA CutSeal ==
    ASSUME NEW s \in SectorState, NEW op \in {"seal", "retire"}, NEW t \in CutShort(op, s), NoLoneSeal
    PROVE  /\ t \in SectorState
           /\ t.data = s.data /\ t.footer = s.footer /\ t.counter = s.counter /\ t.crc = s.crc
           /\ CrcValid(t) <=> CrcValid(s)
           /\ Eroded(t) <=> Eroded(s)
           /\ op = "seal" => t.seal \in {s.seal, "other"} \/ t = Completed("seal", s)
           /\ t = Completed(op, s) =>
                 /\ t.mark = "valid"
                 /\ t.seal = IF op = "seal" THEN "valid" ELSE "superseded"
<1>1. PICK m \in Mark, w \in Seal :
          /\ t = [s EXCEPT !.mark = m, !.seal = w]
          /\ op = "seal" => w \in {s.seal, "other"} \/ (m = "valid" /\ w = "valid")
    <2>1. CASE op = "seal"
        <3>1. t \in Headers(s, Mark, {s.seal, "other"}) \/ t \in Headers(s, {"valid"}, {"valid"})
            BY <2>1 DEF CutShort, SealMarks, NoLoneSeal
        <3> QED BY <2>1, <3>1 DEF Headers, SectorState, Mark, Seal
    <2>2. CASE op = "retire"
        <3>1. t \in Headers(s, {s.mark, "other", "valid"}, {s.seal, "other", "superseded"})
            BY <2>2 DEF CutShort
        <3> QED BY <2>2, <3>1 DEF Headers, SectorState, Mark, Seal
    <2> QED BY <2>1, <2>2
<1>2. /\ t \in SectorState /\ t.mark = m /\ t.seal = w
      /\ t.data = s.data /\ t.footer = s.footer /\ t.counter = s.counter /\ t.crc = s.crc
    BY <1>1 DEF SectorState
<1>3. (CrcValid(t) <=> CrcValid(s)) /\ (Eroded(t) <=> Eroded(s))
    BY <1>2 DEF CrcValid, ComputeCRC, Eroded
<1>4. op = "seal" => t.seal \in {s.seal, "other"} \/ t = Completed("seal", s)
    BY <1>1, <1>2 DEF Completed
<1>5. ASSUME t = Completed(op, s)
      PROVE  t.mark = "valid" /\ t.seal = IF op = "seal" THEN "valid" ELSE "superseded"
    <2>1. CASE op = "seal"
        BY <1>5, <2>1 DEF Completed, SectorState
    <2>2. CASE op = "retire"
        BY <1>5, <2>2 DEF Completed, SectorState
    <2> QED BY <2>1, <2>2
<1> QED BY <1>2, <1>3, <1>4, <1>5

\* The sector an operation works on, when the operation is cut short.
LEMMA CutShortSector ==
    ASSUME TypeOK, DCDInv, Busy, NEW t \in CutShort(pc, flash[Worked]), NoLoneSeal
    PROVE  /\ Worked \in Sector /\ t \in SectorState /\ Eroded(t)
           /\ pc \in {"copy", "footer", "crc"} => Unsealed(t)
           /\ pc = "seal" => Unsealed(t) \/ t = Completed("seal", flash[target])
           /\ pc \in {"crc", "seal", "retire"} => t.data = flash[Worked].data
           /\ pc = "retire" =>
                 /\ CrcValid(t) <=> CrcValid(flash[source])
                 /\ t.counter = flash[source].counter
           /\ pc # "copy" /\ flash[Worked].data = AllBlank => t.data = AllBlank
<1>1. Worked \in Sector /\ flash[Worked] \in SectorState /\ Eroded(flash[Worked])
    BY DEF DCDInv, Sources, Worked, TypeOK
<1>2. Progress /\ Sources
    BY DEF DCDInv
<1>3. CASE pc = "erase"
    BY <1>1, <1>3, ErodedStays
<1>4. CASE pc = "copy"
    <2>1. /\ Unsealed(flash[Worked]) /\ flash[Worked].crc = NoCrc /\ next \in Cell
          /\ t \in CutShort("copy", flash[Worked])
        BY <1>2, <1>4 DEF Progress, Worked
    <2>2. t \in SectorState /\ Unsealed(t) /\ t.crc = NoCrc
        BY <1>1, <2>1, CutCopy DEF Unsealed
    <2> QED BY <1>1, <1>4, <2>2 DEF Eroded
<1>5. CASE pc = "footer"
    <2>1. /\ Unsealed(flash[Worked]) /\ flash[Worked].crc = NoCrc
          /\ t \in CutShort("footer", flash[Worked])
        BY <1>2, <1>5 DEF Progress, Worked
    <2>2. t \in SectorState /\ Unsealed(t) /\ t.crc = NoCrc /\ t.data = flash[Worked].data
        BY <1>1, <2>1, CutFooter DEF Unsealed
    <2> QED BY <1>1, <1>5, <2>2 DEF Eroded
<1>6. CASE pc = "crc"
    <2>1. /\ Unsealed(flash[Worked]) /\ flash[Worked].footer
          /\ t \in CutShort("crc", flash[Worked])
        BY <1>2, <1>6 DEF Progress, Worked
    <2> QED BY <1>1, <1>6, <2>1, CutCrc DEF Unsealed
<1>7. CASE pc = "seal"
    <2>1. Unsealed(flash[Worked]) /\ Worked = target /\ t \in CutShort("seal", flash[Worked])
        BY <1>2, <1>7 DEF Progress, Worked
    <2> QED BY <1>1, <1>7, <2>1, CutSeal DEF Unsealed
<1>8. CASE pc = "retire"
    <2>1. Worked = source /\ t \in CutShort("retire", flash[Worked])
        BY <1>8 DEF Worked
    <2> QED BY <1>1, <1>8, <2>1, CutSeal
<1> QED BY <1>3, <1>4, <1>5, <1>6, <1>7, <1>8 DEF TypeOK, Busy

LEMMA HeadersOf ==
    ASSUME NEW s, NEW marks, NEW seals, NEW m \in marks, NEW w \in seals
    PROVE  [s EXCEPT !.mark = m, !.seal = w] \in Headers(s, marks, seals)
<1> DEFINE h == <<m, w>>
<1>1. h \in marks \X seals /\ h[1] = m /\ h[2] = w
    OBVIOUS
<1> HIDE DEF h
<1>2. [s EXCEPT !.mark = h[1], !.seal = h[2]] \in Headers(s, marks, seals)
    BY <1>1 DEF Headers
<1> QED BY <1>1, <1>2

\* An operation that is completed is one of the ways to cut it short.
LEMMA CompletedIsCutShort ==
    ASSUME TypeOK, DCDInv, Busy
    PROVE  Completed(pc, flash[Worked]) \in CutShort(pc, flash[Worked])
<1> DEFINE s == flash[Worked]
<1>1. Worked \in Sector /\ s \in SectorState
    BY DEF DCDInv, Sources, Worked, TypeOK
<1>2. CASE pc = "erase"
    BY <1>1, <1>2, ContentTypes DEF Completed, CutShort, Erased
<1>3. CASE pc = "copy"
    <2>1. source # None /\ job # None /\ source \in Sector /\ next \in Cell
        BY <1>3 DEF DCDInv, Busy, Sources, Progress, TypeOK
    <2>2. CellValue \in Content
        BY <2>1, ContentTypes DEF CellValue, TypeOK, Job, SectorState
    <2> QED BY <1>3, <2>2 DEF Completed, CutShort
<1>4. CASE pc = "footer"
    <2> DEFINE w == <<TRUE, NewCounter>>
    <2>1. w \in BOOLEAN \X (0 .. 3) /\ w[1] = TRUE /\ w[2] = NewCounter
        BY CounterType
    <2> HIDE DEF w
    <2>2. [s EXCEPT !.footer = w[1], !.counter = w[2]] \in CutShort("footer", s)
        BY <2>1 DEF CutShort
    <2> QED BY <1>4, <2>1, <2>2 DEF Completed
<1>5. CASE pc = "crc"
    BY <1>5 DEF Completed, CutShort
<1>6. CASE pc = "seal"
    <2>1. [s EXCEPT !.mark = "valid", !.seal = "valid"] \in Headers(s, SealMarks, {"valid"})
        BY HeadersOf DEF SealMarks, Mark
    <2> QED BY <1>6, <2>1 DEF Completed, CutShort
<1>7. CASE pc = "retire"
    BY <1>7, HeadersOf DEF Completed, CutShort
<1> QED BY <1>2, <1>3, <1>4, <1>5, <1>6, <1>7 DEF TypeOK, Busy

-----------------------------------------------------------------------------
(* What becomes of the current sector *)

\* While its other sector is not sealed, or only erased, a settled one stays.
LEMMA SettledStays ==
    ASSUME NEW f \in [Sector -> SectorState], NEW c \in Sector, Settled(f, c),
           NEW t \in SectorState, Unsealed(t) \/ t \in CutShort("erase", f[AlternateTo(c)]),
           Eroded(f[AlternateTo(c)])
    PROVE  Settled([f EXCEPT ![AlternateTo(c)] = t], c)
<1> DEFINE o == AlternateTo(c)
           g == [f EXCEPT ![o] = t]
<1>1. o \in Sector /\ o # c
    BY SectorFacts
<1>2. g[c] = f[c] /\ g[o] = t
    BY <1>1
<1> HIDE DEF g
<1>3. CASE Unsealed(t)
    BY <1>2, <1>3 DEF Settled
<1>4. CASE t \in CutShort("erase", f[o]) /\ ~ Unsealed(t)
    <2>1. t.seal = f[o].seal /\ (CrcValid(t) => CrcValid(f[o]) /\ t.counter = f[o].counter)
        BY <1>1, <1>4, ErodedStays DEF Unsealed
    <2> QED BY <1>2, <1>4, <2>1 DEF Settled, Succeeds, Unsealed
<1> QED BY <1>3, <1>4 DEF g

\* What the flash may be after an operation was cut short or completed.
LEMMA AfterOperation ==
    ASSUME TypeOK, DCDInv, Busy, NEW t \in CutShort(pc, flash[Worked]), NoLoneSeal,
           flash' = [flash EXCEPT ![Worked] = t]
    PROVE  /\ flash' \in [Sector -> SectorState]
           /\ \A s \in Sector : Eroded(flash'[s])
           /\ pc # "retire" => Read(flash) = before
           /\ source = None =>
                 /\ before = AllBlank /\ (FactoryAssumption => flash'[1].data = before)
                 /\ Unset(flash') \/ (Settled(flash', 1) /\ flash'[1].data = before)
                 /\ Read(flash') = before
           /\ source # None /\ pc # "retire" =>
                 /\ flash'[source] = flash[source]
                 /\ FactoryAssumption => flash[source].data = before
                 /\ \/ Unsealed(t) \/ pc = "erase"
                    \/ pc = "seal" /\ t = Completed("seal", flash[target])
                 /\ Unsealed(t) \/ pc = "erase" =>
                       /\ Settled(flash, source) => Settled(flash', source)
                       /\ \/ Settled(flash', source) /\ flash'[source].data = before
                          \/ Unset(flash') /\ source = 1 /\ before = AllBlank
                       /\ Read(flash') = before
                 /\ pc = "seal" /\ t = Completed("seal", flash[target]) =>
                       /\ CrcValid(flash'[target])
                       /\ Settled(flash', target) /\ Succeeds(flash'[target], flash'[source])
                       /\ Read(flash') = Goal
           /\ source # None /\ pc = "retire" =>
                 /\ flash'[target] = flash[target] /\ flash'[source] = t
                 /\ FactoryAssumption => flash'[source].data = before
                 /\ Settled(flash', target)
                 /\ Read(flash) = Goal /\ Read(flash') = Goal
<1>1. /\ Worked \in Sector /\ t \in SectorState /\ Eroded(t)
      /\ Progress /\ Sources
      /\ \A s \in Sector : flash[s] \in SectorState /\ Eroded(flash[s])
    BY CutShortSector DEF DCDInv, TypeOK
<1>2. /\ flash' \in [Sector -> SectorState] /\ flash'[Worked] = t
      /\ \A s \in Sector : s # Worked => flash'[s] = flash[s]
    BY <1>1 DEF TypeOK
<1>3. \A s \in Sector : Eroded(flash'[s])
    BY <1>1, <1>2
<1>4. CASE source = None
    <2>1. /\ target = 1 /\ Worked = 1 /\ Unset(flash) /\ before = AllBlank
          /\ pc \in {"erase", "footer", "crc", "seal"}
        BY <1>1, <1>4 DEF Sources, Worked
    <2>2. (FactoryAssumption \/ pc \in {"footer", "crc", "seal"}) => t.data = AllBlank
        <3>1. CASE pc = "erase"
            BY <2>1, <3>1, CutShortSector DEF Unset
        <3>2. CASE pc \in {"footer", "crc", "seal"}
            <4>1. flash[1].data = AllBlank
                BY <1>1, <1>4, <2>1, <3>2 DEF Progress, Goal
            <4> QED BY <2>1, <3>2, <4>1, CutShortSector
        <3> QED BY <2>1, <3>1, <3>2
    <2>3. flash'[0] = flash[0] /\ flash'[1] = t
        BY <1>2, <2>1, SectorFacts
    <2>4. Unsealed(t) \/ (pc = "seal" /\ t = Completed("seal", flash[1]))
        <3>1. CASE pc = "erase"
            BY <1>1, <2>1, <3>1, ErodedStays DEF Unset, Unsealed
        <3>2. CASE pc # "erase"
            BY <2>1, <3>2, CutShortSector
        <3> QED BY <3>1, <3>2
    <2>5. CASE Unsealed(t)
        <3>1. Unset(flash')
            BY <2>1, <2>2, <2>3, <2>5 DEF Unset
        <3> QED BY <1>2, <1>3, <1>4, <2>1, <2>2, <2>3, <3>1, UnsetIsUnknown
    <2>6. CASE pc = "seal" /\ t = Completed("seal", flash[1])
        <3>1. t.mark = "valid" /\ t.seal = "valid" /\ t.data = AllBlank
            BY <1>1, <2>2, <2>6, SectorFacts DEF Completed, SectorState
        <3>2. Settled(flash', 1)
            BY <2>1, <2>3, <3>1, SectorFacts DEF Settled, Unset
        <3> QED BY <1>2, <1>3, <1>4, <2>1, <2>2, <2>3, <3>1, <3>2, UnsetIsUnknown, SettledIsCurrent, SectorFacts
    <2> QED BY <2>4, <2>5, <2>6
<1>5. CASE source # None /\ pc # "retire"
    <2>1. /\ source \in Sector /\ target = AlternateTo(source) /\ Worked = target
          /\ target # source /\ target \in Sector /\ AlternateTo(target) = source
          /\ FactoryAssumption => flash[source].data = before
          /\ \/ Settled(flash, source) /\ flash[source].data = before
             \/ Unset(flash) /\ source = 1 /\ before = AllBlank
          /\ flash'[source] = flash[source]
        BY <1>1, <1>2, <1>5, SectorFacts DEF Sources, Worked, TypeOK
    <2>0. ~ (Settled(flash, source) /\ Unset(flash))
        BY <2>1, SectorFacts DEF Settled, Unset, Unsealed
    <2>2. Read(flash) = before
        BY <2>1, SettledIsCurrent, UnsetIsUnknown DEF TypeOK
    <2>3. ASSUME Unsealed(t) \/ pc = "erase"
          PROVE  /\ Settled(flash, source) => Settled(flash', source)
                 /\ \/ Settled(flash', source) /\ flash'[source].data = before
                    \/ Unset(flash') /\ source = 1 /\ before = AllBlank
                 /\ Read(flash') = before
        <3>1. ASSUME Settled(flash, source)
              PROVE  Settled(flash', source)
            BY <1>1, <2>1, <2>3, <3>1, SettledStays DEF TypeOK
        <3>2. ASSUME Unset(flash), source = 1
              PROVE  Unset(flash')
            <4>1. target = 0 /\ flash'[0] = t /\ flash'[1] = flash[1]
                BY <1>2, <2>1, <3>2, SectorFacts
            <4>2. Unsealed(t)
                BY <1>1, <2>1, <2>3, <3>2, <4>1, ErodedStays DEF Unset, Unsealed
            <4> QED BY <3>2, <4>1, <4>2 DEF Unset
        <3>3. Read(flash') = before
            BY <1>2, <2>1, <3>1, <3>2, SettledIsCurrent, UnsetIsUnknown
        <3> QED BY <2>1, <3>1, <3>2, <3>3
    <2>4. ASSUME pc = "seal", t = Completed("seal", flash[target])
          PROVE  /\ CrcValid(flash'[target])
                 /\ Settled(flash', target) /\ Succeeds(flash'[target], flash'[source])
                 /\ Read(flash') = Goal
        <3>1. flash'[target] = t /\ t.mark = "valid" /\ t.seal = "valid"
            BY <1>1, <1>2, <2>1, <2>4 DEF Completed, SectorState
        <3>2. /\ t.data = Goal /\ CrcValid(t) /\ t.counter = NewCounter
            <4>1. Completed(pc, flash[Worked]) \in CutShort(pc, flash[Worked])
                BY CompletedIsCutShort
            <4>2. t \in CutShort("seal", flash[target])
                BY <2>1, <2>4, <4>1
            <4>3. t.data = flash[target].data /\ t.counter = flash[target].counter /\ (CrcValid(t) <=> CrcValid(flash[target]))
                BY <1>1, <2>1, <4>2, CutSeal
            <4> QED BY <1>1, <1>5, <2>4, <4>3 DEF Progress
        <3>3. Succeeds(t, flash[source])
            BY <1>5, <3>2 DEF Succeeds, CrcValid, NewCounter
        <3>4. Settled(flash', target)
            BY <2>1, <3>1, <3>2, <3>3 DEF Settled
        <3>5. Read(flash') = Goal
            <4>1. flash' \in [Sector -> SectorState] /\ target \in Sector
                BY <1>2, <2>1
            <4>2. Read(flash') = flash'[target].data
                BY <3>4, <4>1, SettledIsCurrent
            <4> QED BY <3>1, <3>2, <4>2
        <3> QED BY <2>1, <3>1, <3>2, <3>3, <3>4, <3>5
    <2>5. Unsealed(t) \/ pc = "erase" \/ (pc = "seal" /\ t = Completed("seal", flash[target]))
        BY <1>5, CutShortSector DEF TypeOK, Busy
    <2> QED BY <1>2, <1>3, <1>5, <2>1, <2>2, <2>3, <2>4, <2>5
<1>6. CASE source # None /\ pc = "retire"
    <2>1. /\ source \in Sector /\ target = AlternateTo(source) /\ Worked = source
          /\ target # source /\ target \in Sector /\ AlternateTo(target) = source
          /\ FactoryAssumption => flash[source].data = before
          /\ Settled(flash, target) /\ Succeeds(flash[target], flash[source])
          /\ flash[target].data = Goal /\ CrcValid(flash[target])
        BY <1>1, <1>6, SectorFacts DEF Sources, Worked, TypeOK, Progress
    <2>2. flash'[target] = flash[target] /\ flash'[source] = t
        BY <1>2, <2>1
    <2>3. /\ FactoryAssumption => t.data = before
          /\ (CrcValid(t) => CrcValid(flash[source])) /\ t.counter = flash[source].counter
        BY <1>6, <2>1, CutShortSector
    <2>4. Settled(flash', target)
        BY <2>1, <2>2, <2>3 DEF Settled, Succeeds
    <2>5. Read(flash) = Goal /\ Read(flash') = Goal
        BY <1>2, <2>1, <2>2, <2>4, SettledIsCurrent DEF TypeOK
    <2> QED BY <1>2, <1>3, <1>6, <2>1, <2>2, <2>3, <2>4, <2>5
<1> QED BY <1>4, <1>5, <1>6

-----------------------------------------------------------------------------
(* Types, initial states and steps *)

LEMMA InitInv == Init => TypeOK /\ DCDInv
<1> SUFFICES ASSUME Init PROVE TypeOK /\ DCDInv
    OBVIOUS
<1> PICK kind \in Factory : flash \in FactorySectors(kind)
    BY DEF Init
<1>0. kind = "blank" \/ kind = "v1" \/ (kind = "garbage" /\ ~ FactoryAssumption)
    BY DCDAssumption DEF FactoryAssumption
<1>1. CASE kind \in {"blank", "garbage"}
    <2>1. ASSUME NEW s \in Sector
          PROVE  /\ flash[s] \in SectorState /\ flash[s].crc = NoCrc /\ Unsealed(flash[s])
                 /\ FactoryAssumption => flash[s].data = AllBlank
        <3>1. CASE kind = "blank"
            <4>1. flash[s] = Erased
                BY <3>1 DEF FactorySectors
            <4>2. flash[s].data = AllBlank
                BY <4>1 DEF Erased, AllBlank
            <4>3. Erased.crc = NoCrc /\ Unsealed(Erased)
                BY DEF Erased, Unsealed
            <4> QED BY <4>1, <4>2, <4>3, ContentTypes
        <3>2. CASE kind = "garbage"
            <4>1. flash[s] \in [mark : Mark, seal : {"blank", "other"}, data : [Cell -> Content],
                                footer : {FALSE}, counter : {3}, crc : {NoCrc}]
                BY <3>2 DEF FactorySectors
            <4> DEFINE g == flash[s]
            <4>2. /\ g.mark \in Mark /\ g.seal \in {"blank", "other"} /\ g.data \in [Cell -> Content]
                  /\ g.footer = FALSE /\ g.counter = 3 /\ g.crc = NoCrc
                  /\ g = [mark |-> g.mark, seal |-> g.seal, data |-> g.data, footer |-> g.footer,
                          counter |-> g.counter, crc |-> g.crc]
                BY <4>1
            <4> HIDE DEF g
            <4>3. g \in SectorState /\ Unsealed(g)
                <5>1. g.counter \in 0 .. 3 /\ g.crc \in Covered \cup {NoCrc}
                    BY <4>2
                <5>2. g.footer \in BOOLEAN
                    BY <4>2, Zenon
                <5>3. g.seal \in Seal
                    BY <4>2 DEF Seal
                <5> QED BY <4>2, <5>1, <5>2, <5>3 DEF SectorState, Unsealed
            <4> QED BY <1>0, <3>2, <4>2, <4>3 DEF g
        <3> QED BY <1>1, <3>1, <3>2
    <2>2. flash \in [Sector -> SectorState] /\ Unset(flash)
        <3>1. DOMAIN flash = Sector /\ flash = [s \in Sector |-> flash[s]]
            BY <1>1 DEF FactorySectors
        <3> QED BY <2>1, <3>1, SectorFacts DEF Unset
    <2>3. \A s \in Sector : Eroded(flash[s])
        BY <2>1 DEF Eroded
    <2> QED BY <2>2, <2>3, UnsetIsUnknown, ContentTypes, SectorFacts, DCDAssumption
            DEF Init, TypeOK, DCDInv, Busy, Stored, AllBlank
<1>2. CASE kind = "v1"
    <2>1. flash \in [Sector -> V1Sector \cup {Erased}] /\ \E s \in Sector : HeaderValid(flash[s])
        BY <1>2 DEF FactorySectors
    <2>2. ASSUME NEW s \in Sector
          PROVE  /\ flash[s] \in SectorState /\ flash[s].crc = NoCrc
                 /\ Unsealed(flash[s]) \/ (flash[s].mark = "valid" /\ flash[s].seal = "valid")
        <3>1. CASE flash[s] = Erased
            BY <3>1, ContentTypes DEF Erased, Unsealed
        <3>2. CASE flash[s] \in V1Sector
            <4>1. flash[s] \in [mark : {"valid"}, seal : {"valid", "other"}, data : [Cell -> Value],
                                footer : BOOLEAN, counter : 0 .. 3, crc : {NoCrc}]
                BY <3>2 DEF V1Sector
            <4>2. [Cell -> Value] \subseteq [Cell -> Content]
                BY DEF Content
            <4> QED BY <4>1, <4>2 DEF SectorState, Unsealed, Mark, Seal
        <3> QED BY <2>1, <3>1, <3>2
    <2>3. flash \in [Sector -> SectorState]
        BY <2>1, <2>2
    <2>4. \A s \in Sector : Eroded(flash[s]) /\ ~ CrcValid(flash[s])
        BY <2>2, ContentTypes, CrcAssumption DEF Eroded, CrcValid
    <2>5. \E c \in Sector : Settled(flash, c)
        <3>1. CASE flash[1].mark = "valid" /\ flash[1].seal = "valid"
            BY <2>2, <2>4, <3>1, SectorFacts DEF Settled
        <3>2. CASE ~ (flash[1].mark = "valid" /\ flash[1].seal = "valid")
            <4>1. Unsealed(flash[1]) /\ HeaderValid(flash[0])
                BY <2>1, <2>2, <3>2, SectorFacts DEF HeaderValid, Unsealed
            <4> QED BY <2>2, <4>1, SectorFacts DEF Settled, HeaderValid, Unsealed
        <3> QED BY <3>1, <3>2
    <2>6. Read(flash) \in [Cell -> Content]
        BY <2>3, <2>5, SettledIsCurrent DEF SectorState
    <2> QED BY <2>3, <2>4, <2>5, <2>6, SectorFacts, DCDAssumption
            DEF Init, TypeOK, DCDInv, Busy, Stored
<1> QED BY <1>0, <1>1, <1>2

\* Between two operations of a call.
LEMMA BeginsWell ==
    ASSUME TypeOK, source' \in Sector \cup {None}, flash' \in [Sector -> SectorState],
           before' \in [Cell -> Content], job' \in Job \cup {None}, result' \in {"none", "ok", "error", "reset"},
           \A s \in Sector : Eroded(flash'[s]),
           pc' = "erase", next' = 1, result' # "ok",
           IF source' = None
           THEN target' = 1 /\ Unset(flash') /\ before' = AllBlank
           ELSE /\ target' = AlternateTo(source') /\ job' # None
                /\ FactoryAssumption => flash'[source'].data = before'
                /\ \/ Settled(flash', source') /\ flash'[source'].data = before'
                   \/ Unset(flash') /\ source' = 1 /\ before' = AllBlank
    PROVE  TypeOK' /\ DCDInv'
<1>1. TypeOK'
    BY SectorFacts, DCDAssumption DEF TypeOK
<1>2. Progress' /\ Sources'
    BY DEF Progress, Sources
<1> QED BY <1>1, <1>2 DEF DCDInv, Stored, Busy

LEMMA CallKeeps ==
    ASSUME TypeOK, DCDInv, NEW j \in Job \cup {None}, Call(j)
    PROVE  TypeOK' /\ DCDInv'
<1>1. /\ pc = "idle" /\ before' = Read(flash) /\ job' = j /\ flash' = flash
      /\ \A s \in Sector : Eroded(flash'[s])
      /\ flash' \in [Sector -> SectorState]
    BY DEF Call, DCDInv, TypeOK
<1>2. CASE Unset(flash)
    <2>1. CurrentSector(flash) = Unknown /\ Read(flash) = AllBlank
        BY <1>2, UnsetIsUnknown
    <2>2. source' = None /\ target' = 1 /\ pc' = "erase" /\ next' = 1 /\ result' = "none"
        BY <2>1 DEF Call, BeginSector
    <2>3. before' \in [Cell -> Content]
        BY <1>1, <2>1, ContentTypes DEF AllBlank
    <2> QED BY <1>1, <1>2, <2>1, <2>2, <2>3, BeginsWell
<1>3. ASSUME NEW c \in Sector, Settled(flash, c)
      PROVE  TypeOK' /\ DCDInv'
    <2>1. CurrentSector(flash) = c /\ Read(flash) = flash[c].data /\ c # Unknown
        BY <1>1, <1>3, SettledIsCurrent, SectorFacts
    <2>2. before' \in [Cell -> Content]
        BY <1>1, <2>1 DEF SectorState
    <2>3. CASE j # None
        <3>1. /\ source' = c /\ target' = AlternateTo(c) /\ pc' = "erase" /\ next' = 1
              /\ result' = "none"
            BY <2>1, <2>3 DEF Call, BeginSector
        <3>2. flash'[source'].data = before' /\ Settled(flash', source') /\ source' # None
            BY <1>1, <1>3, <2>1, <3>1, SectorFacts
        <3> QED BY <1>1, <2>2, <2>3, <3>1, <3>2, BeginsWell
    <2>4. CASE j = None
        <3>1. result' = "ok" /\ UNCHANGED <<pc, source, target, next>> /\ job' = None
            BY <1>1, <2>1, <2>4 DEF Call
        <3>2. TypeOK'
            BY <1>1, <2>2, <3>1 DEF TypeOK
        <3> QED BY <1>1, <1>3, <3>1, <3>2 DEF DCDInv, Busy, Stored
    <2> QED BY <2>3, <2>4
<1> QED BY <1>1, <1>2, <1>3 DEF DCDInv

\* The call goes on to its next operation.
LEMMA AdvanceKeeps ==
    ASSUME TypeOK, DCDInv, Busy, NoLoneSeal, flash' = [flash EXCEPT ![Worked] = Completed(pc, @)],
           UNCHANGED <<control, result>>,
           \/ pc = "erase" /\ pc' = (IF source = None THEN "footer" ELSE "copy") /\ next' = next
           \/ /\ pc = "copy" /\ pc' = (IF next = CellCount THEN "footer" ELSE "copy")
              /\ next' = next + 1
           \/ pc = "footer" /\ pc' = "crc" /\ next' = next
           \/ pc = "crc" /\ pc' = "seal" /\ next' = next
           \/ pc = "seal" /\ source # None /\ pc' = "retire" /\ next' = next
    PROVE  TypeOK' /\ DCDInv'
<1> DEFINE t == Completed(pc, flash[Worked])
<1>1. /\ t \in CutShort(pc, flash[Worked]) /\ flash' = [flash EXCEPT ![Worked] = t]
      /\ Worked = target /\ target \in Sector /\ flash[target] \in SectorState
      /\ flash'[target] = t /\ t \in SectorState
      /\ Progress /\ Sources
    BY CompletedIsCutShort, CutShortSector DEF Worked, DCDInv, TypeOK
<1>2. /\ source' = source /\ target' = target /\ job' = job /\ before' = before /\ result' = result
    BY DEF control
<1> HIDE DEF t
<1>3. /\ flash' \in [Sector -> SectorState]
      /\ \A s \in Sector : Eroded(flash'[s])
      /\ pc # "retire"
    BY <1>1, AfterOperation
<1>4. pc # "seal" => Unsealed(t)
    <2>1. pc = "erase" => t = Erased
        BY DEF t, Completed
    <2> QED BY <1>1, <1>3, <2>1, CutShortSector DEF TypeOK, Busy, Erased, Unsealed
<1>5. source # None =>
          /\ flash'[source] = flash[source] /\ source \in Sector /\ job \in Job
          /\ FactoryAssumption => flash[source].data = before
    BY <1>1, AfterOperation DEF Sources, TypeOK
<1>6. NewCounter' = NewCounter /\ Goal' = Goal
    BY <1>2, <1>5 DEF NewCounter, Goal
<1>7. Sources'
    <2>1. CASE source = None
        <3>1. Unset(flash') \/ Settled(flash', 1)
            BY <1>1, <2>1, AfterOperation
        <3>2. ~ Settled(flash', 1)
            BY <1>1, <1>4, <2>1 DEF Settled, Sources, Unsealed
        <3> QED BY <1>1, <1>2, <2>1, <3>1, <3>2 DEF Sources
    <2>2. CASE source # None /\ pc # "seal"
        <3>1. \/ Settled(flash', source) /\ flash'[source].data = before
              \/ Unset(flash') /\ source = 1 /\ before = AllBlank
            BY <1>1, <1>3, <1>4, <2>2, AfterOperation
        <3>2. pc' # "retire"
            BY <2>2
        <3> QED BY <1>1, <1>2, <1>5, <2>2, <3>1, <3>2 DEF Sources
    <2>3. CASE source # None /\ pc = "seal"
        <3>1. t = Completed("seal", flash[target])
            BY <1>1, <2>3 DEF t
        <3>2. /\ Settled(flash', target) /\ Succeeds(flash'[target], flash'[source])
            BY <1>1, <1>3, <2>3, <3>1, AfterOperation
        <3>3. pc' = "retire"
            BY <2>3
        <3> QED BY <1>1, <1>2, <1>5, <2>3, <3>2, <3>3 DEF Sources
    <2> QED BY <2>1, <2>2, <2>3
<1>8. Progress' /\ pc' # "idle" /\ pc' \in {"copy", "footer", "crc", "seal", "retire"} /\ next' \in 1 .. CellCount + 1
    <2>0. next \in 1 .. CellCount + 1 /\ CellCount \in Nat /\ CellCount # 0 /\ Cell = 1 .. CellCount
        BY DCDAssumption DEF TypeOK, Cell
    <2>1. CASE pc = "erase"
        <3>1. t = Erased
            BY <2>1 DEF t, Completed
        <3>2. Unsealed(t) /\ t.crc = NoCrc /\ t.data = AllBlank
            BY <3>1 DEF Erased, AllBlank, Unsealed
        <3>3. source # None => next = 1
            BY <1>1, <2>1 DEF Progress
        <3>4. source = None => Goal' = AllBlank
            BY <1>2 DEF Goal
        <3> QED BY <1>1, <1>2, <2>0, <2>1, <3>2, <3>3, <3>4 DEF Progress
    <2>2. CASE pc = "copy"
        <3>1. source # None /\ next \in Cell /\ flash[target].crc = NoCrc
            BY <1>1, <2>2 DEF Progress, Sources
        <3>2. t = [flash[target] EXCEPT !.data[next] = CellValue]
            BY <1>1, <2>2 DEF t, Completed
        <3>3. CellValue = Goal[next]
            BY <1>5, <3>1 DEF CellValue, Goal, TypeOK, Job, SectorState
        <3>4. /\ t.crc = NoCrc /\ t.data = [flash[target].data EXCEPT ![next] = Goal[next]]
              /\ flash[target].data \in [Cell -> Content]
            BY <1>1, <3>1, <3>2, <3>3 DEF SectorState
        <3>5. \A c \in 1 .. next : t.data[c] = Goal[c]
            BY <1>1, <2>0, <2>2, <3>1, <3>4 DEF Progress
        <3>6. Goal \in [Cell -> Content]
            BY <1>1, <3>1, GoalType DEF Sources
        <3>7. next = CellCount => t.data = Goal
            BY <2>0, <3>4, <3>5, <3>6
        <3>8. next # CellCount => next' \in Cell /\ \A c \in 1 .. next' - 1 : t.data[c] = Goal[c]
            BY <2>0, <2>2, <3>1, <3>5
        <3>9. next' = next + 1 /\ next' \in 1 .. CellCount + 1
            BY <2>0, <2>2, <3>1
        <3>10. CASE next = CellCount
            BY <1>1, <1>2, <1>4, <1>6, <2>0, <2>2, <3>1, <3>4, <3>7, <3>9, <3>10 DEF Progress
        <3>11. CASE next # CellCount
            BY <1>1, <1>2, <1>4, <1>6, <2>0, <2>2, <3>1, <3>4, <3>8, <3>9, <3>11 DEF Progress
        <3> QED BY <3>10, <3>11
    <2>3. CASE pc = "footer"
        <3>1. t = [flash[target] EXCEPT !.footer = TRUE, !.counter = NewCounter]
            BY <1>1, <2>3 DEF t, Completed
        <3>2. /\ t.footer /\ t.counter = NewCounter /\ t.data = flash[target].data
              /\ t.crc = flash[target].crc
            BY <1>1, <3>1 DEF SectorState
        <3> QED BY <1>1, <1>2, <1>4, <1>6, <2>0, <2>3, <3>2 DEF Progress
    <2>4. CASE pc = "crc"
        <3>1. t = Completed("crc", flash[target]) /\ flash[target].footer
            BY <1>1, <2>4 DEF t, Progress
        <3>2. /\ CrcValid(t) /\ t.data = flash[target].data /\ t.footer = flash[target].footer
              /\ t.counter = flash[target].counter
            BY <1>1, <3>1, CompletedCrc
        <3> QED BY <1>1, <1>2, <1>4, <1>6, <2>0, <2>4, <3>2 DEF Progress
    <2>5. CASE pc = "seal"
        <3>1. t \in CutShort("seal", flash[target])
            BY <1>1, <2>5
        <3>2. t.data = flash[target].data /\ (CrcValid(t) <=> CrcValid(flash[target]))
            BY <1>1, <3>1, CutSeal
        <3> QED BY <1>1, <1>2, <1>6, <2>0, <2>5, <3>2 DEF Progress
    <2> QED BY <2>1, <2>2, <2>3, <2>4, <2>5
<1>9. TypeOK'
    BY <1>2, <1>3, <1>8 DEF TypeOK
<1>10. result' # "ok"
    BY <1>2 DEF DCDInv
<1> QED BY <1>3, <1>7, <1>8, <1>9, <1>10 DEF DCDInv, Busy, Stored

\* The call returns, or goes on with the write after an initialization.
LEMMA ReturnKeeps ==
    ASSUME TypeOK, DCDInv, Busy, NEW t \in CutShort(pc, flash[Worked]), NoLoneSeal,
           flash' = [flash EXCEPT ![Worked] = t],
           NEW r \in {"ok", "error"}, Return(r),
           r = "ok" => source = None \/ (pc = "retire" /\ t = Completed("retire", flash[source]))
    PROVE  TypeOK' /\ DCDInv'
<1>1. /\ flash' \in [Sector -> SectorState]
      /\ \A s \in Sector : Eroded(flash'[s])
      /\ Progress /\ Sources /\ result # "ok"
    BY AfterOperation DEF DCDInv
<1>2. CASE source = None /\ job # None
    <2>1. /\ source' = 1 /\ target' = 0 /\ pc' = "erase" /\ next' = 1
          /\ UNCHANGED <<job, before, result>>
        BY <1>2 DEF Return, BeginSector
    <2>2. /\ before = AllBlank /\ (FactoryAssumption => flash'[1].data = before)
          /\ Unset(flash') \/ (Settled(flash', 1) /\ flash'[1].data = before)
        BY <1>2, AfterOperation
    <2> QED BY <1>1, <1>2, <2>1, <2>2, BeginsWell, SectorFacts DEF TypeOK
<1>3. CASE ~ (source = None /\ job # None)
    <2>1. /\ pc' = "idle" /\ result' = r /\ UNCHANGED <<job, before>>
          /\ source' = None /\ target' = 0 /\ next' = 1
        BY <1>3 DEF Return, Done
    <2>2. TypeOK'
        BY <1>1, <2>1, SectorFacts, DCDAssumption DEF TypeOK
    <2>3. Unset(flash') \/ \E c \in Sector : Settled(flash', c)
        <3>1. CASE source = None
            BY <3>1, AfterOperation, SectorFacts
        <3>2. CASE source # None
            <4>1. source \in Sector /\ target \in Sector
                BY <3>2 DEF TypeOK
            <4> QED BY <3>2, <4>1, AfterOperation
        <3> QED BY <3>1, <3>2
    <2>4. ASSUME r = "ok", job # None
          PROVE  Stored'
        <3>1. source # None /\ pc = "retire" /\ t = Completed("retire", flash[source])
            BY <1>3, <2>4
        <3>2. /\ source \in Sector /\ target \in Sector /\ AlternateTo(target) = source
              /\ flash[source] \in SectorState
              /\ flash[target].data = Goal /\ job \in Job
              /\ FactoryAssumption => flash[source].data = before
            BY <1>1, <3>1, SectorFacts DEF Sources, TypeOK, Progress
        <3>3. /\ flash'[target] = flash[target] /\ flash'[source] = t
              /\ FactoryAssumption => flash'[source].data = before
              /\ Settled(flash', target)
            BY <3>1, AfterOperation
        <3>4. t.mark = "valid" /\ t.seal = "superseded"
            BY <3>1, <3>2 DEF Completed, SectorState
        <3>5. HeaderValid(t) /\ (FactoryAssumption => t.data = before)
            BY <3>3, <3>4 DEF HeaderValid
        <3>6. /\ Goal[job.cell] = job.value
              /\ FactoryAssumption => Goal = After
            BY <3>1, <3>2 DEF Goal, After, SectorState, Job
        <3>7. After' = After /\ job' = job /\ before' = before
            BY <2>1 DEF After
        <3> QED BY <2>1, <3>2, <3>3, <3>5, <3>6, <3>7 DEF Stored
    <2> QED BY <1>1, <2>1, <2>2, <2>3, <2>4 DEF DCDInv, Busy, Stored
<1> QED BY <1>2, <1>3

LEMMA NextInv == NoLoneSeal /\ TypeOK /\ DCDInv /\ [Next]_vars => TypeOK' /\ DCDInv'
<1> SUFFICES ASSUME NoLoneSeal, TypeOK, DCDInv, [Next]_vars PROVE TypeOK' /\ DCDInv'
    OBVIOUS
<1>1. CASE BeginWrite \/ BeginRead
    BY <1>1, CallKeeps DEF BeginWrite, BeginRead
<1>2. CASE EraseTarget \/ CopyCell \/ WriteFooter \/ WriteCrc
    BY <1>2, AdvanceKeeps DEF EraseTarget, CopyCell, WriteFooter, WriteCrc, Do, Busy
<1>3. CASE SealTarget
    <2>1. pc = "seal" /\ Busy /\ Worked = target
        BY <1>3 DEF SealTarget, Busy, Worked
    <2>2. CASE source = None
        <3> DEFINE t == Completed("seal", flash[target])
        <3>1. t \in CutShort(pc, flash[Worked])
            BY <2>1, CompletedIsCutShort
        <3>2. flash' = [flash EXCEPT ![Worked] = t] /\ Return("ok")
            BY <1>3, <2>1, <2>2 DEF SealTarget
        <3> HIDE DEF t
        <3> QED BY <2>1, <2>2, <3>1, <3>2, ReturnKeeps
    <2>3. CASE source # None
        BY <1>3, <2>1, <2>3, AdvanceKeeps DEF SealTarget
    <2> QED BY <2>2, <2>3
<1>4. CASE RetireSource
    <2> DEFINE t == Completed("retire", flash[source])
    <2>1. pc = "retire" /\ Busy /\ Worked = source
        BY <1>4 DEF RetireSource, Busy, Worked
    <2>2. t \in CutShort(pc, flash[Worked])
        BY <2>1, CompletedIsCutShort
    <2>3. flash' = [flash EXCEPT ![Worked] = t] /\ Return("ok")
        BY <1>4, <2>1 DEF RetireSource
    <2>4. pc = "retire" /\ t = Completed("retire", flash[source])
        BY <2>1
    <2> HIDE DEF t
    <2> QED BY <2>1, <2>2, <2>3, <2>4, ReturnKeeps
<1>5. CASE Fail
    <2>1. PICK t \in CutShort(pc, flash[Worked]) : flash' = [flash EXCEPT ![Worked] = t]
        BY <1>5 DEF Fail
    <2> QED BY <1>5, <2>1, ReturnKeeps DEF Fail
<1>6. CASE Reset
    <2>1. PICK t \in CutShort(pc, flash[Worked]) : flash' = [flash EXCEPT ![Worked] = t]
        BY <1>6 DEF Reset
    <2>2. /\ Busy /\ pc' = "idle" /\ result' = "reset" /\ UNCHANGED <<job, before>>
          /\ source' = None /\ target' = 0 /\ next' = 1
        BY <1>6 DEF Reset, Done
    <2>3. /\ flash' \in [Sector -> SectorState]
          /\ \A s \in Sector : Eroded(flash'[s])
        BY <2>1, <2>2, AfterOperation
    <2>4. Unset(flash') \/ \E c \in Sector : Settled(flash', c)
        <3>1. CASE source = None
            BY <2>1, <2>2, <3>1, AfterOperation, SectorFacts
        <3>2. CASE source # None
            <4>1. source \in Sector /\ target \in Sector
                BY <2>2, <3>2 DEF TypeOK, DCDInv, Sources
            <4> QED BY <2>1, <2>2, <3>2, <4>1, AfterOperation
        <3> QED BY <3>1, <3>2
    <2> QED BY <2>2, <2>3, <2>4, SectorFacts, DCDAssumption DEF TypeOK, DCDInv, Busy, Stored
<1>7. CASE UNCHANGED vars
    BY <1>7 DEF vars, TypeOK, DCDInv, Busy, Stored, Progress, Sources, Goal, After, NewCounter
<1> QED BY <1>1, <1>2, <1>3, <1>4, <1>5, <1>6, <1>7 DEF Next

-----------------------------------------------------------------------------
(* What the DCD promises *)

\* Type correctness of the DCD: no interrupted operation takes the flash or the
\* call under way out of the states they are meant to be in.
THEOREM TypeCorrect ==
    ASSUME NoLoneSeal PROVE Spec => []TypeOK
<1>1. Init => TypeOK /\ DCDInv
    BY InitInv
<1> QED BY <1>1, NextInv, PTL DEF Spec

LEMMA ReadIsContent ==
    ASSUME TypeOK, DCDInv
    PROVE  Read(flash) \in [Cell -> Content]
<1>1. CASE pc = "idle"
    <2>1. CASE Unset(flash)
        BY <2>1, UnsetIsUnknown, ContentTypes DEF AllBlank
    <2>2. ASSUME NEW c \in Sector, Settled(flash, c) PROVE Read(flash) \in [Cell -> Content]
        BY <2>2, SettledIsCurrent DEF TypeOK, SectorState
    <2> QED BY <1>1, <2>1, <2>2 DEF DCDInv
<1>2. CASE Busy
    <2>2. CASE pc # "retire"
        <3>1. CASE source = None
            BY <1>2, <3>1, UnsetIsUnknown, ContentTypes DEF DCDInv, Sources, AllBlank
        <3>2. CASE source # None
            <4>1. source \in Sector /\ (Settled(flash, source) \/ Unset(flash))
                BY <1>2, <2>2, <3>2 DEF DCDInv, Sources, TypeOK
            <4> QED BY <4>1, UnsetIsUnknown, SettledIsCurrent, ContentTypes
                    DEF TypeOK, AllBlank, SectorState
        <3> QED BY <3>1, <3>2
    <2>3. CASE pc = "retire"
        <3>1. target \in Sector /\ Settled(flash, target)
            BY <1>2, <2>3 DEF DCDInv, Sources, TypeOK
        <3> QED BY <3>1, SettledIsCurrent DEF TypeOK, SectorState
    <2> QED BY <2>2, <2>3
<1> QED BY <1>1, <1>2 DEF Busy

\* DCD::write: one that returned DCD_SUCCESS is what the next read() returns,
\* whatever failed before it.
THEOREM SuccessIsStored ==
    ASSUME FactoryAssumption, NoLoneSeal PROVE Spec => []SuccessMeansStored
<1>1. ASSUME TypeOK, DCDInv PROVE SuccessMeansStored
    BY <1>1, SettledIsCurrent DEF DCDInv, Stored, SuccessMeansStored, TypeOK
<1>2. Init => TypeOK /\ DCDInv
    BY InitInv
<1> QED BY <1>1, <1>2, NextInv, PTL DEF Spec

\* DCD::write with SEAL_INVALID_V2: after a success the sector that was copied
\* is still complete, so losing the new one brings the old content back.
THEOREM BackupIsKept ==
    ASSUME FactoryAssumption, NoLoneSeal PROVE Spec => []BackupKept
<1>1. ASSUME TypeOK, DCDInv PROVE BackupKept
    <2> SUFFICES ASSUME result = "ok", job # None
                 PROVE  Read([flash EXCEPT ![CurrentSector(flash)] = Erased]) = before
        BY DEF BackupKept
    <2>1. PICK c \in Sector :
              LET o == flash[AlternateTo(c)]
              IN  Settled(flash, c) /\ HeaderValid(o) /\ o.data = before
        BY <1>1 DEF DCDInv, Stored
    <2> DEFINE o == AlternateTo(c)
               f == [flash EXCEPT ![c] = Erased]
    <2>2. CurrentSector(flash) = c
        BY <1>1, <2>1, SettledIsCurrent DEF TypeOK
    <2>3. /\ f \in [Sector -> SectorState] /\ o \in Sector /\ AlternateTo(o) = c
          /\ f[c] = Erased /\ f[o] = flash[o]
        BY <1>1, SectorFacts, ContentTypes DEF TypeOK
    <2> HIDE DEF f
    <2>4. Read(f) = f[o].data
        BY <2>1, <2>3, LoneSectorIsCurrent
    <2> QED BY <2>1, <2>2, <2>3, <2>4 DEF f
<1>2. Init => TypeOK /\ DCDInv
    BY InitInv
<1> QED BY <1>1, <1>2, NextInv, PTL DEF Spec

\* DCD::write: the cell that was written is what it was written to, also if the sectors held
\* something else than 0xFF before their first use and initializing one has failed.
THEOREM CellIsStored ==
    ASSUME NoLoneSeal PROVE Spec => []CellStored
<1>1. ASSUME TypeOK, DCDInv PROVE CellStored
    BY <1>1, SettledIsCurrent DEF DCDInv, Stored, CellStored, TypeOK
<1>2. Init => TypeOK /\ DCDInv
    BY InitInv
<1> QED BY <1>1, <1>2, NextInv, PTL DEF Spec

\* A step does nothing to the flash, or it is an operation, completed or cut short.
LEMMA StepCutsShort ==
    ASSUME TypeOK, DCDInv, [Next]_vars
    PROVE  \/ flash' = flash
           \/ Busy /\ \E t \in CutShort(pc, flash[Worked]) : flash' = [flash EXCEPT ![Worked] = t]
<1>1. CASE BeginWrite \/ BeginRead \/ UNCHANGED vars
    BY <1>1 DEF BeginWrite, BeginRead, Call, vars
<1>2. CASE EraseTarget \/ CopyCell \/ WriteFooter \/ WriteCrc \/ SealTarget \/ RetireSource
    <2> DEFINE t == Completed(pc, flash[Worked])
    <2>1. Busy /\ flash' = [flash EXCEPT ![Worked] = t]
        BY <1>2 DEF EraseTarget, CopyCell, WriteFooter, WriteCrc, SealTarget, RetireSource, Do,
           Busy, Worked
    <2>2. t \in CutShort(pc, flash[Worked])
        BY <2>1, CompletedIsCutShort
    <2> HIDE DEF t
    <2> QED BY <2>1, <2>2
<1>3. CASE Fail \/ Reset
    BY <1>3 DEF Fail, Reset
<1> QED BY <1>1, <1>2, <1>3 DEF Next

\* The content with the write under way, as AtomicStore has it.
WithJob == [Read(flash) EXCEPT ![job.cell] = job.value]

\* What an operation does to the content: nothing, or it makes the write under
\* way take effect; and when the old sector is retired it has taken effect.
LEMMA OperationWrites ==
    ASSUME TypeOK, DCDInv, NoLoneSeal, FactoryAssumption \/ CurrentSector(flash) # Unknown,
           Busy, NEW t \in CutShort(pc, flash[Worked]), flash' = [flash EXCEPT ![Worked] = t]
    PROVE  /\ source = None => Read(flash') = Read(flash)
           /\ source # None =>
                 /\ job # None
                 /\ Read(flash') = Read(flash) \/ Read(flash') = WithJob
                 /\ pc = "retire" => Read(flash') = WithJob
<1>1. CASE source = None
    <2>1. pc # "retire"
        BY <1>1 DEF DCDInv, Sources
    <2> QED BY <1>1, <2>1, AfterOperation
<1>2. CASE source # None
    <2>1. /\ source \in Sector /\ job \in Job /\ job # None
          /\ flash[source].data \in [Cell -> Content]
        BY <1>2 DEF DCDInv, Sources, TypeOK, SectorState
    <2>2. CASE pc = "retire"
        <3>1. Read(flash) = Goal /\ Read(flash') = Goal
            BY <1>2, <2>2, AfterOperation
        <3>2. WithJob = Goal
            BY <1>2, <2>1, <3>1 DEF WithJob, Goal, Job
        <3> QED BY <1>2, <2>1, <3>1, <3>2
    <2>3. CASE pc # "retire"
        <3>1. Read(flash) = before /\ (Read(flash') = before \/ Read(flash') = Goal)
            BY <1>2, <2>3, AfterOperation
        <3>2. flash[source].data = before
            <4>1. \/ Settled(flash, source) /\ flash[source].data = before
                  \/ Unset(flash) /\ source = 1 /\ before = AllBlank
                BY <1>2, <2>3 DEF DCDInv, Sources
            <4>2. CASE Unset(flash) /\ source = 1 /\ before = AllBlank
                BY <4>2, UnsetIsUnknown DEF Unset
            <4> QED BY <4>1, <4>2
        <3>3. Goal = WithJob
            BY <1>2, <3>1, <3>2 DEF Goal, WithJob
        <3> QED BY <1>2, <2>1, <2>3, <3>1, <3>3
    <2> QED BY <2>2, <2>3
<1> QED BY <1>1, <1>2

\* What a step is to AtomicStore: a write begins, takes effect and ends, or
\* read() initializes a sector.
LEMMA StepIsAtomic ==
    ASSUME TypeOK, DCDInv, NoLoneSeal, [Next]_vars, FactoryAssumption \/ CurrentSector(flash) # Unknown
    PROVE  [Store!Next]_(Store!vars)
<1> DEFINE pending == IF Busy THEN job ELSE None
<1>0. job \in Job \cup {None} /\ Job \subseteq Store!Job
    BY ContentTypes DEF TypeOK, Job, Store!Job
<1>1. ASSUME NEW j \in Job \cup {None}, Call(j), j # None \/ CurrentSector(flash) = Unknown
      PROVE  Store!Next
    <2>1. /\ ~ Busy /\ Busy' /\ job' = j /\ flash' = flash /\ result' = "none"
        BY <1>1 DEF Call, BeginSector, Busy
    <2>2. Read(flash') = Read(flash)
        BY <2>1
    <2>3. CASE j # None
        <3>1. j \in Store!Job
            BY <1>0, <2>3
        <3>2. Store!Start(j)
            BY <2>1, <2>2 DEF Store!Start
        <3> QED BY <3>1, <3>2 DEF Store!Next
    <2>4. CASE j = None
        <3>1. Store!Fetch("none")
            BY <2>1, <2>2, <2>4 DEF Store!Fetch
        <3> QED BY <3>1 DEF Store!Next, Store!Result
    <2> QED BY <2>3, <2>4
<1>2. ASSUME Busy, Busy', UNCHANGED <<job, result>>, NEW t \in CutShort(pc, flash[Worked]),
             flash' = [flash EXCEPT ![Worked] = t]
      PROVE  [Store!Next]_(Store!vars)
    <2>1. CASE Read(flash') = Read(flash)
        BY <1>2, <2>1 DEF Store!vars
    <2>2. CASE Read(flash') # Read(flash)
        <3>1. job # None /\ Read(flash') = WithJob
            BY <1>2, <2>2, OperationWrites
        <3>2. Store!Commit
            BY <1>2, <3>1 DEF WithJob, Store!Commit, Store!Committed
        <3> QED BY <3>2 DEF Store!Next
    <2> QED BY <2>1, <2>2
<1>3. ASSUME Busy, ~ Busy', job' = job, result' \in {"ok", "error", "reset"}, NEW t \in CutShort(pc, flash[Worked]),
             flash' = [flash EXCEPT ![Worked] = t],
             result' = "ok" => source = None \/ pc = "retire",
             source = None /\ job # None => result' = "reset"
      PROVE  Store!Next
    <2>1. CASE job = None
        <3>1. Read(flash') = Read(flash)
            BY <1>3, <2>1, OperationWrites
        <3>2. Store!Fetch(result')
            BY <1>3, <2>1, <3>1 DEF Store!Fetch
        <3> QED BY <1>3, <3>2 DEF Store!Next, Store!Result
    <2>2. CASE job # None
        <3>1. Read(flash') = WithJob \/ (result' # "ok" /\ Read(flash') = Read(flash))
            BY <1>3, <2>2, OperationWrites
        <3>2. Store!Finish(result')
            BY <1>3, <2>2, <3>1 DEF WithJob, Store!Finish, Store!Committed
        <3> QED BY <1>3, <3>2 DEF Store!Next, Store!Result
    <2> QED BY <2>1, <2>2
<1>4. CASE BeginWrite \/ BeginRead
    <2>1. CASE BeginRead
        BY <1>1, <2>1 DEF BeginRead
    <2>2. CASE BeginWrite
        <3>1. PICK j \in Job : Call(j)
            BY <2>2 DEF BeginWrite
        <3>2. CASE j # None \/ CurrentSector(flash) = Unknown
            BY <1>1, <3>1, <3>2
        <3>3. CASE j = None /\ CurrentSector(flash) # Unknown
            <4>1. UNCHANGED pc /\ job' = None /\ flash' = flash /\ pc = "idle" /\ result' = "ok"
                BY <3>1, <3>3 DEF Call
            <4>2. Store!Fetch("ok")
                BY <4>1 DEF Busy, Store!Fetch
            <4> QED BY <4>2 DEF Store!Next, Store!Result
        <3> QED BY <3>2, <3>3
    <2> QED BY <1>4, <2>1, <2>2
<1>5. CASE EraseTarget \/ CopyCell \/ WriteFooter \/ WriteCrc \/ (SealTarget /\ source # None)
    <2> DEFINE t == Completed(pc, flash[Worked])
    <2>1. /\ Busy /\ Busy' /\ UNCHANGED <<job, result>> /\ flash' = [flash EXCEPT ![Worked] = t]
        BY <1>5 DEF EraseTarget, CopyCell, WriteFooter, WriteCrc, SealTarget, Do, Busy, Worked, control
    <2>2. t \in CutShort(pc, flash[Worked])
        BY <2>1, CompletedIsCutShort
    <2> HIDE DEF t
    <2> QED BY <1>2, <2>1, <2>2
<1>6. CASE (SealTarget /\ source = None) \/ RetireSource
    <2> DEFINE t == Completed(pc, flash[Worked])
    <2>1. /\ Busy /\ flash' = [flash EXCEPT ![Worked] = t] /\ Return("ok")
          /\ source = None \/ pc = "retire"
        BY <1>6 DEF SealTarget, RetireSource, Busy, Worked
    <2>2. t \in CutShort(pc, flash[Worked])
        BY <2>1, CompletedIsCutShort
    <2> HIDE DEF t
    <2>3. CASE source = None /\ job # None
        <3>1. Busy' /\ UNCHANGED <<job, result>>
            BY <2>1, <2>3 DEF Return, BeginSector, Busy
        <3> QED BY <1>2, <2>1, <2>2, <3>1
    <2>4. CASE ~ (source = None /\ job # None)
        <3>1. ~ Busy' /\ job' = job /\ result' = "ok"
            BY <2>1, <2>4 DEF Return, Done, Busy
        <3> QED BY <1>3, <2>1, <2>2, <2>4, <3>1
    <2> QED BY <2>3, <2>4
<1>7. CASE Fail
    <2>1. PICK t \in CutShort(pc, flash[Worked]) : flash' = [flash EXCEPT ![Worked] = t]
        BY <1>7 DEF Fail
    <2>2. CASE source = None /\ job # None
        <3>1. Busy /\ Busy' /\ UNCHANGED <<job, result>>
            BY <1>7, <2>2 DEF Fail, Return, BeginSector, Busy
        <3> QED BY <1>2, <2>1, <3>1
    <2>3. CASE ~ (source = None /\ job # None)
        <3>1. Busy /\ ~ Busy' /\ job' = job /\ result' = "error"
            BY <1>7, <2>3 DEF Fail, Return, Done, Busy
        <3> QED BY <1>3, <2>1, <2>3, <3>1
    <2> QED BY <2>2, <2>3
<1>8. CASE Reset
    <2>1. PICK t \in CutShort(pc, flash[Worked]) : flash' = [flash EXCEPT ![Worked] = t]
        BY <1>8 DEF Reset
    <2>2. Busy /\ ~ Busy' /\ job' = job /\ result' = "reset"
        BY <1>8 DEF Reset, Done, Busy
    <2> QED BY <1>3, <2>1, <2>2
<1>9. CASE UNCHANGED vars
    BY <1>9 DEF vars, Store!vars, Busy
<1> QED BY <1>4, <1>5, <1>6, <1>7, <1>8, <1>9 DEF Next

\* Whatever happens to the other one, a valid sector is replaced only by a valid sector.
LEMMA ValidStays ==
    ASSUME TypeOK, DCDInv, NoLoneSeal, [Next]_vars, CurrentSector(flash) # Unknown
    PROVE  CurrentSector(flash') # Unknown
<1>1. ASSUME Busy, NEW t \in CutShort(pc, flash[Worked]), flash' = [flash EXCEPT ![Worked] = t]
      PROVE  CurrentSector(flash') # Unknown
    <2>1. source # None /\ source \in Sector /\ target \in Sector
        BY <1>1, UnsetIsUnknown DEF DCDInv, Sources, TypeOK
    <2>2. Settled(flash', source) \/ Settled(flash', target)
        <3>1. CASE pc = "retire"
            BY <1>1, <2>1, <3>1, AfterOperation
        <3>2. CASE pc # "retire"
            <4>1. Settled(flash, source)
                BY <1>1, <2>1, <3>2, UnsetIsUnknown DEF DCDInv, Sources
            <4> QED BY <1>1, <2>1, <3>2, <4>1, AfterOperation
        <3> QED BY <3>1, <3>2
    <2>3. flash' \in [Sector -> SectorState]
        BY <1>1, AfterOperation
    <2> QED BY <2>1, <2>2, <2>3, SettledIsCurrent, SectorFacts
<1> QED BY <1>1, StepCutsShort

\* DCD::write is atomic: with any number of cells, a reset or an error in any
\* operation on flash, and any history of such accidents, read() returns the
\* content with the write under way or without it, with it if it succeeded, and
\* nothing else changes the content.
THEOREM ImplementsStore ==
    ASSUME FactoryAssumption, NoLoneSeal PROVE Spec => ImplementsAtomicStore
<1>1. Init => TypeOK /\ DCDInv
    BY InitInv
<1>2. TypeOK /\ DCDInv /\ Init => Store!Init
    BY ReadIsContent DEF Store!Init, Init, Busy
<1>3. TypeOK /\ DCDInv /\ [Next]_vars => [Store!Next]_(Store!vars)
    BY StepIsAtomic
<1> QED BY <1>1, <1>2, <1>3, NextInv, PTL DEF Spec, ImplementsAtomicStore, Store!Spec

\* DCD::write is atomic also where the sectors held something else at first, from the moment on
\* that currentSector() finds a valid one: it finds one ever after, and the content changes
\* only by the write under way.
THEOREM AtomicFromFirstSector ==
    ASSUME NoLoneSeal PROVE Spec => AtomicOnceValid
<1>1. Init => TypeOK /\ DCDInv
    BY InitInv
<1>2. TypeOK /\ DCDInv /\ [Next]_vars =>
          (CurrentSector(flash) # Unknown =>
              /\ CurrentSector(flash') # Unknown
              /\ [Store!Next]_(Store!vars))
    BY StepIsAtomic, ValidStays
<1> QED BY <1>1, <1>2, NextInv, PTL DEF Spec, AtomicOnceValid

=============================================================================
