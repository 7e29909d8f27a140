------------------------ MODULE ChunkedTransfer_proofs ------------------------
(***************************************************************************)
(* Theorems about chunked transfers, for files and chunks of every size,   *)
(* every number of chunks in flight, and all limits on what is asked for   *)
(* again.                                                                  *)
(***************************************************************************)
EXTENDS ChunkedTransfer, WellFoundedInduction, TLAPS

\* What the chunk at an index holds is in storage, at its place.
Stored(i) == \A a \in UnitsOf(announced, chunkSize, i) : saved[a] = <<announced, a>>

CloudOK ==
    /\ cloud \in [phase : {"idle", "sending", "waiting"}, image : Image \cup {None},
                  size : ChunkSizes \cup {0}, fast : BOOLEAN, todo : SUBSET Unit]
    /\ cloud.phase = "sending" => cloud.image \in Image /\ cloud.size \in ChunkSizes

\* While an update is under way the cloud and the chunks in flight, if there are any, belong to
\* it, and the descriptor is that of the file.
OneTransfer ==
    updating # 0 =>
        /\ announced \in Image /\ chunkSize \in ChunkSizes
        /\ cloud.phase # "idle" \/ net # {} => fileLength = Length[announced]
        /\ cloud.phase # "idle" =>
              /\ cloud.phase = "sending"
              /\ cloud.image = announced /\ cloud.size = chunkSize
              /\ cloud.todo \subseteq 0 .. FileChunks - 1
              /\ net # {} => cloud.fast
        /\ \A m \in net : m.image = announced /\ m.size = chunkSize /\ m.index \in 0 .. FileChunks - 1

\* Chunks in turn: the cloud has yet to send those from chunkIndex on, the ones before are
\* stored, and no bit of the bitmap says that one is missing.
InTurn ==
    updating # 0 /\ InTransfer /\ ~ cloud.fast =>
        /\ cloud.todo = chunkIndex .. FileChunks - 1
        /\ chunkIndex <= FileChunks
        /\ 0 .. FileChunks - 1 \subseteq bitmap
        /\ \A i \in 0 .. chunkIndex - 1 : Stored(i)

\* After SUCCESS nothing is handled until the device has restarted.
Applied == AppliesComplete /\ (applied # None => session = "closed")

TransferInv ==
    /\ TypeOK
    /\ CloudOK
    /\ OneTransfer
    /\ ReceivedMeansSaved
    /\ InTurn
    /\ Applied
-----------------------------------------------------------------------------
(* Minima and division *)

\* A set of natural numbers has a least member.
LEMMA LeastOfNats ==
    ASSUME NEW S, S \subseteq Nat, S # {}
    PROVE  Min(S) \in S /\ \A y \in S : Min(S) <= y
<1> DEFINE Less == OpToRel(<, Nat)
<1>1. \A x, y \in Nat : y < x => <<y, x>> \in Less
    BY DEF OpToRel
<1>2. IsWellFoundedOn(Less, Nat)
    BY NatLessThanWellFounded
<1> HIDE DEF Less
<1>3. \E x \in S : \A y \in S : ~ (<<y, x>> \in Less)
    BY <1>2, WFMin
<1>4. \E x \in S : \A y \in S : ~ (y < x)
    BY <1>1, <1>3, Zenon
<1>5. \E x \in S : \A y \in S : x <= y
    BY <1>4
<1> QED BY <1>5 DEF Min

LEMMA LongestImage == MaxLength \in Nat \ {0} /\ \A i \in Image : Length[i] <= MaxLength
<1> DEFINE S == {Length[i] : i \in Image}
<1>1. S \subseteq Nat \ {0} /\ \E x \in S : \A y \in S : x >= y
    BY TransferAssumption
<1>2. Max(S) \in S /\ \A y \in S : Max(S) >= y
    BY <1>1 DEF Max
<1>3. \A y \in S : y \in Nat
    BY <1>1
<1> QED BY <1>1, <1>2, <1>3 DEF MaxLength

LEMMA Division ==
    ASSUME NEW a \in Nat, NEW size \in Nat \ {0}
    PROVE  a \div size \in Nat /\ (a \div size) * size <= a /\ a < (a \div size + 1) * size
    BY SMT

\* A file has at least one chunk, and every unit of it is in the chunk its address says.
LEMMA ChunksCover ==
    ASSUME NEW length \in Nat \ {0}, NEW size \in Nat \ {0}
    PROVE  /\ ChunksOf(length, size) \in 1 .. length
           /\ \A a \in 0 .. length - 1 :
                 a \div size \in 0 .. ChunksOf(length, size) - 1
<1> DEFINE n == (length + size - 1) \div size
<1>1. n \in Nat /\ n * size <= length + size - 1 /\ length + size - 1 < (n + 1) * size
    BY Division
<1> HIDE DEF n
<1>2. (n + 1) * size = n * size + size
    BY <1>1
<1>3. n # 0
    BY <1>1, <1>2
<1>4. n <= length
    <2> SUFFICES ASSUME n >= length + 1 PROVE FALSE
        BY <1>1
    <2>1. n * size >= (length + 1) * size
        BY <1>1
    <2>2. (length + 1) * size = length * size + size /\ length * size >= length
        BY SMT
    <2> QED BY <1>1, <2>1, <2>2
<1>5. ASSUME NEW a \in 0 .. length - 1
      PROVE  a \div size \in 0 .. n - 1
    <2> DEFINE q == a \div size
    <2>1. q \in Nat /\ q * size <= a
        BY Division
    <2> HIDE DEF q
    <2> SUFFICES ASSUME q >= n PROVE FALSE
        BY <1>1, <2>1 DEF q
    <2>2. q * size >= n * size
        BY <1>1, <2>1
    <2>3. q * size \in Nat /\ n * size \in Nat
        BY <1>1, <2>1
    <2> QED BY <1>1, <1>2, <2>1, <2>2, <2>3
<1> QED BY <1>1, <1>3, <1>4, <1>5 DEF ChunksOf, n

\* The bitmap has a bit for every chunk.
LEMMA BitsCover ==
    ASSUME NEW length \in Nat \ {0}, NEW size \in Nat \ {0}
    PROVE  0 .. ChunksOf(length, size) - 1 \subseteq Bits(length, size)
<1> DEFINE n == ChunksOf(length, size)
<1>1. n \in Nat
    BY ChunksCover
<1> HIDE DEF n
<1>2. n <= 8 * ((n + 7) \div 8)
    BY <1>1
<1> QED BY <1>1, <1>2 DEF Bits, n

\* A file whose chunks are all stored is complete.
LEMMA AllStored ==
    ASSUME announced \in Image, chunkSize \in ChunkSizes,
           \A i \in 0 .. ChunksOf(Length[announced], chunkSize) - 1 : Stored(i)
    PROVE  \A a \in 0 .. Length[announced] - 1 : saved[a] = <<announced, a>>
<1> SUFFICES ASSUME NEW a \in 0 .. Length[announced] - 1
             PROVE  saved[a] = <<announced, a>>
    OBVIOUS
<1>1. Length[announced] \in Nat \ {0} /\ chunkSize \in Nat \ {0}
    BY TransferAssumption
<1>2. a \in Unit /\ a \in Nat
    BY <1>1, LongestImage DEF Unit
<1>3. a \div chunkSize \in 0 .. ChunksOf(Length[announced], chunkSize) - 1
    BY <1>1, ChunksCover
<1>4. a \in UnitsOf(announced, chunkSize, a \div chunkSize)
    BY <1>1, <1>2, Division DEF UnitsOf
<1> QED BY <1>3, <1>4 DEF Stored

-----------------------------------------------------------------------------
(* The steps of a transfer *)

\* The smaller of two counts; a chunk the cloud sends next.
LEMMA CountStays == CountChunk /\ TypeOK => chunkCount' \in 0 .. CountCap
<1> SUFFICES ASSUME CountChunk, TypeOK PROVE chunkCount' \in 0 .. CountCap
    OBVIOUS
<1> DEFINE S == {chunkCount + 1, CountCap}
<1>1. S \subseteq Nat /\ CountCap \in Nat
    BY TransferAssumption DEF TypeOK, CountCap
<1>2. Min(S) \in S /\ \A y \in S : Min(S) <= y
    BY <1>1, LeastOfNats
<1> QED BY <1>1, <1>2 DEF CountChunk

LEMMA NextIsToDo ==
    ASSUME CloudOK, cloud.todo # {}
    PROVE  NextToSend \in cloud.todo /\ \A i \in cloud.todo : NextToSend <= i
<1>1. cloud.todo \subseteq Nat
    BY LongestImage DEF CloudOK, Unit
<1> QED BY <1>1, LeastOfNats DEF NextToSend

\* Saving a chunk at its own index stores it and leaves what other chunks stored.
LEMMA SaveStores ==
    ASSUME NEW i \in Nat, chunkSize \in ChunkSizes, announced \in Image,
           Save(announced, chunkSize, i, i), announced' = announced, chunkSize' = chunkSize
    PROVE  /\ Stored(i)'
           /\ \A k : Stored(k) => Stored(k)'
<1>1. chunkSize \in Nat \ {0} /\ Unit \subseteq Nat
    BY TransferAssumption, LongestImage DEF Unit
<1>2. \A a \in Unit : i * chunkSize + a - i * chunkSize = a
    BY <1>1
<1>3. saved' = [a \in Unit |-> IF a \in UnitsOf(announced, chunkSize, i)
                               THEN <<announced, a>> ELSE saved[a]]
    BY <1>2 DEF Save
<1>4. \A k : UnitsOf(announced, chunkSize, k) \subseteq Unit
    BY DEF UnitsOf
<1> QED BY <1>3, <1>4 DEF Stored

\* The descriptor of an update in progress.
LEMMA DescriptorOf ==
    ASSUME TransferInv, updating # 0, cloud.phase # "idle" \/ net # {}
    PROVE  /\ fileLength \in Nat \ {0} /\ chunkSize \in Nat \ {0}
           /\ fileLength = Length[announced]
           /\ FileChunks = ChunksOf(Length[announced], chunkSize)
           /\ FileChunks \in 1 .. MaxLength
           /\ 0 .. FileChunks - 1 \subseteq Bits(fileLength, chunkSize)
<1>1. fileLength = Length[announced] /\ announced \in Image /\ chunkSize \in ChunkSizes
    BY DEF TransferInv, OneTransfer
<1>2. fileLength \in Nat \ {0} /\ chunkSize \in Nat \ {0} /\ fileLength <= MaxLength /\ MaxLength \in Nat
    BY <1>1, TransferAssumption, LongestImage
<1>3. FileChunks \in 1 .. fileLength
    BY <1>2, ChunksCover DEF FileChunks
<1> QED BY <1>1, <1>2, <1>3, BitsCover DEF FileChunks

\* The chunk the cloud sends next is the one the device counts next.
LEMMA NextIsCounted ==
    ASSUME TransferInv, updating # 0, SendingInTurn
    PROVE  chunkIndex = NextToSend
<1>1. NextToSend \in cloud.todo /\ \A i \in cloud.todo : NextToSend <= i
    BY NextIsToDo DEF TransferInv, SendingInTurn
<1>2. cloud.todo = chunkIndex .. FileChunks - 1 /\ cloud.todo # {}
    BY DEF TransferInv, InTurn, SendingInTurn
<1>3. chunkIndex \in Nat /\ FileChunks \in Nat
    BY DescriptorOf, LongestImage DEF TransferInv, TypeOK, SendingInTurn, InTransfer
<1>4. \A i \in cloud.todo : i \in Nat /\ chunkIndex <= i
    BY <1>2, <1>3
<1>5. chunkIndex \in cloud.todo
    BY <1>2, <1>3
<1> QED BY <1>1, <1>3, <1>4, <1>5

LEMMA InitTransfer == Init => TransferInv
<1> SUFFICES ASSUME Init PROVE TransferInv
    OBVIOUS
<1> USE LongestImage, TransferAssumption DEF Init
<1>1. TypeOK
    <2>1. cloud.phase = "idle" /\ cloud.todo = {}
        BY DEF Idle
    <2>2. 0 \in 0 .. MaxLength /\ 0 \in 0 .. CountCap
        BY DEF CountCap
    <2>3. chunkSize \in ChunkSizes \cup {0} /\ announced \in Image \cup {None} /\ applied \in Image \cup {None}
        OBVIOUS
    <2>4. updating \in 0 .. 2 /\ ~ (updating # 0) /\ net \subseteq Chunk
        OBVIOUS
    <2>7. flashing \in BOOLEAN
        BY Zenon
    <2>5. fileLength \in 0 .. MaxLength /\ chunkIndex \in 0 .. MaxLength /\ chunkCount \in 0 .. CountCap
        BY <2>2
    <2>6. session \in {"open", "closed"}
        OBVIOUS
    <2> QED BY <2>1, <2>3, <2>4, <2>5, <2>6, <2>7, Zenon DEF TypeOK
<1>2. CloudOK
    BY DEF CloudOK, Idle
<1> QED BY <1>1, <1>2 DEF TransferInv, OneTransfer, ReceivedMeansSaved, InTurn, InTransfer, Idle,
                           Applied, AppliesComplete

LEMMA AnnounceKeeps ==
    ASSUME TransferInv, RefuseUpdate \/ BeginResponseFails
    PROVE  TransferInv'
<1> USE LongestImage, TransferAssumption DEF TransferInv
<1>1. PICK image \in Image :
          /\ Announce(image)
          /\ session' \in {session, "closed"} /\ flashing' \in BOOLEAN
          /\ UNCHANGED <<updating, chunkSize, bitmap, chunkIndex, cloud, announced, saved>>
    BY DEF RefuseUpdate, BeginResponseFails, Bail, TypeOK
<1>2. /\ net = {} /\ net' = net /\ cloud.phase = "idle" /\ applied = None /\ applied' = None
      /\ session = "open" /\ fileLength' = Length[image] /\ chunkCount' = 0
    BY <1>1 DEF Announce, Describe
<1>3. fileLength' \in 0 .. MaxLength /\ chunkCount' \in 0 .. CountCap
    BY <1>2 DEF CountCap
<1>4. TypeOK'
    BY <1>1, <1>2, <1>3 DEF TypeOK
<1>5. CloudOK'
    BY <1>1 DEF CloudOK
<1>6. OneTransfer'
    BY <1>1, <1>2 DEF OneTransfer
<1> QED BY <1>1, <1>2, <1>4, <1>5, <1>6
        DEF ReceivedMeansSaved, InTurn, InTransfer, Applied, AppliesComplete

LEMMA AcceptKeeps ==
    ASSUME TransferInv, AcceptUpdate
    PROVE  TransferInv'
<1> USE LongestImage, TransferAssumption DEF TransferInv
<1>1. PICK image \in Image, size \in ChunkSizes, fast \in BOOLEAN, ready \in BOOLEAN :
          /\ Announce(image)
          /\ chunkIndex' = 0 /\ chunkSize' = size /\ updating' = 1
          /\ bitmap' = ReceivedAtStart(fast, image, size)
          /\ announced' = image
          /\ saved' = [a \in Unit |-> None]
          /\ IF ready
             THEN /\ cloud' = [phase |-> "sending", image |-> image, size |-> size, fast |-> fast,
                               todo |-> 0 .. ChunksOf(Length[image], size) - 1]
                  /\ flashing' = TRUE
                  /\ UNCHANGED session
             ELSE Bail(1) /\ UNCHANGED cloud
    BY Zenon DEF AcceptUpdate
<1>2. /\ net' = {} /\ cloud.phase = "idle" /\ applied' = None
      /\ fileLength' = Length[image] /\ chunkCount' = 0
    BY <1>1 DEF Announce, Describe
<1>3. /\ Length[image] \in Nat \ {0} /\ size \in Nat \ {0} /\ Length[image] <= MaxLength
    OBVIOUS
<1>4. /\ ChunksOf(Length[image], size) \in 1 .. MaxLength
      /\ FileChunks' = ChunksOf(Length[image], size)
      /\ 0 .. ChunksOf(Length[image], size) - 1 \subseteq Bits(Length[image], size)
    <2>1. ChunksOf(Length[image], size) \in 1 .. Length[image]
        BY <1>3, ChunksCover
    <2> QED BY <1>1, <1>2, <1>3, <2>1, BitsCover DEF FileChunks
<1>5. /\ fileLength' \in 0 .. MaxLength /\ chunkCount' \in 0 .. CountCap /\ chunkIndex' \in 0 .. MaxLength
      /\ 0 .. ChunksOf(Length[image], size) - 1 \subseteq Unit
    BY <1>1, <1>2, <1>3, <1>4 DEF CountCap, Unit
<1>6. bitmap' \in SUBSET Bits(Length[image], size)
    BY <1>1 DEF ReceivedAtStart
<1>7. flashing' \in BOOLEAN /\ session' \in {"open", "closed"}
    BY <1>1 DEF TypeOK, Bail
<1>8. \/ cloud' = [phase |-> "sending", image |-> image, size |-> size, fast |-> fast,
                    todo |-> 0 .. ChunksOf(Length[image], size) - 1]
      \/ UNCHANGED cloud
    BY <1>1
<1>9. CloudOK' /\ cloud'.phase \in {"idle", "sending"} /\ cloud'.todo \subseteq Unit
    <2>1. CASE UNCHANGED cloud
        BY <1>2, <2>1 DEF CloudOK
    <2>2. CASE cloud' = [phase |-> "sending", image |-> image, size |-> size, fast |-> fast,
                         todo |-> 0 .. ChunksOf(Length[image], size) - 1]
        BY <1>5, <2>2 DEF CloudOK
    <2> QED BY <1>8, <2>1, <2>2
<1>10. TypeOK'
    BY <1>1, <1>2, <1>5, <1>6, <1>7, <1>9 DEF TypeOK
<1>11. OneTransfer'
    BY <1>1, <1>2, <1>8, <1>4 DEF OneTransfer
<1>12. ReceivedMeansSaved' /\ InTurn'
    BY <1>1, <1>2, <1>3, <1>8, <1>4 DEF ReceivedMeansSaved, InTurn, InTransfer, ReceivedAtStart
<1>13. Applied'
    BY <1>2 DEF Applied, AppliesComplete
<1> QED BY <1>9, <1>10, <1>11, <1>12, <1>13

LEMMA FastChunkKeeps ==
    ASSUME TransferInv, NEW m \in net, NEW valid \in BOOLEAN, HandleFastChunk(m, valid)
    PROVE  TransferInv'
<1> USE DEF TransferInv
<1>1. /\ updating # 0 /\ session = "open" /\ applied = None
      /\ UNCHANGED <<updating, fileLength, chunkSize, flashing, session, cloud, net, announced, applied>>
    BY DEF HandleFastChunk, Applied
<1>2. /\ m.image = announced /\ m.size = chunkSize /\ m.index \in 0 .. FileChunks - 1
      /\ announced \in Image /\ chunkSize \in ChunkSizes
    BY <1>1 DEF OneTransfer
<1>3. /\ FileChunks \in 1 .. MaxLength /\ MaxLength \in Nat
      /\ 0 .. FileChunks - 1 \subseteq Bits(fileLength, chunkSize)
    BY <1>1, DescriptorOf, LongestImage
<1>4. chunkIndex' \in 0 .. MaxLength /\ chunkCount' \in 0 .. CountCap
    BY <1>2, <1>3, CountStays DEF HandleFastChunk
<1>5. /\ \A k : Stored(k) => Stored(k)'
      /\ \/ bitmap' = bitmap
         \/ bitmap' = bitmap \cup {m.index} /\ Stored(m.index)'
    <2>1. CASE valid /\ m.index < MaxChunks
        BY <1>1, <1>2, <1>3, <2>1, SaveStores DEF HandleFastChunk
    <2>2. CASE ~ (valid /\ m.index < MaxChunks)
        BY <1>1, <2>2 DEF HandleFastChunk, Stored
    <2> QED BY <2>1, <2>2
<1>6. TypeOK'
    BY <1>1, <1>2, <1>3, <1>4, <1>5 DEF TypeOK
<1>7. CloudOK' /\ OneTransfer'
    BY <1>1 DEF CloudOK, OneTransfer, FileChunks
<1>8. ReceivedMeansSaved'
    BY <1>1, <1>2, <1>5 DEF ReceivedMeansSaved, OneTransfer, Stored
<1>9. InTurn' /\ Applied'
    BY <1>1 DEF InTurn, InTransfer, OneTransfer, Applied, AppliesComplete
<1> QED BY <1>6, <1>7, <1>8, <1>9

\* A chunk in turn, undamaged or not.  The cloud moves on only if it was undamaged and the
\* session goes on.
LEMMA ChunkKeeps ==
    ASSUME TransferInv, ChunkReceivedOK \/ ChunkReceivedBad \/ ChunkReceivedFails
    PROVE  TransferInv'
<1> USE DEF TransferInv
<1>1. PICK valid \in BOOLEAN :
          /\ HandleChunk(valid)
          /\ \/ valid /\ cloud' = [cloud EXCEPT !.todo = @ \ {NextToSend}] /\ UNCHANGED <<flashing, session>>
             \/ ~ valid /\ UNCHANGED <<cloud, flashing, session>>
             \/ UNCHANGED cloud /\ Bail(updating)
    BY Zenon DEF ChunkReceivedOK, ChunkReceivedBad, ChunkReceivedFails
<1>2. /\ updating # 0 /\ session = "open" /\ applied = None /\ CountChunk
      /\ cloud.phase = "sending" /\ ~ cloud.fast /\ cloud.todo # {}
      /\ UNCHANGED <<updating, fileLength, chunkSize, net, announced, applied>>
    BY <1>1 DEF HandleChunk, SendingInTurn, InTransfer, Applied
<1>3. /\ cloud.image = announced /\ cloud.size = chunkSize /\ announced \in Image /\ chunkSize \in ChunkSizes
      /\ net = {}
    BY <1>2 DEF OneTransfer
<1>4. /\ FileChunks \in 1 .. MaxLength /\ MaxLength \in Nat
      /\ 0 .. FileChunks - 1 \subseteq Bits(fileLength, chunkSize)
    BY <1>2, DescriptorOf, LongestImage
<1>5. /\ cloud.todo = chunkIndex .. FileChunks - 1 /\ chunkIndex <= FileChunks
      /\ 0 .. FileChunks - 1 \subseteq bitmap /\ \A i \in 0 .. chunkIndex - 1 : Stored(i)
    BY <1>2 DEF InTurn, InTransfer
<1>6. NextToSend = chunkIndex /\ chunkIndex \in 0 .. FileChunks - 1
    <2>1. NextToSend = chunkIndex
        BY <1>1, <1>2, NextIsCounted DEF HandleChunk
    <2>2. chunkIndex \in Nat /\ FileChunks \in Nat
        BY <1>4, LongestImage DEF TypeOK
    <2> QED BY <1>2, <1>5, <2>1, <2>2
<1>7. PICK n \in 0 .. FileChunks - 1 : n = chunkIndex
    BY <1>6
<1>8. /\ chunkIndex' = IF valid THEN chunkIndex + 1 ELSE chunkIndex
      /\ bitmap' = bitmap
      /\ valid => Stored(n)'
      /\ \A k : Stored(k) => Stored(k)'
    <2>1. CASE valid
        <3>1. /\ Save(announced, chunkSize, chunkIndex, chunkIndex)
              /\ bitmap' = bitmap \cup {chunkIndex} /\ chunkIndex' = chunkIndex + 1
            BY <1>1, <1>3, <1>6, <2>1 DEF HandleChunk
        <3>2. chunkIndex \in bitmap
            BY <1>5, <1>6
        <3>3. Stored(n)' /\ \A k : Stored(k) => Stored(k)'
            <4>1. /\ n \in Nat /\ announced' = announced /\ chunkSize' = chunkSize
                  /\ Save(announced, chunkSize, n, n)
                BY <1>2, <1>4, <1>7, <3>1
            <4> QED BY <1>3, <4>1, SaveStores
        <3> QED BY <2>1, <3>1, <3>2, <3>3
    <2>2. CASE ~ valid
        BY <1>1, <1>2, <2>2 DEF HandleChunk, Stored
    <2> QED BY <2>1, <2>2
<1>9. /\ cloud'.phase = cloud.phase /\ cloud'.image = cloud.image /\ cloud'.size = cloud.size
      /\ cloud'.fast = cloud.fast /\ cloud'.todo \subseteq cloud.todo
      /\ CloudOK'
    <2>1. CASE UNCHANGED cloud
        BY <2>1 DEF CloudOK
    <2>2. CASE cloud' = [cloud EXCEPT !.todo = @ \ {NextToSend}]
        BY <2>2 DEF CloudOK
    <2> QED BY <1>1, <2>1, <2>2
<1>10. chunkIndex' \in 0 .. MaxLength /\ chunkCount' \in 0 .. CountCap
    BY <1>2, <1>4, <1>6, <1>8, CountStays
<1>11. flashing' \in BOOLEAN /\ session' \in {"open", "closed"}
    BY <1>1 DEF Bail, TypeOK
<1>12. TypeOK'
    BY <1>2, <1>8, <1>9, <1>10, <1>11 DEF TypeOK, Bits
<1>13. OneTransfer'
    BY <1>2, <1>3, <1>9 DEF OneTransfer, FileChunks
<1>14. InTurn'
    <2> SUFFICES ASSUME session' = "open"
                 PROVE  /\ cloud'.todo = chunkIndex' .. FileChunks - 1
                        /\ chunkIndex' <= FileChunks
                        /\ \A i \in 0 .. chunkIndex' - 1 : Stored(i)'
        BY <1>2, <1>5, <1>8 DEF InTurn, InTransfer, FileChunks
    <2>1. CASE valid
        <3>1. cloud'.todo = cloud.todo \ {chunkIndex}
            BY <1>1, <1>6, <2>1 DEF Bail, CloudOK
        <3>2. chunkIndex' = chunkIndex + 1 /\ Stored(n)'
            BY <1>8, <2>1
        <3>3. \A i \in 0 .. chunkIndex' - 1 : i = n \/ i \in 0 .. chunkIndex - 1
            BY <1>4, <1>6, <1>7, <3>2
        <3>4. cloud'.todo = chunkIndex' .. FileChunks - 1 /\ chunkIndex' <= FileChunks
            BY <1>4, <1>5, <1>6, <3>1, <3>2
        <3>5. \A i \in 0 .. chunkIndex' - 1 : Stored(i)'
            BY <1>5, <1>8, <3>2, <3>3
        <3> QED BY <3>4, <3>5
    <2>2. CASE ~ valid
        <3>1. cloud'.todo = cloud.todo
            BY <1>1, <2>2
        <3> QED BY <1>5, <1>8, <2>2, <3>1
    <2> QED BY <2>1, <2>2
<1>15. ReceivedMeansSaved' /\ Applied'
    BY <1>2, <1>9 DEF ReceivedMeansSaved, Applied, AppliesComplete
<1> QED BY <1>9, <1>12, <1>13, <1>14, <1>15

\* Nothing is missing: every chunk is stored, whether the bitmap says so or the count.
LEMMA CompleteKeeps ==
    ASSUME TransferInv, DoneComplete
    PROVE  TransferInv'
<1> USE DEF TransferInv
<1>1. /\ updating # 0 /\ session = "open" /\ cloud.phase = "sending" /\ cloud.todo = {}
      /\ 0 .. FileChunks - 1 \subseteq bitmap
      /\ updating' = 0 /\ flashing' = FALSE /\ session' = "closed" /\ applied' = announced
      /\ cloud' = Idle
      /\ UNCHANGED <<fileLength, chunkSize, bitmap, chunkIndex, chunkCount, net, announced, saved>>
    BY DEF DoneComplete, UpdateDone, InTransfer, NotReceived
<1>2. /\ cloud.image = announced /\ cloud.size = chunkSize /\ announced \in Image /\ chunkSize \in ChunkSizes
      /\ fileLength = Length[announced] /\ FileChunks = ChunksOf(Length[announced], chunkSize)
      /\ FileChunks \in Nat
    BY <1>1, DescriptorOf, LongestImage DEF OneTransfer
<1>3. \A i \in 0 .. FileChunks - 1 : Stored(i)
    <2>1. CASE cloud.fast
        BY <1>1, <1>2, <2>1 DEF ReceivedMeansSaved, Stored
    <2>2. CASE ~ cloud.fast
        <3>1. chunkIndex .. FileChunks - 1 = {} /\ \A i \in 0 .. chunkIndex - 1 : Stored(i)
            BY <1>1, <2>2 DEF InTurn, InTransfer
        <3>2. chunkIndex \in Nat
            BY LongestImage DEF TypeOK
        <3>3. FileChunks <= chunkIndex
            BY <1>2, <3>1, <3>2
        <3> QED BY <1>2, <3>1, <3>2, <3>3
    <2> QED BY <2>1, <2>2
<1>4. Applied'
    <2>1. \A a \in 0 .. Length[announced] - 1 : saved[a] = <<announced, a>>
        BY <1>2, <1>3, AllStored
    <2> QED BY <1>1, <1>2, <2>1 DEF Applied, AppliesComplete
<1>5. cloud'.phase = "idle" /\ cloud'.todo = {}
    BY <1>1 DEF Idle
<1>6. CloudOK'
    BY <1>1, <1>5 DEF CloudOK, Idle
<1>7. flashing' \in BOOLEAN
    BY <1>1, Zenon
<1>8. TypeOK'
    BY <1>1, <1>2, <1>5, <1>7 DEF TypeOK
<1> QED BY <1>1, <1>4, <1>5, <1>6, <1>8 DEF OneTransfer, ReceivedMeansSaved, InTurn, InTransfer

\* Chunks are missing only in a fast transfer, and those asked for are chunks of the file.
LEMMA MissingKeeps ==
    ASSUME TransferInv, DoneMissing
    PROVE  TransferInv'
<1> USE DEF TransferInv
<1>1. /\ updating # 0 /\ InTransfer /\ cloud.phase = "sending" /\ NotReceived # {}
      /\ updating' = 2 /\ chunkCount' = 0 /\ cloud' = [cloud EXCEPT !.todo = Requested]
      /\ UNCHANGED <<fileLength, chunkSize, bitmap, chunkIndex, flashing, session, net, announced, saved, applied>>
    BY DEF DoneMissing, UpdateDone, InTransfer, history
<1>2. cloud.fast
    BY <1>1 DEF InTurn, NotReceived, CloudOK
<1>3. Requested \subseteq 0 .. FileChunks - 1 /\ 0 .. FileChunks - 1 \subseteq Unit
    <2>1. FileChunks \in 1 .. MaxLength
        BY <1>1, DescriptorOf
    <2> QED BY <2>1, LongestImage DEF Requested, NotReceived, Unit
<1>4. /\ cloud'.phase = cloud.phase /\ cloud'.image = cloud.image /\ cloud'.size = cloud.size
      /\ cloud'.fast = cloud.fast /\ cloud'.todo = Requested
      /\ CloudOK'
    BY <1>1, <1>3 DEF CloudOK
<1>5. chunkCount' \in 0 .. CountCap
    BY <1>1, TransferAssumption DEF CountCap
<1>6. TypeOK'
    BY <1>1, <1>3, <1>4, <1>5 DEF TypeOK, Bits
<1>7. OneTransfer'
    BY <1>1, <1>2, <1>3, <1>4 DEF OneTransfer, FileChunks
<1> QED BY <1>1, <1>2, <1>4, <1>6, <1>7
        DEF ReceivedMeansSaved, InTurn, InTransfer, Applied, AppliesComplete

\* The session is lost, in the course of an update or not.
LEMMA LossKeeps ==
    ASSUME TransferInv, DoneFails \/ LoseSession
    PROVE  TransferInv'
<1> USE DEF TransferInv
<1>1. /\ session' = "closed" /\ session = "open"
      /\ updating' \in 0 .. 2 /\ (updating = 0 <=> updating' = 0)
      /\ chunkCount' \in 0 .. CountCap
      /\ UNCHANGED <<fileLength, chunkSize, bitmap, chunkIndex, cloud, net, announced, saved, applied>>
    <2>1. CASE LoseSession
        BY <2>1 DEF LoseSession, deviceVars, history, TypeOK
    <2>2. CASE DoneFails
        <3>1. /\ session' = "closed" /\ session = "open"
              /\ UNCHANGED <<fileLength, chunkSize, bitmap, chunkIndex, cloud, net, announced, saved, applied>>
            BY <2>2 DEF DoneFails, Bail, UpdateDone, InTransfer, history
        <3>2. \/ updating' = updating /\ chunkCount' = chunkCount
              \/ updating # 0 /\ updating' = 2 /\ chunkCount' = 0
            BY <2>2 DEF DoneFails
        <3>3. 0 \in 0 .. CountCap /\ updating \in 0 .. 2 /\ chunkCount \in 0 .. CountCap
            BY TransferAssumption DEF TypeOK, CountCap
        <3> QED BY <3>1, <3>2, <3>3
    <2> QED BY <2>1, <2>2
<1>2. flashing' \in BOOLEAN
    BY DEF DoneFails, LoseSession, Bail, deviceVars, TypeOK
<1>3. TypeOK'
    BY <1>1, <1>2 DEF TypeOK, Bits
<1> QED BY <1>1, <1>3 DEF CloudOK, OneTransfer, FileChunks, ReceivedMeansSaved, InTurn, InTransfer,
                          Applied, AppliesComplete

\* Steps after which no update is under way.
LEMMA NoUpdateKeeps ==
    ASSUME TransferInv, DoneWhenNotUpdating \/ Begin
    PROVE  TransferInv'
<1> USE DEF TransferInv
<1>1. /\ updating' = 0 /\ UNCHANGED <<announced, saved>>
      /\ applied' \in {applied, None} /\ (session' = "open" => applied' = None)
      /\ fileLength' = fileLength \/ fileLength' = 0
      /\ net' = net \/ net' = {}
    BY DEF DoneWhenNotUpdating, UpdateDone, InTransfer, Begin, history, Applied
<1>2. /\ chunkSize' = chunkSize \/ chunkSize' = 0
      /\ chunkIndex' = chunkIndex \/ chunkIndex' = 0
      /\ chunkCount' = chunkCount \/ chunkCount' = 0
      /\ session' \in {"open", "closed"}
    BY DEF DoneWhenNotUpdating, Begin, TypeOK
<1>3. flashing' \in BOOLEAN
    BY Zenon DEF DoneWhenNotUpdating, Begin, TypeOK
<1>4. cloud' = cloud \/ cloud' = Idle \/ cloud' = [cloud EXCEPT !.phase = "waiting"]
    BY DEF DoneWhenNotUpdating, Begin
<1>5. CloudOK' /\ cloud'.todo \subseteq Unit /\ cloud'.phase \in {"idle", "sending", "waiting"}
    <2>1. CASE cloud' = cloud
        BY <2>1 DEF CloudOK
    <2>2. CASE cloud' = Idle
        BY <2>2 DEF CloudOK, Idle
    <2>3. CASE cloud' = [cloud EXCEPT !.phase = "waiting"]
        BY <2>3 DEF CloudOK
    <2> QED BY <1>4, <2>1, <2>2, <2>3
<1>6. /\ fileLength' \in 0 .. MaxLength /\ chunkIndex' \in 0 .. MaxLength /\ chunkCount' \in 0 .. CountCap
      /\ chunkSize' \in ChunkSizes \cup {0}
    BY <1>1, <1>2, LongestImage, TransferAssumption DEF TypeOK, CountCap
<1>7. TypeOK'
    BY <1>1, <1>2, <1>3, <1>5, <1>6 DEF TypeOK
<1>8. Applied'
    <2>1. applied' # None => UNCHANGED <<applied, fileLength>>
        BY DEF DoneWhenNotUpdating, Begin, history
    <2>2. applied' # None => session' = "closed"
        BY <1>1, <1>2
    <2> QED BY <1>1, <2>1, <2>2 DEF Applied, AppliesComplete
<1> QED BY <1>1, <1>5, <1>7, <1>8 DEF OneTransfer, ReceivedMeansSaved, InTurn

\* Steps of the cloud and of the network, and chunks that are dropped.
LEMMA CloudKeeps ==
    ASSUME TransferInv, SendFastChunk \/ Abandon \/ \E m \in net : DropFastChunk(m) \/ Lose(m)
    PROVE  TransferInv'
<1> USE DEF TransferInv
<1>1. CASE SendFastChunk
    <2> DEFINE m == [image |-> cloud.image, size |-> cloud.size, index |-> NextToSend]
    <2>1. /\ cloud.phase = "sending" /\ cloud.fast /\ NextToSend \in cloud.todo
          /\ net' = net \cup {m} /\ cloud' = [cloud EXCEPT !.todo = @ \ {NextToSend}]
          /\ UNCHANGED <<updating, fileLength, chunkSize, bitmap, chunkIndex, chunkCount, flashing,
                         session, announced, saved, applied>>
        BY <1>1, NextIsToDo DEF SendFastChunk, InTransfer, deviceVars, history
    <2>2. /\ cloud'.phase = cloud.phase /\ cloud'.image = cloud.image /\ cloud'.size = cloud.size
          /\ cloud'.fast = cloud.fast /\ cloud'.todo \subseteq cloud.todo
          /\ CloudOK'
        BY <2>1 DEF CloudOK
    <2>3. m \in Chunk
        BY <2>1 DEF CloudOK, Chunk, Unit
    <2>4. TypeOK'
        BY <2>1, <2>2, <2>3 DEF TypeOK, Bits
    <2>5. OneTransfer'
        BY <2>1, <2>2 DEF OneTransfer, FileChunks
    <2> QED BY <2>1, <2>2, <2>4, <2>5
            DEF ReceivedMeansSaved, InTurn, InTransfer, Applied, AppliesComplete
<1>2. CASE Abandon
    <2>1. /\ cloud'.phase = "idle" /\ cloud'.todo = {} /\ cloud.phase # "idle"
          /\ UNCHANGED <<updating, fileLength, chunkSize, bitmap, chunkIndex, chunkCount, flashing,
                         session, net, announced, saved, applied>>
          /\ CloudOK'
        BY <1>2 DEF Abandon, deviceVars, history, Idle, CloudOK
    <2>2. TypeOK'
        BY <2>1 DEF TypeOK
    <2> QED BY <2>1, <2>2
            DEF OneTransfer, FileChunks, ReceivedMeansSaved, InTurn, InTransfer, Applied, AppliesComplete
<1>3. ASSUME NEW m \in net, DropFastChunk(m) PROVE TransferInv'
    <2>1. /\ updating = 0 /\ chunkCount' \in 0 .. CountCap
          /\ UNCHANGED <<updating, fileLength, chunkSize, bitmap, chunkIndex, flashing, session, cloud,
                         net, announced, saved, applied>>
        BY <1>3, CountStays DEF DropFastChunk, history
    <2>2. TypeOK'
        BY <2>1 DEF TypeOK
    <2> QED BY <2>1, <2>2
            DEF CloudOK, OneTransfer, ReceivedMeansSaved, InTurn, Applied, AppliesComplete
<1>4. ASSUME NEW m \in net, Lose(m) PROVE TransferInv'
    <2>1. /\ net' \subseteq net
          /\ UNCHANGED <<updating, fileLength, chunkSize, bitmap, chunkIndex, chunkCount, flashing,
                         session, cloud, announced, saved, applied>>
        BY <1>4 DEF Lose, deviceVars, history
    <2>2. TypeOK'
        BY <2>1 DEF TypeOK, Bits
    <2> QED BY <2>1, <2>2
            DEF CloudOK, OneTransfer, FileChunks, ReceivedMeansSaved, InTurn, InTransfer, Applied, AppliesComplete
<1> QED BY <1>1, <1>2, <1>3, <1>4

LEMMA StutterKeeps ==
    ASSUME TransferInv, UNCHANGED vars
    PROVE  TransferInv'
BY DEF TransferInv, vars, deviceVars, history, TypeOK, Bits, CloudOK, OneTransfer, FileChunks,
       ReceivedMeansSaved, InTurn, InTransfer, Stored, Applied, AppliesComplete

LEMMA TransferInvariant == Spec => []TransferInv
<1>1. TransferInv /\ [Next]_vars => TransferInv'
    BY AnnounceKeeps, AcceptKeeps, FastChunkKeeps, ChunkKeeps, CompleteKeeps, MissingKeeps,
       LossKeeps, NoUpdateKeeps, CloudKeeps, StutterKeeps DEF Next
<1> QED BY <1>1, InitTransfer, PTL DEF Spec
-----------------------------------------------------------------------------
(* Theorems *)

\* The bitmap of an update under way has no bits but those of its file, an index is never beyond
\* the longest file, and the counter of chunks never beyond its cap (chunked_transfer.cpp).
THEOREM TransferTypeCorrect == Spec => []TypeOK
BY TransferInvariant, PTL DEF TransferInv

\* handle_update_done() applies a file only if every unit of it was handed to storage at its
\* place since the update began, whichever chunks were lost, repeated or reordered and
\* wherever an earlier update stopped.
THEOREM AppliedIsComplete == Spec => []AppliesComplete
BY TransferInvariant, PTL DEF TransferInv, Applied

\* A bit of the bitmap set in a fast transfer means that the chunk was handed to storage.
THEOREM ReceivedIsSaved == Spec => []ReceivedMeansSaved
BY TransferInvariant, PTL DEF TransferInv

\* When chunks come in turn, the index that handle_chunk() counts is that of the chunk sent.
THEOREM CountsStayEqual == Spec => []CountsAgree
<1>1. TransferInv => CountsAgree
    BY NextIsCounted DEF CountsAgree
<1> QED BY <1>1, TransferInvariant, PTL
-----------------------------------------------------------------------------
(* What an update promises *)

\* Nothing that matters to the update changes.
LEMMA NothingMoves ==
    ASSUME updating = 0 <=> updating' = 0, UNCHANGED <<announced, saved, applied>>
    PROVE  UNCHANGED Update!vars
BY DEF Update!vars, UpdatePhase, MissingUnits, Missing

\* Saving a chunk at its own index spoils no unit that is in place.
LEMMA SaveSpoilsNothing ==
    ASSUME NEW i \in Nat, chunkSize \in ChunkSizes, announced \in Image,
           Save(announced, chunkSize, i, i), announced' = announced
    PROVE  Missing(announced)' \subseteq Missing(announced)
<1>1. chunkSize \in Nat \ {0} /\ Unit \subseteq Nat
    BY TransferAssumption, LongestImage DEF Unit
<1>2. \A a \in Unit : i * chunkSize + a - i * chunkSize = a
    BY <1>1
<1>3. saved' = [a \in Unit |-> IF a \in UnitsOf(announced, chunkSize, i)
                               THEN <<announced, a>> ELSE saved[a]]
    BY <1>2 DEF Save
<1>4. \A a \in 0 .. Length[announced] - 1 : a \in Unit
    BY TransferAssumption, LongestImage DEF Unit
<1> QED BY <1>3, <1>4 DEF Missing

\* A chunk that is saved, or not, while nothing else about the update changes.
LEMMA SavingStores ==
    ASSUME TransferInv, updating # 0, applied = None, UNCHANGED <<updating, announced, applied>>,
           UNCHANGED saved \/ \E i \in Nat : Save(announced, chunkSize, i, i)
    PROVE  Update!Next \/ UNCHANGED Update!vars
<1>1. Missing(announced)' \subseteq Missing(announced)
    BY SaveSpoilsNothing DEF Missing, TransferInv, OneTransfer
<1>2. UpdatePhase = "receiving" /\ UpdatePhase' = "receiving"
    BY DEF UpdatePhase
<1> QED BY <1>1, <1>2 DEF Update!Next, Update!Store, MissingUnits

\* UpdateBegin: everything is missing.
LEMMA AcceptBegins ==
    ASSUME TransferInv, AcceptUpdate
    PROVE  Update!Next
<1>1. PICK image \in Image :
          /\ applied = None /\ applied' = None /\ updating' = 1
          /\ announced' = image /\ saved' = [a \in Unit |-> None]
    BY DEF AcceptUpdate, Announce
<1>2. UpdatePhase \in {"idle", "receiving"} /\ UpdatePhase' = "receiving"
    BY <1>1 DEF UpdatePhase
<1>3. \A a \in 0 .. Length[image] - 1 : a \in Unit
    BY TransferAssumption, LongestImage DEF Unit
<1>4. Missing(announced)' = 0 .. Length[image] - 1
    BY <1>1, <1>3, NothingAssumption DEF Missing
<1> QED BY <1>1, <1>2, <1>4 DEF Update!Next, Update!Begin, MissingUnits

\* UpdateDone, when nothing is missing: the file is applied.
LEMMA CompleteInstalls ==
    ASSUME TransferInv, DoneComplete
    PROVE  Update!Next
<1>1. /\ updating # 0 /\ applied = None /\ announced \in Image
      /\ applied' = announced /\ UNCHANGED <<announced, saved>>
    BY DEF DoneComplete, UpdateDone, InTransfer, TransferInv, Applied, OneTransfer
<1>2. AppliesComplete'
    BY CompleteKeeps DEF TransferInv, Applied
<1>3. applied' # None
    BY <1>1, TransferAssumption
<1>4. Missing(announced) = {} /\ Missing(applied)' = {}
    BY <1>1, <1>2, <1>3 DEF AppliesComplete, Missing
<1>5. UpdatePhase = "receiving" /\ UpdatePhase' = "installing"
    BY <1>1, <1>3 DEF UpdatePhase
<1> QED BY <1>1, <1>3, <1>4, <1>5 DEF Update!Next, Update!Install, MissingUnits

\* A chunk is saved where it belongs, whether it carries its index or is counted.
LEMMA ChunkStores ==
    ASSUME TransferInv,
           \/ \E m \in net, valid \in BOOLEAN : HandleFastChunk(m, valid)
           \/ ChunkReceivedOK \/ ChunkReceivedBad \/ ChunkReceivedFails
    PROVE  Update!Next \/ UNCHANGED Update!vars
<1>1. ASSUME NEW m \in net, NEW valid \in BOOLEAN, HandleFastChunk(m, valid)
      PROVE  Update!Next \/ UNCHANGED Update!vars
    <2>1. updating # 0 /\ applied = None /\ UNCHANGED <<updating, announced, applied>>
        BY <1>1 DEF HandleFastChunk, TransferInv, Applied
    <2>2. m.index \in Nat /\ m.image = announced /\ m.size = chunkSize
        BY <2>1, DescriptorOf, LongestImage DEF TransferInv, OneTransfer
    <2> QED BY <1>1, <2>1, <2>2, SavingStores DEF HandleFastChunk
<1>2. ASSUME NEW valid \in BOOLEAN, HandleChunk(valid)
      PROVE  Update!Next \/ UNCHANGED Update!vars
    <2>1. /\ updating # 0 /\ SendingInTurn /\ applied = None
          /\ UNCHANGED <<updating, announced, applied>>
        BY <1>2 DEF HandleChunk, SendingInTurn, InTransfer, TransferInv, Applied
    <2>2. chunkIndex \in Nat /\ NextToSend = chunkIndex
        BY <2>1, NextIsCounted, LongestImage DEF TransferInv, TypeOK
    <2>3. cloud.image = announced /\ cloud.size = chunkSize
        BY <2>1 DEF TransferInv, OneTransfer, SendingInTurn, InTransfer
    <2>4. UNCHANGED saved \/ Save(announced, chunkSize, chunkIndex, chunkIndex)
        BY <1>2, <2>2, <2>3 DEF HandleChunk
    <2> QED BY <2>1, <2>2, <2>4, SavingStores
<1> QED BY <1>1, <1>2 DEF ChunkReceivedOK, ChunkReceivedBad, ChunkReceivedFails

\* A new session: an update under way is over, and one that was applied is installed.
LEMMA BeginStops ==
    ASSUME TransferInv, Begin
    PROVE  Update!Next \/ UNCHANGED Update!vars
<1>1. applied' = None /\ updating' = 0
    BY DEF Begin
<1>2. UpdatePhase' = "idle" /\ MissingUnits' = {}
    BY <1>1 DEF UpdatePhase, MissingUnits
<1>3. CASE UpdatePhase = "idle"
    BY <1>2, <1>3 DEF Update!vars, UpdatePhase, MissingUnits
<1>4. CASE UpdatePhase # "idle"
    BY <1>2, <1>4 DEF Update!Next, Update!Stop
<1> QED BY <1>3, <1>4

\* Every other step leaves the update as it is.
LEMMA OthersLeaveIt ==
    ASSUME TransferInv,
           \/ RefuseUpdate \/ BeginResponseFails
           \/ \E m \in net : DropFastChunk(m) \/ Lose(m)
           \/ DoneWhenNotUpdating \/ DoneMissing \/ DoneFails
           \/ LoseSession \/ SendFastChunk \/ Abandon \/ UNCHANGED vars
    PROVE  UNCHANGED Update!vars
<1>1. UNCHANGED <<announced, saved, applied>>
    BY DEF RefuseUpdate, BeginResponseFails, Announce, DropFastChunk, Lose, DoneWhenNotUpdating,
           DoneMissing, DoneFails, LoseSession, SendFastChunk, Abandon, history, vars
<1>2. updating = 0 <=> updating' = 0
    <2>1. CASE RefuseUpdate \/ BeginResponseFails \/ \E m \in net : DropFastChunk(m) \/ Lose(m)
        <3>1. UNCHANGED updating
            BY <2>1 DEF RefuseUpdate, BeginResponseFails, DropFastChunk, Lose, deviceVars
        <3> QED BY <3>1
    <2>2. CASE DoneWhenNotUpdating
        BY <2>2 DEF DoneWhenNotUpdating
    <2>3. CASE DoneMissing
        BY <2>3 DEF DoneMissing
    <2>4. CASE DoneFails
        <3>1. \/ UNCHANGED <<updating, chunkCount>>
              \/ updating # 0 /\ updating' = 2
            BY <2>4, Zenon DEF DoneFails
        <3> QED BY <3>1
    <2>5. CASE LoseSession \/ SendFastChunk \/ Abandon \/ UNCHANGED vars
        <3>1. UNCHANGED updating
            BY <2>5 DEF LoseSession, SendFastChunk, Abandon, deviceVars, vars
        <3> QED BY <3>1
    <2> QED BY <2>1, <2>2, <2>3, <2>4, <2>5
<1> QED BY <1>1, <1>2, NothingMoves

\* A transfer implements what an update promises, for files and chunks of every size and whatever
\* the network does with them (chunked_transfer.cpp): a unit in place stays in place, and
\* handle_update_done() goes from receiving to installing only when no unit is missing.
THEOREM UpdateIsImplemented == Spec => ImplementsUpdate
<1>1. Init => Update!Init
    BY DEF Init, Update!Init, UpdatePhase, MissingUnits
<1>2. TransferInv /\ [Next]_vars => [Update!Next]_(Update!vars)
    BY AcceptBegins, CompleteInstalls, ChunkStores, BeginStops, OthersLeaveIt DEF Next
<1> QED BY <1>1, <1>2, TransferInvariant, PTL DEF Spec, ImplementsUpdate, Update!Spec

=============================================================================
