-------------------------- MODULE ChunkedTransfer --------------------------
(***************************************************************************)
(* ChunkedTransfer (communication/src/chunked_transfer.cpp): the cloud     *)
(* transfers a file to the device in chunks.  In fast mode chunks are      *)
(* non-confirmable, carry their index and may be lost, repeated and        *)
(* reordered; a bitmap records which arrived and the device asks for the   *)
(* missing ones when the cloud says it is done.  Otherwise chunks come one *)
(* at a time and the device counts them.                                   *)
(*                                                                         *)
(* Confirmable messages go through CoAPReliableChannel: each is handled    *)
(* once, or the session is lost with it, so a step here is a handler       *)
(* together with the exchange that triggers it.                            *)
(***************************************************************************)
EXTENDS Naturals, FiniteSets, FiniteSetsExt

CONSTANTS
    Image,              \* files the cloud may send
    Length,             \* of each image, in units
    ChunkSizes,         \* in units
    MaxChunks,          \* MAX_CHUNKS
    MissedToSend,       \* MISSED_CHUNKS_TO_SEND
    MinimumIncrease,    \* MINIMUM_CHUNK_INCREASE
    None

ASSUME TransferAssumption ==
    /\ Length \in [Image -> Nat \ {0}]
    /\ ChunkSizes \subseteq Nat \ {0}
    /\ MaxChunks \in Nat \ {0} /\ MissedToSend \in Nat \ {0}
    /\ MinimumIncrease \in Nat \ {0}
    /\ None \notin Image
    /\ \E longest \in Image : \A i \in Image : Length[i] <= Length[longest]

MaxLength == Max({Length[i] : i \in Image})
Unit == 0 .. MaxLength - 1

\* Nothing is not mistaken for something in storage.
ASSUME NothingAssumption == \A i \in Image, a \in Unit : <<i, a>> # None

VARIABLES
    updating,     \* 0, 1, or 2 when missing chunks were asked for
    fileLength,   \* file.file_length
    chunkSize,    \* saved when an update is accepted
    bitmap,       \* set of the bits that are 1, None for nullptr
    chunkIndex,   \* chunk_index
    chunkCount,   \* chunk_count, chunks since UpdateBegin or UpdateDone
    flashing,     \* SPARK_FLASH_UPDATE
    session,
    cloud,        \* the cloud's side of the transfer
    net,          \* chunks in flight
    \* history
    announced,    \* image of the update that was accepted
    saved,        \* what was handed to save_firmware_chunk since then, by address
    applied       \* image passed to finish_firmware_update with SUCCESS

deviceVars == <<updating, fileLength, chunkSize, bitmap, chunkIndex, chunkCount, flashing>>
history == <<announced, saved, applied>>
vars == <<deviceVars, session, cloud, net, history>>

ChunksOf(length, size) == IF size = 0 THEN 0 ELSE (length + size - 1) \div size

\* file.chunk_count(chunk_size)
FileChunks == ChunksOf(fileLength, chunkSize)

\* Mutant: the size of the bitmap in bytes is rounded down.
BitsRoundedDown(length, size) == 0 .. 8 * (ChunksOf(length, size) \div 8) - 1

Bits(length, size) == 0 .. 8 * ((ChunksOf(length, size) + 7) \div 8) - 1

\* Number of chunks beyond which chunk_count no longer makes a difference.
CountCap == MissedToSend

Chunk == [image : Image, size : ChunkSizes, index : 0 .. MaxLength - 1]

Idle == [phase |-> "idle", image |-> None, size |-> 0, fast |-> FALSE, todo |-> {}]

TypeOK ==
    /\ updating \in 0 .. 2
    /\ fileLength \in 0 .. MaxLength
    /\ chunkSize \in ChunkSizes \cup {0}
    /\ updating # 0 /\ cloud.phase = "sending" => bitmap \in SUBSET Bits(fileLength, chunkSize)
    /\ chunkIndex \in 0 .. MaxLength
    /\ chunkCount \in 0 .. CountCap
    /\ flashing \in BOOLEAN
    /\ session \in {"open", "closed"}
    /\ cloud.phase \in {"idle", "sending", "waiting"}
    /\ cloud.todo \subseteq Unit
    /\ net \subseteq Chunk
    /\ announced \in Image \cup {None}
    /\ applied \in Image \cup {None}

Init ==
    /\ updating = 0
    /\ fileLength = 0 /\ chunkSize = 0 /\ bitmap = None
    /\ chunkIndex = 0 /\ chunkCount = 0
    /\ flashing = FALSE
    /\ session = "open"
    /\ cloud = Idle
    /\ net = {}
    /\ announced = None
    /\ saved = [a \in Unit |-> None]
    /\ applied = None

\* An error returned to the event loop: ChunkedTransfer::cancel() ends the
\* update for the system but leaves `updating' set until the next begin().
Bail(nowUpdating) ==
    /\ session' = "closed"
    /\ flashing' = IF nowUpdating # 0 THEN FALSE ELSE flashing
-----------------------------------------------------------------------------
(* handle_update_begin *)

\* The descriptor is overwritten before anything is checked.  Not modelled: an UpdateBegin
\* without one, for which the device assumes a file as long as its storage.
Describe(image) ==
    /\ fileLength' = Length[image]
    /\ chunkCount' = 0

Announce(image) ==
    /\ session = "open"
    /\ cloud.phase = "idle"
    /\ applied = None
    \* no chunk of an earlier transfer is still in flight
    /\ net = {}
    /\ Describe(image)
    /\ UNCHANGED <<net, applied>>

\* Too many chunks, or the application has disabled updates.  The second is
\* noticed only after the first response, and the cloud is told nothing more.
RefuseUpdate ==
    \E image \in Image :
        /\ Announce(image)
        /\ UNCHANGED <<updating, chunkSize, bitmap, chunkIndex, flashing, session, cloud,
                       announced, saved>>

BeginResponseFails ==
    \E image \in Image :
        /\ Announce(image)
        /\ Bail(updating)
        /\ UNCHANGED <<updating, chunkSize, bitmap, chunkIndex, cloud, announced, saved>>

\* Mutant: the bitmap of the previous update is kept.
ReceivedAtStartKept(fast, image, size) ==
    IF bitmap # None THEN bitmap \cap Bits(Length[image], size)
    ELSE IF fast THEN {} ELSE Bits(Length[image], size)

ReceivedAtStart(fast, image, size) == IF fast THEN {} ELSE Bits(Length[image], size)

\* UpdateReady is sent synchronously; `ready' is whether it was acknowledged.
AcceptUpdate ==
    \E image \in Image, size \in ChunkSizes, fast \in BOOLEAN, ready \in BOOLEAN :
        /\ ChunksOf(Length[image], size) < MaxChunks
        /\ Announce(image)
        /\ chunkIndex' = 0
        /\ chunkSize' = size
        /\ updating' = 1
        /\ bitmap' = ReceivedAtStart(fast, image, size)
        /\ announced' = image
        /\ saved' = [a \in Unit |-> None]
        /\ IF ready
           THEN /\ cloud' = [phase |-> "sending", image |-> image, size |-> size, fast |-> fast,
                             todo |-> 0 .. ChunksOf(Length[image], size) - 1]
                /\ flashing' = TRUE
                /\ UNCHANGED session
           ELSE Bail(1) /\ UNCHANGED cloud
-----------------------------------------------------------------------------
(* handle_chunk *)

CountChunk == chunkCount' = Min({chunkCount + 1, CountCap})

\* The units of chunk i of an image, by their place in the file.
UnitsOf(image, size, i) == {a \in Unit : i * size <= a /\ a < (i + 1) * size /\ a < Length[image]}

\* Mutant: the index is incremented first.
SaveAfterIncrement(image, size, i, index) ==
    saved' = [a \in Unit |->
                 IF i * size + a - (index + 1) * chunkSize \in UnitsOf(image, size, i)
                 THEN <<image, i * size + a - (index + 1) * chunkSize>> ELSE saved[a]]

\* save_firmware_chunk(): the units are written from chunk_index * chunk_size
\* on.  Its result is ignored.
Save(image, size, i, index) ==
    saved' = [a \in Unit |->
                 IF i * size + a - index * chunkSize \in UnitsOf(image, size, i)
                 THEN <<image, i * size + a - index * chunkSize>> ELSE saved[a]]

\* A chunk of a fast transfer.  The cloud is told nothing of one whose index or checksum is
\* wrong: it will be asked for again.
HandleFastChunk(m, valid) ==
    /\ session = "open" /\ updating # 0
    /\ CountChunk
    /\ IF valid /\ m.index < MaxChunks
       THEN /\ Save(m.image, m.size, m.index, m.index)
            /\ bitmap' = bitmap \cup {m.index}
            /\ chunkIndex' = m.index + 1
       ELSE chunkIndex' = m.index /\ UNCHANGED <<saved, bitmap>>
    /\ UNCHANGED <<updating, fileLength, chunkSize, flashing, session, cloud, net, announced, applied>>

DropFastChunk(m) ==
    /\ session = "open" /\ updating = 0
    /\ CountChunk
    /\ UNCHANGED <<updating, fileLength, chunkSize, bitmap, chunkIndex, flashing, session, cloud,
                   net, history>>

NextToSend == Min(cloud.todo)

InTransfer == session = "open" /\ cloud.phase = "sending"

SendingInTurn == InTransfer /\ ~ cloud.fast /\ cloud.todo # {}

\* A chunk sent in turn, acknowledged and reported with ChunkReceived.  The
\* checksum of a damaged one does not match.  The index counted here is that of
\* the cloud (CountsAgree), hence below MAX_CHUNKS.
HandleChunk(valid) ==
    /\ SendingInTurn /\ updating # 0
    /\ CountChunk
    /\ IF valid
       THEN /\ Save(cloud.image, cloud.size, NextToSend, chunkIndex)
            /\ bitmap' = bitmap \cup {chunkIndex}
            /\ chunkIndex' = chunkIndex + 1
       ELSE UNCHANGED <<saved, bitmap, chunkIndex>>
    /\ UNCHANGED <<updating, fileLength, chunkSize, net, announced, applied>>

ChunkReceivedOK ==
    /\ HandleChunk(TRUE)
    /\ cloud' = [cloud EXCEPT !.todo = @ \ {NextToSend}]
    /\ UNCHANGED <<flashing, session>>

ChunkReceivedBad == HandleChunk(FALSE) /\ UNCHANGED <<cloud, flashing, session>>

\* ChunkReceived cannot be sent.
ChunkReceivedFails == \E valid \in BOOLEAN : HandleChunk(valid) /\ Bail(updating) /\ UNCHANGED cloud
-----------------------------------------------------------------------------
(* handle_update_done *)

\* Mutant: the last chunk is not looked at.
NotReceivedButLast == (0 .. FileChunks - 2) \ bitmap

\* What next_chunk_missing finds.
NotReceived == (0 .. FileChunks - 1) \ bitmap

\* After reset() the bitmap is a null pointer: if there is a file at all, the
\* bits are whatever is stored at address 0.
MissingAnswers ==
    IF FileChunks = 0 THEN {FALSE}
    ELSE IF bitmap = None THEN BOOLEAN
    ELSE {NotReceived # {}}

\* Chunks the device asks for: the first ones missing, as many as arrived in
\* the last flight and some more.
ResendCount ==
    LET increase == Max({chunkCount \div 5, MinimumIncrease})
    IN  Min({chunkCount + increase, MissedToSend})

\* Mutant: as many as arrived in the last flight and no more.
RequestedNoGrowth == {i \in NotReceived : Cardinality({j \in NotReceived : j < i}) < chunkCount}

Requested == {i \in NotReceived : Cardinality({j \in NotReceived : j < i}) < ResendCount}

UpdateDone == InTransfer /\ cloud.todo = {}

\* Not updating: the answer is worked out all the same and nothing follows it.
DoneWhenNotUpdating ==
    /\ UpdateDone /\ updating = 0
    /\ \E missing \in MissingAnswers :
          /\ cloud' = IF missing THEN [cloud EXCEPT !.phase = "waiting"] ELSE Idle
          \* notify_update_done() validates the file before it answers OK
          /\ flashing' = IF missing THEN flashing ELSE FALSE
    /\ UNCHANGED <<updating, fileLength, chunkSize, bitmap, chunkIndex, chunkCount, session, net,
                   history>>

\* Nothing is missing: the update is applied and the device disconnects.
DoneComplete ==
    /\ UpdateDone /\ updating # 0
    /\ NotReceived = {}
    /\ updating' = 0
    /\ flashing' = FALSE
    /\ session' = "closed"
    /\ applied' = announced
    /\ cloud' = Idle
    /\ UNCHANGED <<fileLength, chunkSize, bitmap, chunkIndex, chunkCount, net, announced, saved>>

DoneMissing ==
    /\ UpdateDone /\ updating # 0
    /\ NotReceived # {}
    /\ updating' = 2
    /\ chunkCount' = 0
    /\ cloud' = [cloud EXCEPT !.todo = Requested]
    /\ UNCHANGED <<fileLength, chunkSize, bitmap, chunkIndex, flashing, session, net, history>>

\* The answer cannot be sent, or the request for missing chunks is not
\* acknowledged.
DoneFails ==
    /\ UpdateDone
    /\ \/ UNCHANGED <<updating, chunkCount>>
       \/ updating # 0 /\ NotReceived # {} /\ updating' = 2 /\ chunkCount' = 0
    /\ Bail(updating)
    /\ UNCHANGED <<fileLength, chunkSize, bitmap, chunkIndex, cloud, net, history>>
-----------------------------------------------------------------------------
(* Sessions *)

\* The session is lost for a reason of another part of the system.
LoseSession ==
    /\ session = "open"
    /\ session' = "closed"
    /\ UNCHANGED <<deviceVars, cloud, net, history>>

\* Protocol::begin() resets the transfer.  After SUCCESS the device restarts.
\* A resumed session finds the cloud and the network as they were.
Begin ==
    /\ session = "closed"
    /\ session' = "open"
    /\ updating' = 0
    /\ bitmap' = None
    /\ IF applied # None
       THEN /\ fileLength' = 0 /\ chunkSize' = 0 /\ chunkIndex' = 0 /\ chunkCount' = 0
            /\ applied' = None
       ELSE UNCHANGED <<fileLength, chunkSize, chunkIndex, chunkCount, applied>>
    /\ \/ applied = None /\ UNCHANGED <<cloud, net>>
       \/ cloud' = Idle /\ net' = {}
    /\ UNCHANGED <<flashing, announced, saved>>
-----------------------------------------------------------------------------
(* The cloud and the network *)

SendFastChunk ==
    /\ InTransfer /\ cloud.fast /\ cloud.todo # {}
    /\ net' = net \cup {[image |-> cloud.image, size |-> cloud.size, index |-> NextToSend]}
    /\ cloud' = [cloud EXCEPT !.todo = @ \ {NextToSend}]
    /\ UNCHANGED <<deviceVars, session, history>>

Abandon ==
    /\ cloud.phase # "idle"
    /\ cloud' = Idle
    /\ UNCHANGED <<deviceVars, session, net, history>>

Lose(m) == net' = net \ {m} /\ UNCHANGED <<deviceVars, session, cloud, history>>

Next ==
    \/ RefuseUpdate \/ BeginResponseFails \/ AcceptUpdate
    \/ \E m \in net : DropFastChunk(m) \/ Lose(m) \/ \E valid \in BOOLEAN : HandleFastChunk(m, valid)
    \/ ChunkReceivedOK \/ ChunkReceivedBad \/ ChunkReceivedFails
    \/ DoneWhenNotUpdating \/ DoneComplete \/ DoneMissing \/ DoneFails
    \/ LoseSession \/ Begin
    \/ SendFastChunk \/ Abandon

Spec == Init /\ [][Next]_vars

(* The cloud goes on with a transfer it has begun, and a chunk that is sent *)
(* again and again gets through and is undamaged sooner or later.           *)
Fairness ==
    /\ WF_vars(SendFastChunk)
    /\ WF_vars(DoneWhenNotUpdating \/ DoneComplete \/ DoneMissing)
    /\ SF_vars(ChunkReceivedOK)
    /\ \A i \in Unit : SF_vars(\E m \in net : m.index = i /\ HandleFastChunk(m, TRUE))

FairSpec == Spec /\ Fairness
-----------------------------------------------------------------------------
(* Properties *)

\* An update is applied only if every unit of the file that was announced has
\* been handed to storage, at its place, since the update began.
AppliesComplete ==
    applied # None =>
        /\ fileLength = Length[applied]
        /\ \A a \in 0 .. Length[applied] - 1 : saved[a] = <<applied, a>>

\* A chunk marked as received in a fast transfer was handed to storage.
ReceivedMeansSaved ==
    updating # 0 /\ cloud.phase = "sending" /\ cloud.fast =>
        \A i \in bitmap : \A a \in UnitsOf(cloud.image, cloud.size, i) : saved[a] = <<announced, a>>

\* When chunks come in turn the device counts as the cloud does.
CountsAgree ==
    updating # 0 /\ SendingInTurn => chunkIndex = NextToSend

\* While the session lasts a transfer does not go on for ever asking for missing chunks.
TransferEnds == InTransfer /\ updating # 0 ~> ~ (InTransfer /\ updating # 0)

\* The update as its promise sees it, which follows from the state of the device.
UpdatePhase == IF applied # None THEN "installing" ELSE IF updating # 0 THEN "receiving" ELSE "idle"

\* Units of a file which are not at their place.
Missing(file) == {a \in 0 .. Length[file] - 1 : saved[a] # <<file, a>>}

MissingUnits ==
    IF applied # None THEN Missing(applied) ELSE IF updating # 0 THEN Missing(announced) ELSE {}

Update == INSTANCE FirmwareUpdate WITH
    Lengths <- {Length[i] : i \in Image}, phase <- UpdatePhase, missing <- MissingUnits

\* The transfer implements what an update promises: whichever chunks are lost, repeated,
\* reordered or damaged and whenever the session ends, handle_chunk() never spoils a unit that
\* is in place, and handle_update_done() goes from receiving to installing with none missing.
ImplementsUpdate == Update!Spec

=============================================================================
