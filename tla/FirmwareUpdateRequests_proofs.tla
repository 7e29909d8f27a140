-------------------- MODULE FirmwareUpdateRequests_proofs --------------------
(***************************************************************************)
(* Theorems about firmware update requests, for files and pieces of every  *)
(* size.                                                                   *)
(***************************************************************************)
EXTENDS FirmwareUpdateRequests, TLAPS

\* While a transfer lasts everything up to the next address has been written.
WrittenSoFar == desc # None => 0 .. desc.next - 1 \subseteq written

\* From the first successful finish request until the restart the transfer
\* stays as it is: nothing the host requests adds to it or discards it.
CompleteUntilRestart == replying > 0 \/ restarting => AllReceived

IInv == TypeOK /\ WrittenSoFar /\ CompleteUntilRestart
-----------------------------------------------------------------------------
LEMMA InitIInv == Init => IInv
<1> SUFFICES ASSUME Init PROVE IInv
    OBVIOUS
<1>1. flashing \in BOOLEAN /\ restarting \in BOOLEAN /\ ~ restarting
    BY DEF Init
<1>2. replying = 0 /\ replying \in 0 .. MaxReplies
    BY DEF Init, MaxReplies
<1>3. desc = None /\ written \subseteq Nat /\ status \in {"none", "ok", "error"}
    BY DEF Init
<1>4. ~ (replying > 0 \/ restarting)
    BY <1>1, <1>2
<1> QED BY <1>1, <1>2, <1>3, <1>4 DEF IInv, TypeOK, WrittenSoFar, CompleteUntilRestart

\* A piece that fits extends what was written and stays within the file.
LEMMA PieceExtends ==
    ASSUME IInv, desc # None, NEW size \in 0 .. MaxData, Fits(size),
           written' = written \cup desc.next .. desc.next + size - 1,
           desc' = [desc EXCEPT !.next = @ + size]
    PROVE  /\ desc' \in Descriptor
           /\ desc'.next <= desc'.length
           /\ written' \subseteq Nat
           /\ 0 .. desc'.next - 1 \subseteq written'
<1>1. desc \in Descriptor /\ desc.next \in Nat /\ desc.length \in Nat
    BY RequestsAssumption DEF IInv, TypeOK, Descriptor
<1>2. size \in Nat
    BY RequestsAssumption
<1>3. /\ desc' \in Descriptor
      /\ desc'.next = desc.next + size
      /\ desc'.length = desc.length
    BY <1>1, <1>2 DEF Descriptor
<1>4. desc'.next <= desc'.length
    BY <1>3 DEF Fits
<1>5. written' \subseteq Nat
    BY <1>1, <1>2 DEF IInv, TypeOK
<1>6. 0 .. desc'.next - 1 \subseteq written'
    BY <1>1, <1>2, <1>3 DEF IInv, WrittenSoFar
<1> QED BY <1>3, <1>4, <1>5, <1>6

\* Cancelling leaves the transfer in place.
LEMMA CancelKeeps ==
    ASSUME IInv, CancelUpdate
    PROVE  desc' = desc /\ flashing' \in BOOLEAN
BY DEF IInv, TypeOK, CancelUpdate, FinishWithError

LEMMA NextIInv == IInv /\ [Next]_vars => IInv'
<1> SUFFICES ASSUME IInv, [Next]_vars PROVE IInv'
    OBVIOUS
<1> USE DEF IInv, TypeOK, WrittenSoFar, CompleteUntilRestart, AllReceived
<1>1. CASE StartFirmwareUpdate
    <2>1. CASE desc # None
        BY <1>1, <2>1, CancelKeeps DEF StartFirmwareUpdate
    <2>2. CASE desc = None /\ UNCHANGED <<desc, flashing, written>> /\ status' = "error"
        BY <1>1, <2>2 DEF StartFirmwareUpdate
    <2>3. CASE /\ desc = None
               /\ \E length \in Lengths, replied \in BOOLEAN :
                    /\ desc' = [length |-> length, next |-> 0]
                    /\ written' = {}
                    /\ flashing' = replied
                    /\ status' = IF replied THEN "ok" ELSE "error"
        <3>1. PICK length \in Lengths, replied \in BOOLEAN :
                    /\ desc' = [length |-> length, next |-> 0]
                    /\ written' = {}
                    /\ flashing' = replied
                    /\ status' = IF replied THEN "ok" ELSE "error"
            BY <2>3
        <3>2. /\ length \in Nat \ {0}
              /\ desc' \in Descriptor /\ desc'.next = 0 /\ desc'.length = length
            BY <3>1, RequestsAssumption DEF Descriptor
        <3>3. UNCHANGED <<replying, restarting>> /\ ~ (replying > 0 \/ restarting)
            BY <1>1, <2>3 DEF StartFirmwareUpdate
        <3>4. flashing' \in BOOLEAN /\ status' \in {"none", "ok", "error"}
            BY <3>1
        <3>5. TypeOK'
            BY <3>1, <3>2, <3>3, <3>4
        <3>6. WrittenSoFar'
            BY <3>1, <3>2
        <3>7. CompleteUntilRestart'
            BY <3>3
        <3> QED BY <3>5, <3>6, <3>7
    <2> QED BY <1>1, <2>1, <2>2, <2>3 DEF StartFirmwareUpdate
<1>2. CASE FirmwareUpdateData
    <2> PICK size \in 0 .. MaxData, saved \in BOOLEAN :
            IF desc = None
            THEN status' = "error" /\ UNCHANGED <<desc, flashing, written>>
            ELSE IF Fits(size) /\ saved
            THEN /\ written' = written \cup desc.next .. desc.next + size - 1
                 /\ desc' = [desc EXCEPT !.next = @ + size]
                 /\ status' = "ok"
                 /\ UNCHANGED flashing
            ELSE CancelUpdate /\ status' = "error" /\ UNCHANGED written
        BY <1>2 DEF FirmwareUpdateData
    <2>1. UNCHANGED <<replying, restarting>>
        BY <1>2 DEF FirmwareUpdateData
    <2>2. CASE desc = None
        BY <2>1, <2>2
    <2>3. CASE desc # None /\ Fits(size) /\ saved
        <3>1. ~ (replying > 0 \/ restarting)
            \* Nothing fits behind the end of the file.
            BY <2>3, RequestsAssumption DEF Fits, Descriptor
        <3> QED BY <2>1, <2>3, <3>1, PieceExtends
    <2>4. CASE desc # None /\ ~ (Fits(size) /\ saved)
        BY <2>1, <2>4, CancelKeeps
    <2> QED BY <2>2, <2>3, <2>4
<1>3. CASE FinishFirmwareUpdate
    <2> PICK validateOnly \in BOOLEAN, valid \in BOOLEAN :
            IF AllReceived /\ valid /\ ~ validateOnly
            THEN /\ replying < MaxReplies
                 /\ replying' = replying + 1
                 /\ flashing' = FALSE
                 /\ status' = "ok"
                 /\ UNCHANGED desc
            ELSE /\ CancelUpdate
                 /\ status' = IF AllReceived /\ valid THEN "ok" ELSE "error"
                 /\ UNCHANGED replying
        BY <1>3 DEF FinishFirmwareUpdate
    <2>1. UNCHANGED <<written, restarting>>
        BY <1>3 DEF FinishFirmwareUpdate
    <2>2. CASE AllReceived /\ valid /\ ~ validateOnly
        <3>1. flashing' \in BOOLEAN /\ restarting' \in BOOLEAN
            BY <2>1, <2>2
        <3>2. replying' \in 0 .. MaxReplies /\ UNCHANGED <<desc, written>> /\ status' = "ok"
            BY <2>1, <2>2 DEF MaxReplies
        <3>3. CompleteUntilRestart'
            BY <2>2, <3>2
        <3> QED BY <3>1, <3>2, <3>3
    <2>3. CASE ~ (AllReceived /\ valid /\ ~ validateOnly)
        BY <2>1, <2>3, CancelKeeps
    <2> QED BY <2>2, <2>3
<1>4. CASE CancelFirmwareUpdate
    BY <1>4, CancelKeeps DEF CancelFirmwareUpdate
<1>5. CASE ReplySent
    <2>1. UNCHANGED <<desc, written, status>> /\ replying > 0 /\ AllReceived
        BY <1>5 DEF ReplySent
    <2>2. replying' \in 0 .. MaxReplies
        BY <1>5 DEF ReplySent, MaxReplies
    <2>3. flashing' \in BOOLEAN /\ restarting' \in BOOLEAN
        BY <1>5, <2>1 DEF ReplySent
    <2> QED BY <2>1, <2>2, <2>3
<1>6. CASE Restart
    <2>1. flashing' \in BOOLEAN /\ restarting' \in BOOLEAN /\ ~ restarting'
        BY <1>6 DEF Restart
    <2>2. replying' = 0 /\ replying' \in 0 .. MaxReplies
        BY <1>6 DEF Restart, MaxReplies
    <2>3. desc' = None /\ written' \subseteq Nat /\ status' \in {"none", "ok", "error"}
        BY <1>6 DEF Restart
    <2>4. ~ (replying' > 0 \/ restarting')
        BY <2>1, <2>2
    <2> QED BY <2>1, <2>2, <2>3, <2>4
<1>7. CASE UNCHANGED vars
    BY <1>7 DEF vars
<1> QED BY <1>1, <1>2, <1>3, <1>4, <1>5, <1>6, <1>7 DEF Next

LEMMA IInvInvariant == Spec => []IInv
BY InitIInv, NextIInv, PTL DEF Spec

\* The descriptor never points beyond the end of the file it describes and
\* the number of replies under way stays within its bound.
THEOREM RequestsTypeCorrect == Spec => []TypeOK
<1>1. IInv => TypeOK
    BY DEF IInv
<1> QED BY <1>1, IInvInvariant, PTL

\* The device restarts only into a file that was written completely, for files
\* of every size and whatever the host requests while a reply is on its way.
THEOREM RestartsIntoCompleteFile == Spec => []AppliesComplete
<1>1. IInv => AppliesComplete
    BY DEF IInv, TypeOK, WrittenSoFar, CompleteUntilRestart, AllReceived, AppliesComplete
<1> QED BY <1>1, IInvInvariant, PTL
-----------------------------------------------------------------------------
(* What an update promises *)

\* Until the device restarts, writing makes no unit missing again.
LEMMA WritingStores ==
    ASSUME ~ restarting, ~ restarting', desc # None, desc' # None,
           desc'.length = desc.length, written \subseteq written'
    PROVE  Update!Next \/ UNCHANGED Update!vars
<1>1. UpdatePhase = "receiving" /\ UpdatePhase' = "receiving"
    BY DEF UpdatePhase
<1>2. MissingUnits' \subseteq MissingUnits
    BY DEF MissingUnits
<1> QED BY <1>1, <1>2 DEF Update!Next, Update!Store

\* A reply sent goes on to the restart, and nothing is missing then.
LEMMA ReplyInstalls ==
    ASSUME IInv, ReplySent
    PROVE  Update!Next \/ UNCHANGED Update!vars
<1>1. desc # None /\ desc \in Descriptor /\ desc.next = desc.length
    BY DEF IInv, TypeOK, CompleteUntilRestart, AllReceived, ReplySent
<1>2. restarting' = TRUE /\ UNCHANGED <<desc, written>>
    BY <1>1 DEF ReplySent
<1>3. MissingUnits = {} /\ MissingUnits' = {}
    BY <1>1, <1>2 DEF MissingUnits, IInv, WrittenSoFar
<1>4. UpdatePhase' = "installing" /\ UpdatePhase \in {"receiving", "installing"}
    BY <1>1, <1>2 DEF UpdatePhase
<1> QED BY <1>3, <1>4 DEF Update!Next, Update!Install, Update!vars, UpdatePhase

\* A request with nothing to do for the update.
LEMMA RefusedStutters ==
    ASSUME UNCHANGED <<desc, written, restarting>>
    PROVE  UNCHANGED Update!vars
BY DEF Update!vars, UpdatePhase, MissingUnits

\* Every step of the requests is one of the update or none.
LEMMA NextImplements ==
    ASSUME IInv, IInv', [Next]_vars
    PROVE  Update!Next \/ UNCHANGED Update!vars
<1>1. CASE StartFirmwareUpdate
    <2>1. CASE UNCHANGED <<desc, written>>
        BY <1>1, <2>1, RefusedStutters DEF StartFirmwareUpdate
    <2>2. CASE ~ UNCHANGED <<desc, written>>
        <3>1. desc = None /\ ~ restarting /\ ~ restarting' /\ written' = {}
            BY <1>1, <2>2 DEF StartFirmwareUpdate, CancelUpdate, Request
        <3>2. PICK length \in Lengths : desc' = [length |-> length, next |-> 0]
            BY <1>1, <2>2, <3>1 DEF StartFirmwareUpdate
        <3>3. desc' # None
            BY <3>2, RequestsAssumption, NoneAssumption DEF Descriptor
        <3> QED BY <3>1, <3>2, <3>3 DEF Update!Next, Update!Begin, UpdatePhase, MissingUnits
    <2> QED BY <2>1, <2>2
<1>2. CASE FirmwareUpdateData
    <2>1. CASE UNCHANGED <<desc, written>>
        BY <1>2, <2>1, RefusedStutters DEF FirmwareUpdateData
    <2>2. CASE ~ UNCHANGED <<desc, written>>
        <3>1. PICK size \in 0 .. MaxData :
                  /\ desc # None /\ Fits(size)
                  /\ written' = written \cup desc.next .. desc.next + size - 1
                  /\ desc' = [desc EXCEPT !.next = @ + size]
            BY <1>2, <2>2 DEF FirmwareUpdateData, CancelUpdate
        <3>2. desc \in Descriptor /\ ~ restarting /\ ~ restarting'
            BY <1>2, <3>1 DEF FirmwareUpdateData, Request, IInv, TypeOK
        <3>3. desc' # None /\ desc'.length = desc.length /\ written \subseteq written'
            BY <3>1, <3>2, PieceExtends, NoneAssumption DEF Descriptor
        <3> QED BY <3>1, <3>2, <3>3, WritingStores
    <2> QED BY <2>1, <2>2
<1>3. CASE FinishFirmwareUpdate
    BY <1>3, RefusedStutters DEF FinishFirmwareUpdate, CancelUpdate
<1>4. CASE CancelFirmwareUpdate
    BY <1>4, RefusedStutters DEF CancelFirmwareUpdate, CancelUpdate
<1>5. CASE ReplySent
    BY <1>5, ReplyInstalls
<1>6. CASE Restart
    BY <1>6 DEF Restart, Update!Next, Update!Stop, UpdatePhase, MissingUnits
<1>7. CASE UNCHANGED vars
    BY <1>7, RefusedStutters DEF vars
<1> QED BY <1>1, <1>2, <1>3, <1>4, <1>5, <1>6, <1>7 DEF Next

\* The requests of a host implement what an update promises, for files and pieces of every size
\* and any replies under way (storage.cpp): the device goes from receiving to its restart with
\* nothing missing, and what was written of a file stays written until then.
THEOREM UpdateIsImplemented == Spec => ImplementsUpdate
<1>1. Init => Update!Init
    BY DEF Init, Update!Init, UpdatePhase, MissingUnits
<1>2. IInv /\ IInv' /\ [Next]_vars => [Update!Next]_(Update!vars)
    BY NextImplements
<1> QED BY <1>1, <1>2, IInvInvariant, PTL DEF Spec, ImplementsUpdate, Update!Spec

=============================================================================
