----------------------- MODULE FirmwareUpdateRequests -----------------------
(***************************************************************************)
(* The control requests by which a USB host updates the firmware           *)
(* (system/src/control/storage.cpp) and the part of system_update.cpp they *)
(* share with updates over the air.  Requests are handled one at a time on *)
(* the system thread, but the update is applied only when the reply to the *)
(* finish request has been sent, and the host may send requests until then.*)
(***************************************************************************)
EXTENDS Naturals

CONSTANTS Lengths, MaxData, None

ASSUME RequestsAssumption ==
    /\ Lengths \subseteq Nat \ {0}
    /\ MaxData \in Nat \ {0}

Descriptor == [length : Lengths, next : Nat]

\* A null pointer is no descriptor.
ASSUME NoneAssumption == None \notin Descriptor

VARIABLES
    desc,        \* g_desc: file_length and chunk_address - file_address
    flashing,    \* SPARK_FLASH_UPDATE
    replying,    \* replies to finish requests on their way, whose completion applies the update
    restarting,  \* system_pending_shutdown() was called
    \* history
    written,     \* units written since HAL_FLASH_Begin
    status       \* of the last request

vars == <<desc, flashing, replying, restarting, written, status>>

MaxReplies == 2

TypeOK ==
    /\ desc \in Descriptor \cup {None}
    /\ desc # None => desc.next <= desc.length
    /\ flashing \in BOOLEAN
    /\ replying \in 0 .. MaxReplies
    /\ restarting \in BOOLEAN
    /\ written \subseteq Nat
    /\ status \in {"none", "ok", "error"}

Init ==
    /\ desc = None
    /\ flashing = FALSE
    /\ replying = 0
    /\ restarting = FALSE
    /\ written = {}
    /\ status = "none"

\* Spark_Finish_Firmware_Update(): every use clears the flag.  With
\* UpdateFlag::ERROR it returns the 1 its result starts with.
FinishWithError == flashing' = FALSE

\* Mutant: the descriptor is released, while a reply may be on its way.
CancelUpdateReleasing == desc' = None /\ IF desc = None THEN UNCHANGED flashing ELSE FinishWithError

\* cancelFirmwareUpdate(): the descriptor would be released if the result
\* were 0, which it never is.
CancelUpdate ==
    /\ IF desc = None THEN UNCHANGED flashing ELSE FinishWithError
    /\ UNCHANGED desc

Request == ~ restarting

StartFirmwareUpdate ==
    /\ Request
    /\ UNCHANGED <<replying, restarting>>
    /\ IF desc # None
       THEN CancelUpdate /\ status' = "error" /\ UNCHANGED written
       ELSE \/ \* refused: the application disabled updates, or no memory
               status' = "error" /\ UNCHANGED <<desc, flashing, written>>
            \/ \E length \in Lengths, replied \in BOOLEAN :
                  /\ desc' = [length |-> length, next |-> 0]
                  /\ written' = {}
                  /\ flashing' = replied
                  /\ status' = IF replied THEN "ok" ELSE "error"

\* Mutant: the end of the file is not checked.
FitsAny(size) == size > 0

Fits(size) == size > 0 /\ desc.next + size <= desc.length

FirmwareUpdateData ==
    /\ Request
    /\ UNCHANGED <<replying, restarting>>
    /\ \E size \in 0 .. MaxData, saved \in BOOLEAN :
          IF desc = None
          THEN status' = "error" /\ UNCHANGED <<desc, flashing, written>>
          ELSE IF Fits(size) /\ saved
          THEN /\ written' = written \cup desc.next .. desc.next + size - 1
               /\ desc' = [desc EXCEPT !.next = @ + size]
               /\ status' = "ok"
               /\ UNCHANGED flashing
          ELSE CancelUpdate /\ status' = "error" /\ UNCHANGED written

AllReceived == desc # None /\ desc.next = desc.length

\* `valid' is whether the module is intact and its dependencies are met.
FinishFirmwareUpdate ==
    /\ Request
    /\ UNCHANGED <<written, restarting>>
    /\ \E validateOnly \in BOOLEAN, valid \in BOOLEAN :
          IF AllReceived /\ valid /\ ~ validateOnly
          THEN /\ replying < MaxReplies
               /\ replying' = replying + 1
               /\ flashing' = FALSE
               /\ status' = "ok"
               /\ UNCHANGED desc
          ELSE /\ CancelUpdate
               /\ status' = IF AllReceived /\ valid THEN "ok" ELSE "error"
               /\ UNCHANGED replying

CancelFirmwareUpdate ==
    /\ Request
    /\ CancelUpdate
    /\ status' = IF desc = None THEN "ok" ELSE "error"
    /\ UNCHANGED <<replying, restarting, written>>

\* finishFirmwareUpdate(), the completion handler of the reply.
ReplySent ==
    /\ replying > 0
    /\ replying' = replying - 1
    /\ IF desc # None THEN flashing' = FALSE /\ restarting' = TRUE
                      ELSE UNCHANGED <<flashing, restarting>>
    /\ UNCHANGED <<desc, written, status>>

Restart ==
    /\ restarting
    /\ desc' = None /\ flashing' = FALSE /\ replying' = 0 /\ restarting' = FALSE
    /\ written' = {} /\ status' = "none"

Next ==
    \/ StartFirmwareUpdate \/ FirmwareUpdateData \/ FinishFirmwareUpdate \/ CancelFirmwareUpdate
    \/ ReplySent \/ Restart

Spec == Init /\ [][Next]_vars
-----------------------------------------------------------------------------
(* Properties *)

\* The device restarts into an update only if all of the file was written,
\* whatever the host requested while the reply was on its way.
AppliesComplete == restarting => desc # None /\ 0 .. desc.length - 1 \subseteq written

\* "Cancel current transfer": afterwards there is none.
CancelDiscards == [][CancelFirmwareUpdate => desc' = None]_vars

\* The update as its promise sees it, which follows from the descriptor and from whether the
\* device is about to restart.
UpdatePhase == IF restarting THEN "installing" ELSE IF desc # None THEN "receiving" ELSE "idle"

MissingUnits == IF desc = None THEN {} ELSE (0 .. desc.length - 1) \ written

Update == INSTANCE FirmwareUpdate WITH phase <- UpdatePhase, missing <- MissingUnits

\* The requests implement what an update promises: no request that is refused, fails or arrives
\* while a reply is on its way makes a unit missing again, replaces a transfer, or sends the
\* device into its restart with a unit missing.
ImplementsUpdate == Update!Spec

=============================================================================
