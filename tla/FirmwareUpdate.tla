---------------------------- MODULE FirmwareUpdate ----------------------------
(***************************************************************************)
(* What a way to update the firmware promises, with no chunks, sessions,   *)
(* requests or replies: the device installs a file only when every unit of *)
(* it has been stored since the update began, and until then a unit that   *)
(* was stored stays stored.  An update may be given up, or replaced by     *)
(* another, but not any more when it is being installed.                   *)
(***************************************************************************)
EXTENDS Naturals

CONSTANT Lengths    \* of the files, in units

VARIABLES
    phase,      \* of the update: "idle", "receiving" or "installing"
    missing     \* units of the file still to be stored

vars == <<phase, missing>>

Init == phase = "idle" /\ missing = {}

Begin ==
    /\ phase \in {"idle", "receiving"}
    /\ phase' = "receiving"
    /\ \E n \in Lengths : missing' = 0 .. n - 1

Store ==
    /\ phase = "receiving"
    /\ missing' \in SUBSET missing
    /\ UNCHANGED phase

Install ==
    /\ phase = "receiving" /\ missing = {}
    /\ phase' = "installing"
    /\ UNCHANGED missing

\* The transfer is given up, or the device has restarted into the new file.
Stop ==
    /\ phase # "idle"
    /\ phase' = "idle"
    /\ missing' = {}

Next == Begin \/ Store \/ Install \/ Stop

Spec == Init /\ [][Next]_vars

=============================================================================
