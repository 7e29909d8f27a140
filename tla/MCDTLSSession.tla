----------------------------- MODULE MCDTLSSession -----------------------------
(* Two sessions of a few records, and two states of the application. *)
EXTENDS DTLSSession

=============================================================================
