-------------------------- MODULE MCProtocolSession --------------------------
(* Two events, and a loop that may be blocked for as long as a ping may take. *)
EXTENDS ProtocolSession

=============================================================================
