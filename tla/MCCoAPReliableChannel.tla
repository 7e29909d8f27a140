----------------------- MODULE MCCoAPReliableChannel -----------------------
(* The reliable channel on small instances. *)
EXTENDS CoAPReliableChannel

=============================================================================
