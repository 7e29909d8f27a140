------------------------ MODULE MCUSBControlRequests ------------------------
(* Two request objects, both of which may be active. *)
EXTENDS USBControlRequests

=============================================================================
