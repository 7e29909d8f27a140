---------------------- MODULE MCFirmwareUpdateRequests ----------------------
(* Firmware update requests of a host for short files. *)
EXTENDS FirmwareUpdateRequests

=============================================================================
