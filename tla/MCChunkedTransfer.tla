-------------------------- MODULE MCChunkedTransfer --------------------------
(* Chunked transfers of two small files. *)
EXTENDS ChunkedTransfer, TLC

CONSTANTS small, large

MCImage == {small, large}
MCLength == small :> 3 @@ large :> 4

=============================================================================
