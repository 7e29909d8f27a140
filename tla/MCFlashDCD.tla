----------------------------- MODULE MCFlashDCD -----------------------------
(* The DCD with two cells and two values, which nothing tells apart. *)
EXTENDS FlashDCD, TLC

ValueSymmetry == Permutations(Value)

=============================================================================
