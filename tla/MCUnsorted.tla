----------------------------- MODULE MCUnsorted -----------------------------
(* Record IDs of two bytes: a group (1), a group whose records point into  *)
(* the VLSD group (2 and 3), an element of the first group's CG-template   *)
(* array (257, which shares its low byte with 1), and an undeclared ID.    *)
EXTENDS Unsorted, TLC

Sizes == (1 :> 3) @@ (2 :> 1) @@ (257 :> 3)
Pointers == 2 :> 3
=============================================================================
