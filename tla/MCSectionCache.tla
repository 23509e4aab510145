--------------------------- MODULE MCSectionCache ---------------------------
(* Constant values for the runs of the section cache.                      *)
EXTENDS SectionCache, TLC
CONSTANTS r1, r2
(* In both, one payload is larger than the budget of the run.              *)
Sizes3 == <<1, 2, 4>>
Sizes4 == <<1, 2, 1, 4>>
ReaderSymmetry == Permutations(Readers)
=============================================================================
