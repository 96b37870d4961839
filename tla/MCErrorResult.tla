--------------------------- MODULE MCErrorResult ---------------------------
(* Instances of ErrorResult for TLC. *)
EXTENDS ErrorResult, TLC

ErrorSymmetry == Permutations(Errors) \union Permutations(Values)
                     \union Permutations(Voids) \union Permutations(Blocks)
=============================================================================
