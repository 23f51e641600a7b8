----------------------------- MODULE MCStorage -----------------------------
(* Instances of the storage process for TLC.                               *)
EXTENDS Storage, TLC

Symmetry == Permutations(Handlers)   \* safety runs only
============================================================================
