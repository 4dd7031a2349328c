--------------------------- MODULE MCDeltaStorage ---------------------------
(***************************************************************************)
(* Instances of DeltaStorage for TLC.                                      *)
(***************************************************************************)
EXTENDS DeltaStorage, TLC

(* Blocks, chunks and callers of a kind are interchangeable. *)
Symmetric ==
  Permutations(Blocks) \cup Permutations(Savers) \cup Permutations(Chunks)
=============================================================================
