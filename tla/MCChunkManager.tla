--------------------------- MODULE MCChunkManager ---------------------------
(***************************************************************************)
(* Bounds for TLC: one chunk, two requests, two terrains and one that      *)
(* makes a generation wait for itself.                                     *)
(***************************************************************************)
EXTENDS ChunkManager

CONSTANTS t1, p2

(* t1 and t2 differ in their names only: what the storage has at first is t1. *)
InitT1 == Init /\ \A k \in Keys : stored[k] = Absent \/ stored[k] \subseteq Edits \cup {t1}
MCSpec == InitT1 /\ [][Next]_vars /\ Fairness

(* Nothing is claimed of a lost chunk, and there is only one: a behaviour ends *)
(* with its loss.  p2 asks after p1: they differ in their names only.  While   *)
(* the server stops, no second request is in progress.                        *)
Bounds ==
  /\ \A k \in Keys : placed[k] # Lost
  /\ misses < 2 => pc[p2] = "idle"
  /\ phase \in {"loading", "running"} \/ misses < 2 \/ \A p \in Requesters : pc[p] = "idle"
=============================================================================
