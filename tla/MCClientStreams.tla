--------------------------- MODULE MCClientStreams ---------------------------
(***************************************************************************)
(* Instances of ClientStreams for TLC.                                     *)
(***************************************************************************)
EXTENDS ClientStreams, TLC

(* Players are interchangeable, and so are streams. *)
Symmetric == Permutations(Players) \cup Permutations(Streams)

(* At most two streams are open when a step is taken. *)
TwoAtATime == Cardinality({s \in Streams : Open(s)}) <= 2
=============================================================================
