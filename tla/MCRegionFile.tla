---------------------------- MODULE MCRegionFile ----------------------------
(***************************************************************************)
(* Instances of RegionChunks for TLC.                                      *)
(***************************************************************************)
EXTENDS RegionChunks, TLC

Block(at, values) == [at |-> at, type |-> 1, values |-> values]

(* With ByteMax of 3 and SizeMax of 8: two deltas that can be stored, of    *)
(* two blocks and of one with a value, and two that cannot, for an empty    *)
(* value at the end and for their size.                                     *)
SampleDeltas == {
  <<Block(0, <<>>), Block(1, <<>>)>>,
  <<Block(0, <<<<1>>>>)>>,
  <<Block(0, <<<<>>>>)>>,
  <<Block(0, <<<<1, 1>>>>), Block(1, <<>>)>> }

CellValues == 0..3

(* Chunks are interchangeable. *)
Symmetric == Permutations(Chunks)
=============================================================================
