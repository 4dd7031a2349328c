--------------------------- MODULE MCBlockManager ---------------------------
(***************************************************************************)
(* Instance of BlockManager for TLC: the neighbour of a place.             *)
(***************************************************************************)
EXTENDS BlockManager

CONSTANTS a, b, alice, gold

MCNear == [p \in Places |-> IF p = a THEN {b} ELSE {}]

Plain(kind) == [kind |-> kind, saved |-> EmptyChest]
FullChest ==
  [kind |-> "chest",
   saved |-> [contents |-> <<[id |-> gold, quantity |-> 2]>>, locked |-> TRUE, owner |-> alice]]

World(atA, atB) == [p \in Places |-> IF p = a THEN atA ELSE atB]

(* Two blocks that tick, or one and terrain. *)
Busy == {World(Plain("fire"), FullChest), World(Plain("crop"), Plain("door"))}
MCStored ==
  Busy \cup {World(Plain("fire"), Absent), World(FullChest, Plain("static")),
             World(Plain("door"), Absent), World(Plain("crop"), Plain("static"))}

MCBudget == [w \in MCStored |-> IF w \in Busy THEN 2 ELSE 3]
=============================================================================
