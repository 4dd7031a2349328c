------------------------------- MODULE Blocks -------------------------------
(***************************************************************************)
(* The kinds of block, internal/block: what Tick, OnInteract, ToProto and  *)
(* Deserialize do to one block object.  A block is a record with its kind  *)
(* and the fields of its type; `saved' is the part of Properties that is   *)
(* ever read again, and the flag `changed' is kept where HasChanges is     *)
(* asked.  Priorities, positions and messages are left out, and so are the *)
(* properties of fire, crop and door: written, stored and loaded, but read *)
(* by no code.                                                             *)
(***************************************************************************)
EXTENDS Naturals, Sequences, SequencesExt

CONSTANTS
  Players, Items,
  NoOwner,         \* owner ""
  Lifetime,        \* fire's lifetime in ticks (60)
  Ripe             \* the last stage of a crop (3)

ASSUME BlocksAssumption ==
  NoOwner \notin Players /\ Lifetime \in Nat \ {0} /\ Ripe \in Nat \ {0}

Interactions == {"use", "lock", "unlock", "putItem", "getItem"}
Kinds == {"static", "fire", "crop", "door", "chest"}
DynamicKinds == Kinds \ {"static"}
InteractiveKinds == {"door", "chest"}

Owners == Players \cup {NoOwner}
Stacks == [id : Items, quantity : Nat \ {0}]
Properties == [contents : Seq(Stacks), locked : BOOLEAN, owner : Owners]
EmptyChest == [contents |-> <<>>, locked |-> FALSE, owner |-> NoOwner]

Statics == [kind : {"static"}]
Fires == [kind : {"fire"}, lifetime : 0..Lifetime]
Crops == [kind : {"crop"}, stage : 0..Ripe, dry : BOOLEAN]
Doors == [kind : {"door"}, changed : BOOLEAN, isOpen : BOOLEAN, isLocked : BOOLEAN, owner : Owners]
Chests == [kind : {"chest"}, changed : BOOLEAN, items : Seq(Stacks), isLocked : BOOLEAN,
           owner : Owners, saved : Properties]
LiveBlocks == Statics \cup Fires \cup Crops \cup Doors \cup Chests

(* The factories. *)
NewStaticBlock == [kind |-> "static"]
NewFireBlock == [kind |-> "fire", lifetime |-> Lifetime]
NewCropBlock == [kind |-> "crop", stage |-> 0, dry |-> FALSE]
NewDoorBlock ==
  [kind |-> "door", changed |-> TRUE, isOpen |-> FALSE, isLocked |-> FALSE, owner |-> NoOwner]
NewChestBlock ==
  [kind |-> "chest", changed |-> TRUE, items |-> <<>>, isLocked |-> FALSE, owner |-> NoOwner,
   saved |-> EmptyChest]

New(kind) ==
  CASE kind = "static" -> NewStaticBlock
    [] kind = "fire"   -> NewFireBlock
    [] kind = "crop"   -> NewCropBlock
    [] kind = "door"   -> NewDoorBlock
    [] kind = "chest"  -> NewChestBlock

(* What a chunk holds of a block. *)
Protos == [kind : Kinds, saved : Properties]
ToProto(b) == [kind |-> b.kind, saved |-> IF b.kind = "chest" THEN b.saved ELSE EmptyChest]

(* Only a chest reads its properties back into its fields. *)
ReadBack(c, properties) ==
  [c EXCEPT !.saved = properties, !.items = properties.contents,
            !.isLocked = properties.locked, !.owner = properties.owner]
Deserialize(b, proto) == IF b.kind = "chest" THEN ReadBack(b, proto.saved) ELSE b

ResetChanges(b) == IF b.kind \in InteractiveKinds THEN [b EXCEPT !.changed = FALSE] ELSE b

-----------------------------------------------------------------------------
(* Tick, as the set of [block, changed] it may end with. *)

(* A fire that has burnt out goes on ticking; below zero nothing changes. *)
FireTick(f) ==
  {[changed |-> TRUE,
     block |-> [f EXCEPT !.lifetime = IF @ = 0 THEN 0 ELSE @ - 1]]}

(* Not yet the time; too dry by now (nothing waters it); grows; grown. *)
CropTick(c) ==
  {[changed |-> FALSE, block |-> c], [changed |-> TRUE, block |-> [c EXCEPT !.dry = TRUE]]}
  \cup {[changed |-> TRUE, block |-> [c EXCEPT !.stage = s]] :
           s \in {n \in {c.stage + 1} : ~c.dry /\ n <= Ripe}}

(* Doors and chests, and terrain, which is never ticked. *)
NoTick(b) == {[changed |-> FALSE, block |-> b]}

Tick(b) ==
  CASE b.kind = "fire" -> FireTick(b)
    [] b.kind = "crop" -> CropTick(b)
    [] OTHER           -> NoTick(b)

-----------------------------------------------------------------------------
(* OnInteract: whether player p may, and the block after it. *)

DoorAllows(d, p, what) ==
  CASE what = "use"    -> d.isLocked => d.owner = p
    [] what = "lock"   -> d.owner \in {NoOwner, p}
    [] what = "unlock" -> d.owner = p
    [] OTHER           -> FALSE

DoorAfter(d, p, what) ==
  LET touched == [d EXCEPT !.changed = TRUE] IN
  CASE what = "use"    -> [touched EXCEPT !.isOpen = ~@]
    [] what = "lock"   -> [touched EXCEPT !.owner = p, !.isLocked = TRUE]
    [] what = "unlock" -> [touched EXCEPT !.isLocked = FALSE]

(* The contents are read from the property before anything else. *)
Opened(c) == [c EXCEPT !.items = c.saved.contents]

ChestAllows(c, p, what, index) ==
  /\ c.isLocked /\ what # "unlock" => c.owner = p
  /\ what = "lock" => c.owner \in {NoOwner, p}
  /\ what = "unlock" => c.owner = p
  /\ what = "getItem" => index \in 1..Len(c.items)

(* A quantity that is missing or not positive counts as one. *)
Quantity(q) == IF q > 0 THEN q ELSE 1

Taken(items, index, q) ==
  IF q >= items[index].quantity
  THEN RemoveAt(items, index)
  ELSE [items EXCEPT ![index].quantity = @ - q]

(* SetProperty and setContentsProperty. *)
WithItems(c, items) ==
  [c EXCEPT !.items = items, !.saved.contents = items, !.changed = TRUE]

(* Forgets setContentsProperty. *)
FaultyTakenFrom(c, index, q) == [c EXCEPT !.items = Taken(@, index, Quantity(q)), !.changed = TRUE]
TakenFrom(c, index, q) == WithItems(c, Taken(c.items, index, Quantity(q)))

ChestAfter(c, p, what, item, index, q) ==
  CASE what = "use"     -> c
    [] what = "lock"    -> [c EXCEPT !.owner = p, !.isLocked = TRUE, !.changed = TRUE,
                                     !.saved.owner = p, !.saved.locked = TRUE]
    [] what = "unlock"  -> [c EXCEPT !.isLocked = FALSE, !.saved.locked = FALSE,
                                     !.changed = TRUE]
    [] what = "putItem" -> WithItems(c, Append(c.items, [id |-> item, quantity |-> Quantity(q)]))
    [] what = "getItem" -> TakenFrom(c, index, q)
=============================================================================
