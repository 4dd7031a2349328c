------------------------ MODULE BlockManager_proofs -------------------------
(***************************************************************************)
(* Proofs about BlockManager, for every value of its constants: any        *)
(* places, neighbours, worlds, players and items, a channel of any size.   *)
(***************************************************************************)
EXTENDS BlockManager, SequenceTheorems, TLAPS

-----------------------------------------------------------------------------
(* The inductive invariant.                                                *)

(* The fields of a chest are those of its properties. *)
Sound(b) ==
  /\ b \in LiveBlocks
  /\ b.kind = "chest" =>
       b.saved = [contents |-> b.items, locked |-> b.isLocked, owner |-> b.owner]

SoundBlocks == \A o \in Objects : Referenced(o) => Sound(heap[o])

(* What each thread creates blocks for, and that it knows where. *)
StepsOf(t) ==
  Entering \cup
  CASE t = "loop"    -> {"idle", "next", "neighbors", "created", "send", "spread", "placed", "reschedule"}
    [] t = "request" -> {"idle", "created"}
    [] t = "player"  -> {"idle", "send", "updated"}
GoalsOf(t) ==
  CASE t = "loop"    -> {"load", "loaded", "generate", "neighbor", "update", "spread", "setBlock"}
    [] t = "request" -> {"load", "generate"}
    [] t = "player"  -> {"update"}
Steps == UNION {StepsOf(t) : t \in Threads}
Goals == {"none"} \cup UNION {GoalsOf(t) : t \in Threads}
Threading ==
  /\ pc \in [Threads -> Steps] /\ goal \in [Threads -> Goals]
  /\ place \in [Threads -> Places \cup {NoPlace}]
  /\ obj \in [Threads -> Objects \cup {NoObject}]
  /\ \A t \in Threads :
       /\ pc[t] \in StepsOf(t) /\ goal[t] \in {"none"} \cup GoalsOf(t)
       /\ pc[t] \in Entering \cup {"created"} => goal[t] # "none"
       /\ pc[t] \in Entering \cup {"created", "placed"} => place[t] \in Places

(* The loop has a block in its hands but between two blocks and two rounds. *)
Looping ==
  /\ pc["loop"] = "idle" => batch = NoEntries
  /\ pc["loop"] \in {"idle", "next"} <=> current = NoPlace
  /\ current \in Places \cup {NoPlace} /\ ticked \in Objects \cup {NoObject}
  /\ looked \subseteq Places

(* What a thread has found out about its place stays so. *)
InTheMaps ==
  \A t \in Threads :
    /\ pc[t] = "register" => IsDynamic(obj[t])
    /\ pc[t] \in {"register", "created"} => blocks[place[t]] # NoObject
    /\ pc[t] \in Entering \cup {"created"} =>
         /\ goal[t] \in {"load", "loaded", "neighbor"} => chunk[place[t]] # Absent
         /\ goal[t] = "update" => dynamicBlocks[place[t]] # NoObject

(* A place has its first entry, and its dynamic block, at the same time. *)
DynamicOnce ==
  \A p \in Places :
    /\ created[p] > 0 <=> dynamicBlocks[p] # NoObject
    /\ interactiveBlocks[p] # NoObject => dynamicBlocks[p] # NoObject

(* Where nothing is torn, one thread enters a block, and shows it already *)
(* when it comes to the other maps.                                       *)
EnteringAt(t, p) == pc[t] \in Entering /\ place[t] = p
OneEnters ==
  \A p \in Places \ torn, t \in Threads : EnteringAt(t, p) =>
    /\ \A u \in Threads : EnteringAt(u, p) => u = t
    /\ pc[t] = "register" => blocks[p] = obj[t]

IInv ==
  /\ TypeOK
  /\ SoundBlocks
  /\ Threading
  /\ Looping
  /\ InTheMaps
  /\ DynamicOnce
  /\ OneEnters
  /\ StaysScheduled
  /\ MapsAgree

-----------------------------------------------------------------------------
(* One block: every operation keeps it sound, and of its kind.             *)

LEMMA LiveKinds ==
  ASSUME NEW b \in LiveBlocks
  PROVE  /\ b.kind \in Kinds
         /\ b.kind = "static" => b \in Statics
         /\ b.kind = "fire" => b \in Fires
         /\ b.kind = "crop" => b \in Crops
         /\ b.kind = "door" => b \in Doors
         /\ b.kind = "chest" => b \in Chests
BY DEF LiveBlocks, Statics, Fires, Crops, Doors, Chests, Kinds

LEMMA KindSets ==
  /\ DynamicKinds \subseteq Kinds /\ InteractiveKinds \subseteq DynamicKinds
  /\ "static" \notin DynamicKinds
BY DEF Kinds, DynamicKinds, InteractiveKinds

LEMMA NewSound ==
  ASSUME NEW kind \in Kinds
  PROVE  Sound(New(kind)) /\ New(kind).kind = kind
<1>1. CASE kind = "static"
  BY <1>1 DEF New, NewStaticBlock, Sound, LiveBlocks, Statics
<1>2. CASE kind = "fire"
  BY <1>2, BlocksAssumption DEF New, NewFireBlock, Sound, LiveBlocks, Fires
<1>3. CASE kind = "crop"
  BY <1>3, BlocksAssumption DEF New, NewCropBlock, Sound, LiveBlocks, Crops
<1>4. CASE kind = "door"
  BY <1>4 DEF New, NewDoorBlock, Sound, LiveBlocks, Doors, Owners
<1>5. CASE kind = "chest"
  <2>1. EmptyChest \in Properties /\ <<>> \in Seq(Stacks) /\ NoOwner \in Owners
    BY DEF EmptyChest, Properties, Owners
  <2>2. New(kind) = NewChestBlock
    BY <1>5 DEF New
  <2>3. NewChestBlock \in Chests
    BY <2>1 DEF NewChestBlock, Chests
  <2>4. /\ NewChestBlock.kind = "chest" /\ NewChestBlock.saved = EmptyChest
        /\ NewChestBlock.items = <<>> /\ NewChestBlock.isLocked = FALSE
        /\ NewChestBlock.owner = NoOwner
    BY DEF NewChestBlock
  <2>5. QED
    BY <1>5, <2>2, <2>3, <2>4 DEF Sound, LiveBlocks, EmptyChest
<1>6. QED
  BY <1>1, <1>2, <1>3, <1>4, <1>5 DEF Kinds

LEMMA TickSound ==
  ASSUME NEW b, Sound(b), NEW after \in Tick(b)
  PROVE  Sound(after.block) /\ after.block.kind = b.kind
<1>1. CASE b.kind = "fire"
  <2>1. b \in Fires
    BY <1>1, LiveKinds DEF Sound
  <2>2. after.block = [b EXCEPT !.lifetime = IF b.lifetime = 0 THEN 0 ELSE b.lifetime - 1]
    BY <1>1 DEF Tick, FireTick
  <2>3. after.block \in Fires /\ after.block.kind = "fire"
    BY <2>1, <2>2, BlocksAssumption DEF Fires
  <2>4. QED
    BY <1>1, <2>3 DEF Sound, LiveBlocks
<1>2. CASE b.kind = "crop"
  <2>1. b \in Crops
    BY <1>2, LiveKinds DEF Sound
  <2>2. \/ after = [changed |-> FALSE, block |-> b]
        \/ after = [changed |-> TRUE, block |-> [b EXCEPT !.dry = TRUE]]
        \/ \E s \in {n \in {b.stage + 1} : ~b.dry /\ n <= Ripe} :
             after = [changed |-> TRUE, block |-> [b EXCEPT !.stage = s]]
    <3>1. Tick(b) = CropTick(b)
      BY <1>2 DEF Tick
    <3>2. QED
      BY <3>1, Zenon DEF CropTick
  <2>3. after.block \in Crops /\ after.block.kind = "crop"
    <3>1. CASE after = [changed |-> FALSE, block |-> b]
      BY <1>2, <2>1, <3>1
    <3>2. CASE after = [changed |-> TRUE, block |-> [b EXCEPT !.dry = TRUE]]
      BY <2>1, <3>2 DEF Crops
    <3>3. ASSUME NEW s \in {n \in {b.stage + 1} : ~b.dry /\ n <= Ripe},
                 after = [changed |-> TRUE, block |-> [b EXCEPT !.stage = s]]
          PROVE  after.block \in Crops /\ after.block.kind = "crop"
      BY <2>1, <3>3, BlocksAssumption DEF Crops
    <3>4. QED
      BY <2>2, <3>1, <3>2, <3>3
  <2>4. QED
    BY <1>2, <2>3 DEF Sound, LiveBlocks
<1>3. CASE b.kind \notin {"fire", "crop"}
  BY <1>3 DEF Tick, NoTick
<1>4. QED
  BY <1>1, <1>2, <1>3

LEMMA FilledSound ==
  ASSUME NEW b, Sound(b), NEW proto \in Protos
  PROVE  Sound(Deserialize(b, proto)) /\ Deserialize(b, proto).kind = b.kind
<1>1. CASE b.kind = "chest"
  <2>1. b \in Chests /\ proto.saved \in Properties
    BY <1>1, LiveKinds DEF Sound, Protos
  <2>2. Deserialize(b, proto) = ReadBack(b, proto.saved)
    BY <1>1 DEF Deserialize
  <2> DEFINE s == proto.saved
  <2>3. s.contents \in Seq(Stacks) /\ s.locked \in BOOLEAN /\ s.owner \in Owners
        /\ s = [contents |-> s.contents, locked |-> s.locked, owner |-> s.owner]
    BY <2>1 DEF Properties
  <2> HIDE DEF s
  <2>4. ReadBack(b, s) \in Chests
    BY <2>1, <2>3 DEF ReadBack, Chests, s
  <2>5. /\ ReadBack(b, s).kind = "chest" /\ ReadBack(b, s).saved = s
        /\ ReadBack(b, s).items = s.contents /\ ReadBack(b, s).isLocked = s.locked
        /\ ReadBack(b, s).owner = s.owner
    BY <2>1 DEF ReadBack, Chests
  <2>6. QED
    BY <1>1, <2>2, <2>3, <2>4, <2>5 DEF Sound, LiveBlocks, s
<1>2. CASE b.kind # "chest"
  BY <1>2 DEF Deserialize
<1>3. QED
  BY <1>1, <1>2

LEMMA ResetSound ==
  ASSUME NEW b, Sound(b)
  PROVE  Sound(ResetChanges(b)) /\ ResetChanges(b).kind = b.kind
<1>1. CASE b.kind = "door"
  <2>1. b \in Doors
    BY <1>1, LiveKinds DEF Sound
  <2>2. [b EXCEPT !.changed = FALSE] \in Doors /\ [b EXCEPT !.changed = FALSE].kind = "door"
    BY <2>1 DEF Doors
  <2>3. QED
    BY <1>1, <2>2 DEF ResetChanges, InteractiveKinds, Sound, LiveBlocks
<1>2. CASE b.kind = "chest"
  <2>1. b \in Chests
    BY <1>2, LiveKinds DEF Sound
  <2> DEFINE c == [b EXCEPT !.changed = FALSE]
  <2>2. /\ c \in Chests /\ c.kind = "chest" /\ c.saved = b.saved /\ c.items = b.items
        /\ c.isLocked = b.isLocked /\ c.owner = b.owner
    BY <2>1 DEF Chests
  <2>3. QED
    BY <1>2, <2>2 DEF ResetChanges, InteractiveKinds, Sound, LiveBlocks
<1>3. CASE b.kind \notin {"door", "chest"}
  BY <1>3 DEF ResetChanges, InteractiveKinds
<1>4. QED
  BY <1>1, <1>2, <1>3

LEMMA ToProtoType ==
  ASSUME NEW b \in LiveBlocks
  PROVE  ToProto(b) \in Protos
<1>1. EmptyChest \in Properties
  BY DEF EmptyChest, Properties, Owners
<1>2. b.kind = "chest" => b.saved \in Properties
  BY LiveKinds DEF Chests
<1>3. QED
  BY <1>1, <1>2, LiveKinds DEF ToProto, Protos

(* RemoveAt, and a quantity taken away, leave stacks. *)
LEMMA TakenType ==
  ASSUME NEW items \in Seq(Stacks), NEW index \in 1..Len(items), NEW q \in Nat \ {0}
  PROVE  Taken(items, index, q) \in Seq(Stacks)
<1>1. CASE q >= items[index].quantity
  <2>1. SubSeq(items, 1, index - 1) \in Seq(Stacks)
    OBVIOUS
  <2>2. SubSeq(items, index + 1, Len(items)) \in Seq(Stacks)
    OBVIOUS
  <2>3. QED
    BY <1>1, <2>1, <2>2 DEF Taken, RemoveAt
<1>2. CASE ~(q >= items[index].quantity)
  <2> DEFINE stack == items[index]
             rest == [stack EXCEPT !.quantity = stack.quantity - q]
  <2>1. stack \in Stacks /\ ~(q >= stack.quantity)
    BY <1>2
  <2>2. rest \in Stacks
    <3> HIDE DEF stack
    <3> QED
      BY <2>1 DEF Stacks
  <2>3. Taken(items, index, q) = [items EXCEPT ![index] = rest]
    BY <1>2 DEF Taken
  <2> HIDE DEF rest
  <2>4. QED
    BY <2>2, <2>3
<1>3. QED
  BY <1>1, <1>2

LEMMA DoorSound ==
  ASSUME NEW b, Sound(b), b.kind = "door", NEW player \in Players, NEW what, DoorAllows(b, player, what)
  PROVE  Sound(DoorAfter(b, player, what)) /\ DoorAfter(b, player, what).kind = "door"
<1>1. b \in Doors /\ player \in Owners
  BY LiveKinds DEF Sound, Owners
<1>2. what \in {"use", "lock", "unlock"}
  BY DEF DoorAllows
<1>3. DoorAfter(b, player, what) \in Doors /\ DoorAfter(b, player, what).kind = "door"
  BY <1>1, <1>2 DEF DoorAfter, Doors
<1>4. QED
  BY <1>3 DEF Sound, LiveBlocks

(* A chest with its properties, field by field. *)
ChestOf(changed, items, locked, owner) ==
  [kind |-> "chest", changed |-> changed, items |-> items, isLocked |-> locked, owner |-> owner,
   saved |-> [contents |-> items, locked |-> locked, owner |-> owner]]

LEMMA ChestOfSound ==
  /\ \A changed \in BOOLEAN, items \in Seq(Stacks), locked \in BOOLEAN, owner \in Owners :
       Sound(ChestOf(changed, items, locked, owner))
  /\ \A b : Sound(b) /\ b.kind = "chest" =>
       /\ b.changed \in BOOLEAN /\ b.items \in Seq(Stacks) /\ b.isLocked \in BOOLEAN
       /\ b.owner \in Owners
       /\ b = ChestOf(b.changed, b.items, b.isLocked, b.owner)
<1>1. ASSUME NEW changed \in BOOLEAN, NEW items \in Seq(Stacks), NEW locked \in BOOLEAN,
             NEW owner \in Owners
      PROVE  Sound(ChestOf(changed, items, locked, owner))
  <2>1. ChestOf(changed, items, locked, owner) \in Chests
    BY DEF ChestOf, Chests, Properties
  <2>2. QED
    BY <2>1 DEF Sound, LiveBlocks, ChestOf
<1>2. ASSUME NEW b, Sound(b), b.kind = "chest"
      PROVE  /\ b.changed \in BOOLEAN /\ b.items \in Seq(Stacks) /\ b.isLocked \in BOOLEAN
             /\ b.owner \in Owners
             /\ b = ChestOf(b.changed, b.items, b.isLocked, b.owner)
  <2>1. b \in Chests
    BY <1>2, LiveKinds DEF Sound
  <2>2. QED
    BY <1>2, <2>1 DEF Sound, Chests, ChestOf
<1>3. QED
  BY <1>1, <1>2

LEMMA ChestSound ==
  ASSUME NEW b, Sound(b), b.kind = "chest", NEW player \in Players, NEW what \in Interactions,
         NEW item \in Items, NEW index, NEW q \in Nat, ChestAllows(Opened(b), player, what, index)
  PROVE  /\ Sound(ChestAfter(Opened(b), player, what, item, index, q))
         /\ ChestAfter(Opened(b), player, what, item, index, q).kind = "chest"
<1> DEFINE c == Opened(b)
           after == ChestAfter(c, player, what, item, index, q)
<1>1. PICK changed \in BOOLEAN, items \in Seq(Stacks), locked \in BOOLEAN, owner \in Owners :
        b = ChestOf(changed, items, locked, owner)
  BY ChestOfSound
<1>2. c = ChestOf(changed, items, locked, owner)
  BY <1>1 DEF Opened, ChestOf
<1> HIDE DEF c
<1>3. player \in Owners
  BY DEF Owners
<1>4. Quantity(q) \in Nat \ {0}
  BY DEF Quantity
<1>5. SUFFICES \E d \in BOOLEAN, i \in Seq(Stacks), l \in BOOLEAN, o \in Owners : after = ChestOf(d, i, l, o)
  <2>1. \A d, i, l, o : ChestOf(d, i, l, o).kind = "chest"
    BY DEF ChestOf
  <2>2. QED
    BY <1>5, <2>1, ChestOfSound DEF c
<1>6. ASSUME NEW i
      PROVE  WithItems(c, i) = ChestOf(TRUE, i, locked, owner)
  <2>1. WithItems(c, i) =
          [c EXCEPT !.items = i, !.saved = [c.saved EXCEPT !.contents = i], !.changed = TRUE]
    BY DEF WithItems
  <2>2. [c.saved EXCEPT !.contents = i] = [contents |-> i, locked |-> locked, owner |-> owner]
    BY <1>2 DEF ChestOf
  <2>3. QED
    BY <1>2, <2>1, <2>2 DEF ChestOf
<1>7. CASE what = "use"
  BY <1>2, <1>7 DEF ChestAfter
<1>8. CASE what = "lock"
  <2>1. after = ChestOf(TRUE, items, TRUE, player)
    BY <1>2, <1>8 DEF ChestAfter, ChestOf
  <2>2. QED
    BY <1>3, <2>1
<1>9. CASE what = "unlock"
  <2>1. after = ChestOf(TRUE, items, FALSE, owner)
    BY <1>2, <1>9 DEF ChestAfter, ChestOf
  <2>2. QED
    BY <2>1
<1>10. CASE what = "putItem"
  <2> DEFINE stack == [id |-> item, quantity |-> Quantity(q)]
  <2>1. stack \in Stacks
    BY <1>4 DEF Stacks
  <2>2. c.items = items
    BY <1>2 DEF ChestOf
  <2>3. after = WithItems(c, Append(items, stack))
    BY <1>10, <2>2 DEF ChestAfter
  <2> HIDE DEF stack
  <2>4. Append(items, stack) \in Seq(Stacks)
    BY <2>1
  <2>5. QED
    BY <1>6, <2>3, <2>4
<1>11. CASE what = "getItem"
  <2>1. c.items = items
    BY <1>2 DEF ChestOf
  <2>2. index \in 1..Len(items)
    BY <1>11, <2>1 DEF ChestAllows, c
  <2>3. after = WithItems(c, Taken(items, index, Quantity(q)))
    BY <1>11, <2>1 DEF ChestAfter, TakenFrom
  <2>4. Taken(items, index, Quantity(q)) \in Seq(Stacks)
    BY <1>4, <2>2, TakenType
  <2>5. QED
    BY <1>6, <2>3, <2>4
<1>12. QED
  BY <1>7, <1>8, <1>9, <1>10, <1>11 DEF Interactions

-----------------------------------------------------------------------------
(* The block objects.                                                      *)

(* CreateBlock makes a sound block that nobody knew, and enters it. *)
LEMMA Creates ==
  ASSUME TypeOK, SoundBlocks, Threading,
         NEW t \in Threads, NEW p \in Places, NEW kind \in Kinds, NEW why, Create(t, p, kind, why),
         UNCHANGED <<maps, ticked>>
  PROVE  \E o \in Objects :
           /\ ~Referenced(o) /\ obj' = [obj EXCEPT ![t] = o] /\ Enter(t, p, o, why)
           /\ heap' \in [Objects -> LiveBlocks \cup {NoObject}]
           /\ \A r \in Objects : Referenced(r)' => r = o \/ (Referenced(r) /\ heap'[r] = heap[r])
           /\ Sound(heap'[o]) /\ heap'[o].kind = kind
<1> DEFINE o == NewObject(p)
<1>1. o \in Objects /\ ~Referenced(o)
  <2>1. \E n \in {p} \X Copies : ~Referenced(n)
    BY DEF Create, MayAllocate
  <2>2. o \in {p} \X Copies /\ ~Referenced(o)
    BY <2>1 DEF NewObject
  <2>3. QED
    BY <2>2 DEF Objects
<1>2. Enter(t, p, o, why) /\ obj' = [obj EXCEPT ![t] = o]
  BY DEF Create, Enter
<1>3. heap' = [r \in Objects |-> IF r = o THEN New(kind) ELSE IF Referenced(r) THEN heap[r] ELSE NoObject]
  BY DEF Create, Allocated
<1> HIDE DEF o
<1>4. Sound(New(kind)) /\ New(kind).kind = kind
  BY NewSound
<1>5. heap' \in [Objects -> LiveBlocks \cup {NoObject}]
  BY <1>3, <1>4 DEF TypeOK, Sound
<1>6. ASSUME NEW r \in Objects, Referenced(r)', r # o
      PROVE  Referenced(r)
  BY <1>2, <1>6 DEF Referenced, maps, Threading
<1>7. QED
  BY <1>1, <1>2, <1>3, <1>4, <1>5, <1>6

(* The steps that create a block; why they do is true of the chunk. *)
Creation ==
  \E t \in Threads, p \in Places, kind \in Kinds, why \in Goals \ {"update"} :
    /\ Create(t, p, kind, why)
    /\ why \in {"load", "loaded", "neighbor"} => chunk'[p] # Absent
    /\ pc[t] \notin Entering /\ why \in GoalsOf(t)
    /\ UNCHANGED <<maps, ticked, created>>

(* The steps that change a block: a player's, the loop's, and what is read back *)
(* from a chunk.                                                                *)
Change ==
  \E o \in Objects :
    /\ Referenced(o)
    /\ heap' = [heap EXCEPT ![o] = heap'[o]]
    /\ Sound(heap'[o]) /\ heap'[o].kind = heap[o].kind

(* The objects known after a step that creates none were known before it. *)
NothingNew == \A o \in Objects : Referenced(o)' => Referenced(o)

LEMMA Known ==
  ASSUME TypeOK
  PROVE  /\ \A p \in Places :
              /\ blocks[p] # NoObject => blocks[p] \in Objects /\ Referenced(blocks[p])
              /\ dynamicBlocks[p] # NoObject => dynamicBlocks[p] \in Objects /\ Referenced(dynamicBlocks[p])
              /\ interactiveBlocks[p] # NoObject =>
                   interactiveBlocks[p] \in Objects /\ Referenced(interactiveBlocks[p])
         /\ \A t \in Threads : obj[t] \in Objects => Referenced(obj[t])
         /\ ticked \in Objects => Referenced(ticked)
BY DEF TypeOK, Referenced

(* A known block has a kind, and a chunk that is there is well-formed. *)
LEMMA KnownKinds ==
  ASSUME TypeOK
  PROVE  /\ \A o \in Objects : Referenced(o) => heap[o].kind \in Kinds
         /\ \A p \in Places : chunk[p] # Absent =>
              chunk[p] \in Protos /\ chunk[p].kind \in Kinds
<1>1. \A o \in Objects : Referenced(o) => heap[o].kind \in Kinds
  BY LiveKinds DEF TypeOK
<1>2. \A c \in Protos : c.kind \in Kinds
  BY DEF Protos
<1>3. QED
  BY <1>1, <1>2 DEF TypeOK

LEMMA CreationSteps ==
  ASSUME TypeOK, Threading, Looping, InTheMaps,
         \/ \E p \in Places : RequestFetches(p) \/ NeighborMissing(p)
         \/ NeighborFetched \/ Spread
         \/ SetBlock /\ pc'["loop"] = "put"
  PROVE  Creation
<1>1. "loop" \in Threads /\ "request" \in Threads
  BY DEF Threads
<1>2. \A p \in Places : chunk[p] # Absent => chunk[p].kind \in Kinds
  BY KnownKinds
<1>3. "static" \in Kinds /\ "fire" \in Kinds
  BY DEF Kinds
<1>4. ASSUME NEW p \in Places, RequestFetches(p)
      PROVE  Creation
  <2>1. \E kind \in Kinds, why \in GoalsOf("request") :
          Create("request", p, kind, why) /\ (why \in {"load", "loaded", "neighbor"} => chunk'[p] # Absent)
    BY <1>2, <1>3, <1>4 DEF RequestFetches, Fetch, GoalsOf
  <2>2. QED
    BY <1>1, <1>4, <2>1 DEF RequestFetches, Creation, Entering, loopVars, Goals, GoalsOf
<1>5. ASSUME NEW p \in Places, NeighborMissing(p)
      PROVE  Creation
  <2>1. \E kind \in Kinds, why \in GoalsOf("loop") \ {"update"} :
          Create("loop", p, kind, why) /\ (why \in {"load", "loaded", "neighbor"} => chunk'[p] # Absent)
    BY <1>2, <1>3, <1>5 DEF NeighborMissing, Fetch, GoalsOf
  <2>2. QED
    BY <1>1, <1>5, <2>1 DEF NeighborMissing, Creation, Entering, loopVars, Goals, GoalsOf
<1>6. CASE NeighborFetched
  <2>1. place["loop"] \in Places /\ blocks[place["loop"]] # NoObject
    BY <1>1, <1>6 DEF NeighborFetched, Threading, InTheMaps
  <2>2. chunk'[place["loop"]].kind \in Kinds /\ chunk'[place["loop"]] # Absent
    <3>1. CASE goal["loop"] = "generate"
      <4>1. heap[blocks[place["loop"]]] \in LiveBlocks
        BY <2>1, Known DEF TypeOK
      <4>2. chunk' = [chunk EXCEPT ![place["loop"]] = ToProto(heap[blocks[place["loop"]]])]
        BY <1>6, <3>1 DEF NeighborFetched, Generated
      <4>3. /\ ToProto(heap[blocks[place["loop"]]]).kind \in Kinds
            /\ ToProto(heap[blocks[place["loop"]]]) # Absent
        BY <4>1, ToProtoType, BlockManagerAssumption DEF Protos
      <4>4. QED
        BY <2>1, <4>2, <4>3 DEF TypeOK
    <3>2. CASE goal["loop"] = "loaded"
      BY <1>1, <1>2, <1>6, <2>1, <3>2 DEF NeighborFetched, InTheMaps
    <3>3. QED
      BY <1>6, <3>1, <3>2 DEF NeighborFetched
  <2>3. Create("loop", place["loop"], chunk'[place["loop"]].kind, "neighbor")
    BY <1>6 DEF NeighborFetched
  <2>4. pc["loop"] \notin Entering /\ UNCHANGED <<maps, ticked, created>>
    BY <1>6 DEF NeighborFetched, Entering, loopVars
  <2>5. QED
    BY <1>1, <2>1, <2>2, <2>3, <2>4 DEF Creation, Goals, GoalsOf
<1>7. CASE Spread
  <2>1. \A n \in near : n.place \in Places
    BY DEF TypeOK, Looping
  <2>2. PICK p \in Places : Create("loop", p, "fire", "spread")
    BY <1>7, <2>1 DEF Spread
  <2>3. QED
    BY <1>1, <1>3, <1>7, <2>2 DEF Spread, Creation, Entering, loopVars, Goals, GoalsOf
<1>8. CASE SetBlock /\ pc'["loop"] = "put"
  <2>1. place["loop"] \in Places
    BY <1>1, <1>8 DEF SetBlock, Threading
  <2>2. Create("loop", place["loop"], "fire", "setBlock")
    BY <1>1, <1>8 DEF SetBlock, Goto, Threading
  <2>3. QED
    BY <1>1, <1>3, <1>8, <2>1, <2>2 DEF SetBlock, Creation, Entering, loopVars, Goals, GoalsOf
<1>9. QED
  BY <1>4, <1>5, <1>6, <1>7, <1>8

LEMMA ChangeSteps ==
  ASSUME TypeOK, SoundBlocks, Threading, Looping, InTheMaps,
         \/ RequestLoaded \/ NeighborLoaded \/ NeighborCreated \/ TickBlock \/ Interact
  PROVE  Change /\ UNCHANGED maps
<1>1. "loop" \in Threads /\ "request" \in Threads
  BY DEF Threads
<1>2. heap \in [Objects -> LiveBlocks \cup {NoObject}]
  BY DEF TypeOK
<1>3. \A t \in Threads : pc[t] = "created" /\ goal[t] \in {"load", "neighbor"} =>
        /\ obj[t] \in Objects /\ Referenced(obj[t])
        /\ Sound(Filled(t)) /\ Filled(t).kind = heap[obj[t]].kind
  <2> SUFFICES ASSUME NEW t \in Threads, pc[t] = "created", goal[t] \in {"load", "neighbor"}
               PROVE  /\ obj[t] \in Objects /\ Referenced(obj[t])
                      /\ Sound(Filled(t)) /\ Filled(t).kind = heap[obj[t]].kind
    OBVIOUS
  <2>1. obj[t] \in Objects /\ place[t] \in Places
    BY DEF Threading, TypeOK
  <2>2. Referenced(obj[t]) /\ Sound(heap[obj[t]])
    BY <2>1, Known DEF SoundBlocks
  <2>3. chunk[place[t]] \in Protos
    BY <2>1, KnownKinds DEF InTheMaps
  <2>4. QED
    BY <2>1, <2>2, <2>3, FilledSound DEF Filled
<1>4. CASE RequestLoaded
  <2>1. /\ Sound(ResetChanges(Filled("request")))
        /\ ResetChanges(Filled("request")).kind = heap[obj["request"]].kind
    BY <1>1, <1>3, <1>4, ResetSound DEF RequestLoaded
  <2>2. heap' = [heap EXCEPT ![obj["request"]] = ResetChanges(Filled("request"))]
    BY <1>4 DEF RequestLoaded
  <2>3. QED
    BY <1>1, <1>2, <1>3, <1>4, <2>1, <2>2 DEF RequestLoaded, FillUnchanged, Change
<1>10. CASE NeighborLoaded
  <2>1. /\ Sound(ResetChanges(Filled("loop")))
        /\ ResetChanges(Filled("loop")).kind = heap[obj["loop"]].kind
    BY <1>1, <1>3, <1>10, ResetSound DEF NeighborLoaded
  <2>2. heap' = [heap EXCEPT ![obj["loop"]] = ResetChanges(Filled("loop"))]
    BY <1>10 DEF NeighborLoaded
  <2>3. QED
    BY <1>1, <1>2, <1>3, <1>10, <2>1, <2>2 DEF NeighborLoaded, FillUnchanged, Change
<1>5. CASE NeighborCreated
  <2>1. heap' = [heap EXCEPT ![obj["loop"]] = Filled("loop")]
    BY <1>5 DEF NeighborCreated
  <2>2. /\ obj["loop"] \in Objects /\ Referenced(obj["loop"])
        /\ Sound(Filled("loop")) /\ Filled("loop").kind = heap[obj["loop"]].kind
    BY <1>1, <1>3, <1>5 DEF NeighborCreated
  <2>3. QED
    BY <1>2, <1>5, <2>1, <2>2 DEF NeighborCreated, FillUnchanged, Change
<1>6. CASE TickBlock
  <2>1. ticked \in Objects
    BY <1>6 DEF TickBlock, Looping, TypeOK
  <2>2. Referenced(ticked) /\ Sound(heap[ticked])
    BY <2>1, Known DEF SoundBlocks
  <2>3. PICK after \in Tick(heap[ticked]) : heap' = [heap EXCEPT ![ticked] = after.block]
    BY <1>6 DEF TickBlock
  <2>4. Sound(after.block) /\ after.block.kind = heap[ticked].kind
    BY <2>2, TickSound
  <2>5. QED
    BY <1>2, <1>6, <2>1, <2>2, <2>3, <2>4 DEF TickBlock, Change
<1>7. ASSUME NEW p \in Places, NEW player \in Players, NEW what \in Interactions,
             InteractWithDoor(p, player, what)
      PROVE  Change /\ UNCHANGED maps
  <2> DEFINE o == interactiveBlocks[p]
  <2>1. o \in Objects /\ Referenced(o) /\ Sound(heap[o])
    BY <1>7, Known DEF InteractWithDoor, SoundBlocks
  <2>2. heap[o].kind = "door" /\ DoorAllows(heap[o], player, what)
        /\ heap' = [heap EXCEPT ![o] = DoorAfter(heap[o], player, what)]
    BY <1>7 DEF InteractWithDoor, Interacted
  <2>3. Sound(DoorAfter(heap[o], player, what)) /\ DoorAfter(heap[o], player, what).kind = "door"
    BY <2>1, <2>2, DoorSound
  <2> HIDE DEF o
  <2>4. QED
    BY <1>2, <1>7, <2>1, <2>2, <2>3 DEF InteractWithDoor, PlayerUnchanged, Change
<1>8. ASSUME NEW p \in Places, NEW player \in Players, NEW what \in Interactions,
             NEW item \in Items, NEW index \in 1..MaxStacks, NEW q \in 0..2,
             InteractWithChest(p, player, what, item, index, q)
      PROVE  Change /\ UNCHANGED maps
  <2> DEFINE o == interactiveBlocks[p]
             after == ChestAfter(Opened(heap[o]), player, what, item, index, q)
  <2>1. o \in Objects /\ Referenced(o) /\ Sound(heap[o])
    BY <1>8, Known DEF InteractWithChest, SoundBlocks
  <2>2. heap[o].kind = "chest" /\ ChestAllows(Opened(heap[o]), player, what, index)
        /\ heap' = [heap EXCEPT ![o] = after]
    BY <1>8 DEF InteractWithChest, Interacted
  <2>3. q \in Nat
    OBVIOUS
  <2>4. Sound(after) /\ after.kind = "chest"
    BY <2>1, <2>2, <2>3, ChestSound
  <2> HIDE DEF o, after
  <2>5. QED
    BY <1>2, <1>8, <2>1, <2>2, <2>4 DEF InteractWithChest, PlayerUnchanged, Change
<1>9. QED
  BY <1>4, <1>5, <1>6, <1>7, <1>8, <1>10 DEF Interact

(* Any other step leaves the objects alone. *)
LEMMA OtherSteps ==
  ASSUME TypeOK, Threading, Looping, InTheMaps, [Next]_vars, ~Creation
  PROVE  /\ NothingNew
         /\ heap' = heap \/ RequestLoaded \/ NeighborLoaded \/ NeighborCreated \/ TickBlock \/ Interact
<1>1. "loop" \in Threads /\ "request" \in Threads /\ "player" \in Threads
  BY DEF Threads
<1>2. NoObject \notin Objects
  BY BlockManagerAssumption
<1>3. obj \in [Threads -> Objects \cup {NoObject}]
  BY DEF Threading
<1> USE DEF NothingNew, Referenced, maps, threadVars, loopVars
<1>4. CASE \E due \in Dues : TakeDue(due)
  BY <1>4 DEF TakeDue, KeepsBlock, LoopUnchanged
<1>5. ASSUME NEW t \in Threads, Put(t) \/ Register(t) \/ SendUpdate(t)
      PROVE  NothingNew /\ heap' = heap
  <2>1. CASE Put(t)
    BY <1>5, <2>1 DEF Put, EnterUnchanged, TypeOK
  <2>2. CASE Register(t)
    BY <1>5, <2>2 DEF Register, EnterUnchanged, DynamicEntry, TypeOK
  <2>3. CASE SendUpdate(t)
    BY <1>5, <2>3 DEF SendUpdate, SendUnchanged
  <2>4. QED
    BY <1>5, <2>1, <2>2, <2>3
<1>6. ASSUME NEW p \in Places, NextBlock(p) \/ NeighborFound(p)
      PROVE  NothingNew /\ heap' = heap
  BY <1>6 DEF NextBlock, NeighborFound, KeepsBlock, LoopUnchanged
<1>7. CASE SpreadToFire \/ Reschedule \/ SendPlaced \/ PlayerSends \/ RequestGenerated
  BY <1>1, <1>2, <1>3, <1>7 DEF SpreadToFire, Reschedule, SendPlaced, PlayerSends, RequestGenerated,
       Forget, Done, Clear, LoopUnchanged, KeepsBlock, SendUnchanged, FillUnchanged
<1>8. CASE RequestLoaded \/ NeighborLoaded \/ NeighborCreated
  BY <1>1, <1>2, <1>3, <1>8 DEF RequestLoaded, NeighborLoaded, NeighborCreated, Done, Clear, FillUnchanged
<1>9. CASE TickBlock
  BY <1>1, <1>3, <1>9 DEF TickBlock, Enter
<1>10. CASE SetBlock /\ pc'["loop"] # "put"
  BY <1>1, <1>10 DEF SetBlock, Create, Enter, Goto, Threading
<1>11. CASE Interact
  <2>1. ASSUME NEW p \in Places, NEW after, Interacted(p, after), PlayerUnchanged
        PROVE  NothingNew
    BY <1>1, <1>3, <2>1 DEF Interacted, PlayerUnchanged, Enter
  <2>2. QED
    BY <1>11, <2>1 DEF Interact, InteractWithDoor, InteractWithChest
<1>12. CASE ReadEvent \/ UNCHANGED vars
  BY <1>12 DEF ReadEvent, vars
<1>13. ~(\E p \in Places : RequestFetches(p) \/ NeighborMissing(p)) /\ ~NeighborFetched /\ ~Spread
       /\ ~(SetBlock /\ pc'["loop"] = "put")
  BY CreationSteps
<1>14. QED
  BY <1>1, <1>4, <1>5, <1>6, <1>7, <1>8, <1>9, <1>10, <1>11, <1>12, <1>13
     DEF Next, LoopStep, RequestStep, PlayerStep, Enters

(* Every known block stays sound and of its kind, and so does every one that *)
(* becomes known.                                                            *)
LEMMA HeapStep ==
  ASSUME TypeOK, SoundBlocks, Threading, Looping, InTheMaps, [Next]_vars
  PROVE  /\ heap' \in [Objects -> LiveBlocks \cup {NoObject}]
         /\ SoundBlocks'
         /\ \A o \in Objects : Referenced(o) /\ Referenced(o)' => heap'[o].kind = heap[o].kind
<1>1. CASE Creation
  <2>1. PICK t \in Threads, p \in Places, kind \in Kinds, why \in Goals :
          Create(t, p, kind, why) /\ UNCHANGED <<maps, ticked>>
    BY <1>1 DEF Creation
  <2>2. PICK o \in Objects :
           /\ ~Referenced(o)
           /\ heap' \in [Objects -> LiveBlocks \cup {NoObject}]
           /\ \A r \in Objects : Referenced(r)' => r = o \/ (Referenced(r) /\ heap'[r] = heap[r])
           /\ Sound(heap'[o])
    BY <2>1, Creates
  <2>3. QED
    BY <2>2 DEF SoundBlocks
<1>2. CASE ~Creation
  <2>1. NothingNew
    BY <1>2, OtherSteps
  <2>2. CASE heap' = heap
    BY <2>1, <2>2 DEF NothingNew, SoundBlocks, TypeOK
  <2>3. CASE Change
    <3>1. PICK o \in Objects :
            /\ heap' = [heap EXCEPT ![o] = heap'[o]]
            /\ Sound(heap'[o]) /\ heap'[o].kind = heap[o].kind
      BY <2>3 DEF Change
    <3>2. \A r \in Objects : r # o => heap'[r] = heap[r]
      BY <3>1 DEF TypeOK
    <3>3. heap' \in [Objects -> LiveBlocks \cup {NoObject}]
      BY <3>1 DEF TypeOK, Sound
    <3>4. QED
      BY <2>1, <3>1, <3>2, <3>3 DEF NothingNew, SoundBlocks
  <2>4. QED
    BY <1>2, <2>2, <2>3, OtherSteps, ChangeSteps
<1>3. QED
  BY <1>1, <1>2

-----------------------------------------------------------------------------
(* Who enters a block, and where.                                          *)

(* Thread t goes on, and may let go of its block. *)
Moves(t) ==
  \E step \in StepsOf(t) \ (Entering \cup {"created"}) :
    /\ pc[t] \notin Entering /\ Goto(t, step)
    /\ \/ KeepsBlock /\ (step = "placed" => pc[t] = "created")
       \/ Clear(t) /\ step # "placed"
(* The loop has loaded a chunk and is about to create the block again. *)
Loaded ==
  /\ pc["loop"] = "created" /\ goal["loop"] = "load"
  /\ goal' = [goal EXCEPT !["loop"] = "loaded"]
  /\ UNCHANGED <<pc, place, obj>>
Quiet ==
  /\ UNCHANGED <<maps, torn, created>>
  /\ UNCHANGED threadVars \/ Loaded \/ \E t \in Threads : Moves(t)

(* No thread begins or ends to enter a block. *)
KeepsEntry(t) ==
  \/ UNCHANGED <<pc[t], goal[t], place[t], obj[t]>>
  \/ /\ UNCHANGED <<pc[t], place[t], obj[t]>>
     /\ t = "loop" /\ pc[t] = "created" /\ goal[t] = "load" /\ goal'[t] = "loaded"
  \/ pc[t] \notin Entering /\ pc'[t] \notin Entering \cup {"created"}

LEMMA QuietKeeps ==
  ASSUME Threading, Quiet, NEW t \in Threads
  PROVE  KeepsEntry(t)
BY DEF Threading, Quiet, Loaded, Moves, Goto, Clear, KeepsBlock, KeepsEntry, threadVars

NewEntry ==
  \E t \in Threads, p \in Places, o \in Objects, why \in Goals :
    /\ pc[t] \notin Entering /\ why \in GoalsOf(t) /\ Enter(t, p, o, why)
    /\ why \in {"load", "loaded", "neighbor"} => chunk'[p] # Absent
    /\ why = "update" => dynamicBlocks[p] # NoObject
    /\ UNCHANGED <<maps, created>>

(* A place whose block the loop has in its hands has an entry, so a dynamic block. *)
LEMMA CurrentIsDynamic ==
  ASSUME TypeOK, DynamicOnce, StaysScheduled, NEW p \in Places, current = p \/ batch[p] > 0
  PROVE  dynamicBlocks[p] # NoObject
<1>1. /\ updateQueue[p] \in Nat /\ batch[p] \in Nat /\ created[p] \in Nat /\ dropped[p] \in Nat
  BY DEF TypeOK
<1>2. Pending(p) > 0 /\ Pending(p) \in Nat
  BY <1>1 DEF Pending
<1>3. created[p] > 0
  BY <1>1, <1>2 DEF StaysScheduled
<1>4. QED
  BY <1>3 DEF DynamicOnce

LEMMA EntrySteps ==
  ASSUME IInv, [Next]_vars
  PROVE  Quiet \/ NewEntry \/ \E t \in Threads : Put(t) \/ Register(t)
<1>1. "loop" \in Threads /\ "request" \in Threads /\ "player" \in Threads
  BY DEF Threads
<1>2. /\ pc \in [Threads -> Steps] /\ goal \in [Threads -> Goals]
      /\ place \in [Threads -> Places \cup {NoPlace}] /\ obj \in [Threads -> Objects \cup {NoObject}]
  BY DEF IInv, Threading
<1>3. CASE Creation
  <2>1. PICK t \in Threads, p \in Places, kind \in Kinds, why \in Goals \ {"update"} :
          /\ Create(t, p, kind, why)
          /\ why \in {"load", "loaded", "neighbor"} => chunk'[p] # Absent
          /\ pc[t] \notin Entering /\ why \in GoalsOf(t)
          /\ UNCHANGED <<maps, ticked, created>>
    BY <1>3 DEF Creation
  <2>2. \E o \in Objects : Enter(t, p, o, why)
    BY <2>1, Creates DEF IInv
  <2>3. QED
    BY <2>1, <2>2 DEF NewEntry
<1>4. ASSUME NEW t \in Threads, SendUpdate(t)
      PROVE  Quiet
  <2>1. pc[t] = "send" /\ t \in {"loop", "player"}
    BY <1>4 DEF SendUpdate, IInv, Threading, StepsOf, Entering, Threads
  <2>2. Updated(t) \in StepsOf(t) \ (Entering \cup {"created", "placed"})
    BY <2>1 DEF Updated, StepsOf, Entering
  <2>3. QED
    BY <1>4, <2>1, <2>2 DEF SendUpdate, SendUnchanged, history, KeepsBlock, Quiet, Moves, Entering
<1>5. CASE (\E due \in Dues : TakeDue(due)) \/ \E p \in Places : NextBlock(p)
  BY <1>1, <1>2, <1>5 DEF TakeDue, NextBlock, Goto, KeepsBlock, LoopUnchanged, Quiet, Moves, StepsOf, Entering
<1>6. ASSUME NEW p \in Places, NeighborFound(p)
      PROVE  Quiet
  BY <1>6 DEF NeighborFound, KeepsBlock, LoopUnchanged, Quiet, threadVars
<1>7. CASE RequestLoaded \/ RequestGenerated \/ NeighborCreated
  BY <1>1, <1>2, <1>7 DEF RequestLoaded, RequestGenerated, NeighborCreated, FillUnchanged, Done, Clear, Goto,
       history, Quiet, Moves, StepsOf, Entering
<1>8. CASE SpreadToFire \/ SendPlaced \/ Reschedule \/ PlayerSends
  BY <1>1, <1>2, <1>8 DEF SpreadToFire, SendPlaced, Reschedule, PlayerSends, Done, Clear, Goto, KeepsBlock,
       LoopUnchanged, SendUnchanged, history, Quiet, Moves, StepsOf, Entering
<1>9. CASE SetBlock /\ pc'["loop"] # "put"
  BY <1>1, <1>2, <1>9 DEF SetBlock, Create, Enter, Goto, KeepsBlock, Quiet, Moves, StepsOf, Entering
<1>10. CASE TickBlock
  <2>1. current \in Places /\ ticked \in Objects /\ pc["loop"] \notin Entering
    BY <1>10 DEF TickBlock, IInv, Looping, TypeOK, Entering
  <2>2. dynamicBlocks[current] # NoObject
    BY <2>1, CurrentIsDynamic DEF IInv
  <2>3. UNCHANGED <<maps, created>>
    BY <1>10 DEF TickBlock
  <2>4. CASE Enter("loop", current, ticked, "update")
    BY <1>1, <2>1, <2>2, <2>3, <2>4 DEF NewEntry, Goals, GoalsOf
  <2>5. CASE Goto("loop", "spread") /\ UNCHANGED <<goal, place, obj, torn>>
    BY <1>1, <2>1, <2>3, <2>5 DEF KeepsBlock, Quiet, Moves, StepsOf, Entering
  <2>6. QED
    BY <1>10, <2>4, <2>5 DEF TickBlock
<1>11. CASE Interact
  <2>1. PICK p \in Places :
          /\ pc["player"] = "idle" /\ interactiveBlocks[p] # NoObject
          /\ \E after : Interacted(p, after)
          /\ PlayerUnchanged
    BY <1>11 DEF Interact, InteractWithDoor, InteractWithChest
  <2>2. dynamicBlocks[p] # NoObject /\ interactiveBlocks[p] \in Objects
    BY <2>1, Known DEF IInv, DynamicOnce
  <2>3. CASE Enter("player", p, interactiveBlocks[p], "update")
    BY <1>1, <2>1, <2>2, <2>3 DEF NewEntry, Goals, GoalsOf, PlayerUnchanged, Entering
  <2>4. CASE Goto("player", "updated") /\ UNCHANGED <<goal, place, obj, torn>>
    BY <1>1, <2>1, <2>4 DEF KeepsBlock, Quiet, Moves, StepsOf, Entering, PlayerUnchanged
  <2>5. QED
    BY <2>1, <2>3, <2>4 DEF Interacted
<1>12. CASE ReadEvent \/ UNCHANGED vars
  BY <1>12 DEF ReadEvent, vars, threadVars, history, Quiet, Moves
<1>15. CASE NeighborLoaded
  BY <1>15 DEF NeighborLoaded, FillUnchanged, history, Quiet, Loaded
<1>13. CASE ~Creation
  <2>1. ~(\E p \in Places : RequestFetches(p) \/ NeighborMissing(p)) /\ ~NeighborFetched /\ ~Spread
         /\ ~(SetBlock /\ pc'["loop"] = "put")
    BY <1>13, CreationSteps DEF IInv
  <2>2. QED
    BY <1>1, <1>4, <1>5, <1>6, <1>7, <1>8, <1>9, <1>10, <1>11, <1>12, <1>15, <2>1
       DEF Next, LoopStep, RequestStep, PlayerStep, Enters
<1>14. QED
  BY <1>3, <1>13

(* A chunk that is there stays, and what is saved to it is well-formed. *)
LEMMA ChunkStep ==
  ASSUME IInv, [Next]_vars
  PROVE  /\ chunk' \in [Places -> Protos \cup {Absent}]
         /\ \A p \in Places : chunk[p] # Absent => chunk'[p] # Absent
<1> DEFINE Grows == \E q \in Places, proto \in Protos : chunk' = [chunk EXCEPT ![q] = proto]
<1>1. chunk \in [Places -> Protos \cup {Absent}] /\ Absent \notin Protos
  BY BlockManagerAssumption DEF IInv, TypeOK
<1>2. Grows => /\ chunk' \in [Places -> Protos \cup {Absent}]
               /\ \A p \in Places : chunk[p] # Absent => chunk'[p] # Absent
  BY <1>1
<1>3. ASSUME NEW t \in Threads, pc[t] = "created"
      PROVE  place[t] \in Places /\ ToProto(heap[blocks[place[t]]]) \in Protos
  <2>1. place[t] \in Places /\ blocks[place[t]] # NoObject
    BY <1>3 DEF IInv, Threading, InTheMaps
  <2>2. heap[blocks[place[t]]] \in LiveBlocks
    BY <2>1, Known DEF IInv, TypeOK
  <2>3. QED
    BY <2>1, <2>2, ToProtoType
<1>4. "loop" \in Threads /\ "request" \in Threads
  BY DEF Threads
<1>5. CASE RequestGenerated
  <2>1. /\ chunk' = [chunk EXCEPT ![place["request"]] = ToProto(heap[blocks[place["request"]]])]
        /\ pc["request"] = "created"
    BY <1>5 DEF RequestGenerated, Generated
  <2>2. Grows
    BY <1>3, <1>4, <2>1
  <2>3. QED
    BY <1>2, <2>2
<1>6. CASE NeighborFetched
  <2>1. chunk' = chunk \/ chunk' = [chunk EXCEPT ![place["loop"]] = ToProto(heap[blocks[place["loop"]]])]
    BY <1>6 DEF NeighborFetched, Generated
  <2>2. pc["loop"] = "created"
    BY <1>6 DEF NeighborFetched
  <2>3. Grows \/ chunk' = chunk
    BY <1>3, <1>4, <2>1, <2>2
  <2>4. QED
    BY <1>1, <1>2, <2>3
<1>7. CASE SetBlock
  <2>1. ToProto(New("fire")) \in Protos
    BY NewSound, ToProtoType DEF Sound, Kinds
  <2>2. place["loop"] \in Places
    BY <1>4, <1>7 DEF SetBlock, IInv, Threading
  <2>3. Grows \/ chunk' = chunk
    BY <1>7, <2>1, <2>2 DEF SetBlock
  <2>4. QED
    BY <1>1, <1>2, <2>3
<1>8. CASE ~RequestGenerated /\ ~NeighborFetched /\ ~SetBlock
  <2>1. chunk' = chunk
    BY <1>8 DEF Next, LoopStep, RequestStep, PlayerStep, Interact, Enters, TakeDue, Put, Register, SendUpdate,
         NextBlock, NeighborFound, NeighborMissing, NeighborLoaded, NeighborCreated, TickBlock, SpreadToFire, Spread,
         SendPlaced, Reschedule, RequestFetches, RequestLoaded, PlayerSends, InteractWithDoor,
         InteractWithChest, ReadEvent, vars, EnterUnchanged, SendUnchanged, LoopUnchanged, FillUnchanged,
         PlayerUnchanged
  <2>2. QED
    BY <1>1, <2>1
<1>9. QED
  BY <1>5, <1>6, <1>7, <1>8

(* Put and Register, for what they change. *)
LEMMA PutStep ==
  ASSUME IInv, NEW t \in Threads, Put(t)
  PROVE  /\ pc[t] = "put" /\ place[t] \in Places /\ obj[t] \in Objects
         /\ blocks' = [blocks EXCEPT ![place[t]] = obj[t]]
         /\ UNCHANGED <<dynamicBlocks, interactiveBlocks, created, heap, chunk, goal, place, obj, torn>>
         /\ \A u \in Threads : u # t => pc'[u] = pc[u]
         /\ IsDynamic(obj[t]) => pc'[t] = "register"
         /\ ~IsDynamic(obj[t]) => pc'[t] \in {"send", "spread", "updated", "created"}
         /\ pc'[t] = "created" => goal[t] # "update"
<1>1. pc[t] = "put" /\ place[t] \in Places /\ obj[t] \in Objects /\ pc \in [Threads -> Steps]
  BY DEF Put, IInv, Threading, Entering, TypeOK
<1>2. QED
  BY <1>1 DEF Put, EnterUnchanged, Goto, Entered, Updated, Updating

LEMMA RegisterStep ==
  ASSUME IInv, NEW t \in Threads, Register(t)
  PROVE  /\ pc[t] = "register" /\ place[t] \in Places /\ obj[t] \in Objects
         /\ dynamicBlocks' = [dynamicBlocks EXCEPT ![place[t]] = obj[t]]
         /\ interactiveBlocks' = [interactiveBlocks EXCEPT ![place[t]] =
                                    IF IsInteractive(obj[t]) THEN obj[t] ELSE @]
         /\ created' = [created EXCEPT ![place[t]] = IF goal[t] = "update" THEN @ ELSE @ + 1]
         /\ UNCHANGED <<blocks, heap, chunk, goal, place, obj, torn>>
         /\ \A u \in Threads : u # t => pc'[u] = pc[u]
         /\ pc'[t] \in {"send", "spread", "updated", "created"}
         /\ pc'[t] = "created" => goal[t] # "update"
<1>1. pc[t] = "register" /\ place[t] \in Places /\ obj[t] \in Objects /\ pc \in [Threads -> Steps]
  BY DEF Register, IInv, Threading, Entering, TypeOK
<1>2. interactiveBlocks \in [Places -> Objects \cup {NoObject}] /\ created \in [Places -> Nat]
  BY DEF IInv, TypeOK
<1>3. QED
  BY <1>1, <1>2 DEF Register, EnterUnchanged, Goto, Entered, Updated, Updating, DynamicEntry, Scheduled

LEMMA MapsStay ==
  ASSUME IInv, [Next]_vars
  PROVE  /\ \A p \in Places :
              /\ blocks[p] # NoObject => blocks'[p] # NoObject
              /\ dynamicBlocks[p] # NoObject => dynamicBlocks'[p] # NoObject
         /\ {blocks', dynamicBlocks', interactiveBlocks'} \subseteq [Places -> Objects \cup {NoObject}]
<1>1. /\ {blocks, dynamicBlocks, interactiveBlocks} \subseteq [Places -> Objects \cup {NoObject}]
      /\ NoObject \notin Objects
  BY BlockManagerAssumption DEF IInv, TypeOK
<1>2. ASSUME NEW t \in Threads, Put(t)
      PROVE  /\ obj[t] \in Objects /\ place[t] \in Places
             /\ blocks' = [blocks EXCEPT ![place[t]] = obj[t]]
             /\ UNCHANGED <<dynamicBlocks, interactiveBlocks>>
  BY <1>2, PutStep
<1>3. ASSUME NEW t \in Threads, Register(t)
      PROVE  /\ obj[t] \in Objects /\ place[t] \in Places
             /\ dynamicBlocks' = [dynamicBlocks EXCEPT ![place[t]] = obj[t]]
             /\ interactiveBlocks' = [interactiveBlocks EXCEPT ![place[t]] =
                                        IF IsInteractive(obj[t]) THEN obj[t] ELSE @]
             /\ UNCHANGED blocks
  BY <1>3, RegisterStep
<1>4. CASE UNCHANGED maps
  BY <1>1, <1>4 DEF maps
<1>5. CASE \E t \in Threads : Put(t)
  BY <1>1, <1>2, <1>5
<1>6. CASE \E t \in Threads : Register(t)
  BY <1>1, <1>3, <1>6
<1>7. QED
  BY <1>4, <1>5, <1>6, EntrySteps DEF Quiet, NewEntry

LEMMA OneEntersStep ==
  ASSUME IInv, [Next]_vars
  PROVE  OneEnters'
<1>1. OneEnters /\ pc \in [Threads -> Steps] /\ place \in [Threads -> Places \cup {NoPlace}]
      /\ obj \in [Threads -> Objects \cup {NoObject}] /\ blocks \in [Places -> Objects \cup {NoObject}]
  BY DEF IInv, Threading, TypeOK
<1>2. CASE Quiet
  <2>1. \A t \in Threads, p \in Places : EnteringAt(t, p)' => EnteringAt(t, p) /\ pc'[t] = pc[t] /\ obj'[t] = obj[t]
    BY <1>2, QuietKeeps DEF IInv, KeepsEntry, EnteringAt
  <2>2. QED
    BY <1>1, <1>2, <2>1 DEF Quiet, OneEnters, maps
<1>3. CASE NewEntry
  <2>1. PICK t \in Threads, p \in Places, o \in Objects, why \in Goals :
          pc[t] \notin Entering /\ Enter(t, p, o, why) /\ UNCHANGED maps
    BY <1>3 DEF NewEntry
  <2>2. /\ pc'[t] = "put" /\ place'[t] = p
        /\ \A u \in Threads \ {t} : pc'[u] = pc[u] /\ place'[u] = place[u] /\ obj'[u] = obj[u]
        /\ torn' = IF \E u \in Threads : EnteringAt(u, p) THEN torn \cup {p} ELSE torn \ {p}
    BY <1>1, <2>1 DEF Enter, Goto, EnteringAt
  <2>3. ASSUME NEW q \in Places \ torn', NEW u \in Threads, EnteringAt(u, q)'
        PROVE  /\ \A w \in Threads : EnteringAt(w, q)' => w = u
               /\ pc'[u] = "register" => blocks'[q] = obj'[u]
    <3>1. CASE q = p
      BY <2>1, <2>2, <2>3, <3>1 DEF EnteringAt
    <3>2. CASE q # p
      <4>1. q \notin torn /\ u # t
        BY <2>2, <2>3, <3>2 DEF EnteringAt
      <4>2. \A w \in Threads : EnteringAt(w, q)' => EnteringAt(w, q) /\ w # t
        BY <2>2, <3>2 DEF EnteringAt
      <4>3. QED
        BY <1>1, <2>1, <2>2, <2>3, <4>1, <4>2 DEF OneEnters, maps
    <3>3. QED
      BY <3>1, <3>2
  <2>4. QED
    BY <2>3 DEF OneEnters
<1>4. ASSUME NEW t \in Threads, Put(t)
      PROVE  OneEnters'
  <2>1. /\ pc[t] = "put" /\ place[t] \in Places /\ blocks' = [blocks EXCEPT ![place[t]] = obj[t]]
        /\ UNCHANGED <<place, obj, torn>> /\ \A u \in Threads : u # t => pc'[u] = pc[u]
    BY <1>4, PutStep
  <2>2. \A u \in Threads, q \in Places : EnteringAt(u, q)' => EnteringAt(u, q)
    BY <2>1 DEF EnteringAt, Entering
  <2>3. ASSUME NEW q \in Places \ torn, NEW u \in Threads, EnteringAt(u, q)', pc'[u] = "register"
        PROVE  blocks'[q] = obj'[u]
    <3>1. EnteringAt(u, q) /\ place[u] = q
      BY <2>2, <2>3 DEF EnteringAt
    <3>2. CASE u = t
      BY <1>1, <2>1, <3>1, <3>2
    <3>3. CASE u # t
      <4>1. ~EnteringAt(t, q)
        BY <1>1, <3>1, <3>3 DEF OneEnters
      <4>2. place[t] # q /\ pc[u] = "register"
        BY <2>1, <2>3, <3>3, <4>1 DEF EnteringAt, Entering
      <4>3. QED
        BY <1>1, <2>1, <3>1, <4>2 DEF OneEnters
    <3>4. QED
      BY <3>2, <3>3
  <2>4. QED
    BY <1>1, <2>1, <2>2, <2>3 DEF OneEnters
<1>5. ASSUME NEW t \in Threads, Register(t)
      PROVE  OneEnters'
  <2>1. /\ pc'[t] \notin Entering /\ \A u \in Threads : u # t => pc'[u] = pc[u]
        /\ UNCHANGED <<place, obj, torn, blocks>>
    BY <1>5, RegisterStep DEF Entering
  <2>2. \A u \in Threads, q \in Places : EnteringAt(u, q)' => EnteringAt(u, q) /\ pc'[u] = pc[u]
    BY <2>1 DEF EnteringAt
  <2>3. QED
    BY <1>1, <2>1, <2>2 DEF OneEnters
<1>6. QED
  BY <1>2, <1>3, <1>4, <1>5, EntrySteps

LEMMA MapsAgreeStep ==
  ASSUME IInv, [Next]_vars
  PROVE  MapsAgree'
<1> DEFINE Quieted(p) == blocks[p] # NoObject /\ p \notin torn /\ ~\E t \in Threads : EnteringAt(t, p)
           Agrees(p) == /\ IsDynamic(blocks[p]) => dynamicBlocks[p] = blocks[p]
                        /\ IsInteractive(blocks[p]) => interactiveBlocks[p] = blocks[p]
<1>1. MapsAgree <=> \A p \in Places : Quieted(p) => Agrees(p)
  BY DEF MapsAgree, EnteringAt
<1>2. MapsAgree' <=> \A p \in Places : Quieted(p)' => Agrees(p)'
  BY DEF MapsAgree, EnteringAt
<1>3. ASSUME NEW p \in Places, Quieted(p)', Agrees(p), blocks[p] # NoObject,
             UNCHANGED <<blocks[p], dynamicBlocks[p], interactiveBlocks[p]>>
      PROVE  Agrees(p)'
  <2>1. blocks[p] \in Objects /\ Referenced(blocks[p])
    BY <1>3, Known DEF IInv
  <2>2. Referenced(blocks[p])'
    BY <1>3 DEF Referenced
  <2>3. heap'[blocks[p]].kind = heap[blocks[p]].kind
    BY <2>1, <2>2, <1>3, HeapStep DEF IInv
  <2>4. QED
    BY <1>3, <2>3 DEF IsDynamic, IsInteractive
<1>4. ASSUME NEW p \in Places, Quieted(p), UNCHANGED <<blocks[p], dynamicBlocks[p], interactiveBlocks[p]>>,
             Quieted(p)'
      PROVE  Agrees(p)'
  BY <1>1, <1>3, <1>4 DEF IInv
<1>5. /\ pc \in [Threads -> Steps] /\ place \in [Threads -> Places \cup {NoPlace}]
      /\ {blocks, dynamicBlocks, interactiveBlocks} \subseteq [Places -> Objects \cup {NoObject}]
  BY DEF IInv, Threading, TypeOK
<1>6. CASE Quiet
  <2>1. ASSUME NEW p \in Places, Quieted(p)'
        PROVE  Quieted(p) /\ UNCHANGED <<blocks[p], dynamicBlocks[p], interactiveBlocks[p]>>
    BY <1>6, <2>1, QuietKeeps DEF IInv, Quiet, KeepsEntry, EnteringAt, maps
  <2>2. QED
    BY <1>2, <1>4, <2>1
<1>7. CASE NewEntry
  <2>1. PICK t \in Threads, p \in Places, o \in Objects, why \in Goals :
          pc[t] \notin Entering /\ Enter(t, p, o, why) /\ UNCHANGED maps
    BY <1>7 DEF NewEntry
  <2>2. /\ pc'[t] \in Entering /\ place'[t] = p
        /\ \A u \in Threads \ {t} : pc'[u] = pc[u] /\ place'[u] = place[u]
        /\ \A q \in Places \ {p} : q \in torn <=> q \in torn'
    BY <1>5, <2>1 DEF Enter, Goto, Entering
  <2>3. ASSUME NEW q \in Places, Quieted(q)'
        PROVE  Quieted(q) /\ UNCHANGED <<blocks[q], dynamicBlocks[q], interactiveBlocks[q]>>
    <3>1. q # p
      BY <2>2, <2>3 DEF EnteringAt
    <3>2. QED
      BY <2>1, <2>2, <2>3, <3>1 DEF EnteringAt, maps
  <2>4. QED
    BY <1>2, <1>4, <2>3
<1>8. ASSUME NEW t \in Threads, Put(t)
      PROVE  MapsAgree'
  <2>1. /\ pc[t] = "put" /\ place[t] \in Places /\ obj[t] \in Objects
        /\ blocks' = [blocks EXCEPT ![place[t]] = obj[t]]
        /\ UNCHANGED <<dynamicBlocks, interactiveBlocks, heap, place, obj, torn>>
        /\ \A u \in Threads : u # t => pc'[u] = pc[u]
        /\ IsDynamic(obj[t]) => pc'[t] = "register"
    BY <1>8, PutStep
  <2>2. ASSUME NEW p \in Places, Quieted(p)', p = place[t]
        PROVE  Agrees(p)'
    <3>1. blocks'[p] = obj[t] /\ pc'[t] # "register"
      BY <1>5, <2>1, <2>2 DEF EnteringAt, Entering
    <3>2. heap[obj[t]].kind \notin DynamicKinds
      BY <2>1, <3>1 DEF IsDynamic
    <3>3. QED
      BY <2>1, <3>1, <3>2, KindSets DEF IsDynamic, IsInteractive
  <2>3. ASSUME NEW p \in Places, Quieted(p)', p # place[t]
        PROVE  Quieted(p) /\ UNCHANGED <<blocks[p], dynamicBlocks[p], interactiveBlocks[p]>>
    BY <1>5, <2>1, <2>3 DEF EnteringAt
  <2>4. QED
    BY <1>2, <1>4, <2>2, <2>3
<1>9. ASSUME NEW t \in Threads, Register(t)
      PROVE  MapsAgree'
  <2>1. /\ pc[t] = "register" /\ place[t] \in Places /\ obj[t] \in Objects
        /\ dynamicBlocks' = [dynamicBlocks EXCEPT ![place[t]] = obj[t]]
        /\ interactiveBlocks' = [interactiveBlocks EXCEPT ![place[t]] =
                                   IF IsInteractive(obj[t]) THEN obj[t] ELSE @]
        /\ UNCHANGED <<blocks, heap, place, obj, torn>>
        /\ \A u \in Threads : u # t => pc'[u] = pc[u]
    BY <1>9, RegisterStep
  <2>2. ASSUME NEW p \in Places, Quieted(p)', p = place[t]
        PROVE  Agrees(p)'
    <3>1. EnteringAt(t, p) /\ p \notin torn
      BY <2>1, <2>2 DEF EnteringAt, Entering
    <3>2. blocks[p] = obj[t]
      BY <2>1, <3>1 DEF IInv, OneEnters
    <3>3. dynamicBlocks'[p] = obj[t] /\ (IsInteractive(obj[t]) => interactiveBlocks'[p] = obj[t])
      BY <1>5, <2>1, <2>2
    <3>4. QED
      BY <2>1, <3>2, <3>3 DEF IsDynamic, IsInteractive
  <2>3. ASSUME NEW p \in Places, Quieted(p)', p # place[t]
        PROVE  Quieted(p) /\ UNCHANGED <<blocks[p], dynamicBlocks[p], interactiveBlocks[p]>>
    BY <1>5, <2>1, <2>3 DEF EnteringAt
  <2>4. QED
    BY <1>2, <1>4, <2>2, <2>3
<1>10. QED
  BY <1>6, <1>7, <1>8, <1>9, EntrySteps

LEMMA InTheMapsStep ==
  ASSUME IInv, [Next]_vars
  PROVE  InTheMaps'
<1> DEFINE Knows(t) ==
             /\ pc[t] = "register" => IsDynamic(obj[t])
             /\ pc[t] \in {"register", "created"} => blocks[place[t]] # NoObject
             /\ pc[t] \in Entering \cup {"created"} =>
                  /\ goal[t] \in {"load", "loaded", "neighbor"} => chunk[place[t]] # Absent
                  /\ goal[t] = "update" => dynamicBlocks[place[t]] # NoObject
<1>1. \A t \in Threads : Knows(t)
  BY DEF IInv, InTheMaps
<1>2. InTheMaps' <=> \A t \in Threads : Knows(t)'
  BY DEF InTheMaps
<1>3. /\ \A p \in Places :
           /\ blocks[p] # NoObject => blocks'[p] # NoObject
           /\ dynamicBlocks[p] # NoObject => dynamicBlocks'[p] # NoObject
           /\ chunk[p] # Absent => chunk'[p] # Absent
  BY MapsStay, ChunkStep
<1>4. \A t \in Threads :
        pc[t] \in Entering \cup {"created"} => place[t] \in Places
  BY DEF IInv, Threading
<1>5. ASSUME NEW t \in Threads, UNCHANGED <<pc[t], goal[t], place[t], obj[t]>>
      PROVE  Knows(t)'
  <2>1. pc[t] = "register" => IsDynamic(obj[t])'
    <3>1. SUFFICES ASSUME pc[t] = "register"
                   PROVE  IsDynamic(obj[t])'
      OBVIOUS
    <3>2. obj[t] \in Objects /\ Referenced(obj[t])
      BY <1>4, <3>1, Known DEF IInv, TypeOK, Entering
    <3>3. Referenced(obj[t])'
      BY <1>5 DEF Referenced
    <3>4. heap'[obj[t]].kind = heap[obj[t]].kind
      BY <1>5, <3>2, <3>3, HeapStep DEF IInv
    <3>5. QED
      BY <1>1, <1>5, <3>1, <3>4 DEF IsDynamic
  <2>2. QED
    BY <1>1, <1>3, <1>4, <1>5, <2>1 DEF Entering
<1>6. ASSUME NEW t \in Threads, pc'[t] \notin Entering \cup {"created"}
      PROVE  Knows(t)'
  BY <1>6 DEF Entering
<1>7. /\ pc \in [Threads -> Steps] /\ goal \in [Threads -> Goals]
      /\ place \in [Threads -> Places \cup {NoPlace}] /\ obj \in [Threads -> Objects \cup {NoObject}]
      /\ blocks \in [Places -> Objects \cup {NoObject}] /\ NoObject \notin Objects
  BY BlockManagerAssumption DEF IInv, Threading, TypeOK
<1>8. ASSUME NEW t \in Threads, UNCHANGED <<pc[t], place[t], obj[t]>>,
              pc[t] = "created", goal[t] = "load", goal'[t] = "loaded"
       PROVE  Knows(t)'
  <2>1. place[t] \in Places /\ blocks[place[t]] # NoObject /\ chunk[place[t]] # Absent
    BY <1>1, <1>4, <1>8
  <2>2. QED
    BY <1>3, <1>8, <2>1 DEF Entering
<1>9. CASE Quiet
  BY <1>2, <1>5, <1>6, <1>8, <1>9, QuietKeeps DEF IInv, KeepsEntry
<1>10. CASE NewEntry
  <2>1. PICK t \in Threads, p \in Places, o \in Objects, why \in Goals :
          /\ Enter(t, p, o, why)
          /\ why \in {"load", "loaded", "neighbor"} => chunk'[p] # Absent
          /\ why = "update" => dynamicBlocks[p] # NoObject
    BY <1>10 DEF NewEntry
  <2>2. /\ pc'[t] = "put" /\ goal'[t] = why /\ place'[t] = p
        /\ \A u \in Threads \ {t} : UNCHANGED <<pc[u], goal[u], place[u], obj[u]>>
    BY <1>7, <2>1 DEF Enter, Goto
  <2>3. Knows(t)'
    BY <1>3, <2>1, <2>2
  <2>4. QED
    BY <1>2, <1>5, <2>2, <2>3
<1>11. ASSUME NEW t \in Threads, Put(t)
       PROVE  InTheMaps'
  <2>1. /\ pc[t] = "put" /\ place[t] \in Places /\ obj[t] \in Objects
        /\ blocks' = [blocks EXCEPT ![place[t]] = obj[t]]
        /\ UNCHANGED <<dynamicBlocks, heap, chunk, goal, place, obj>>
        /\ \A u \in Threads : u # t => pc'[u] = pc[u]
        /\ ~IsDynamic(obj[t]) => pc'[t] \in {"send", "spread", "updated", "created"}
    BY <1>11, PutStep
  <2>2. blocks'[place[t]] # NoObject /\ (pc'[t] = "register" => IsDynamic(obj[t])')
    BY <1>7, <2>1 DEF IsDynamic
  <2>3. Knows(t)'
    BY <1>1, <2>1, <2>2 DEF Entering
  <2>4. QED
    BY <1>2, <1>5, <2>1, <2>3
<1>12. ASSUME NEW t \in Threads, Register(t)
       PROVE  InTheMaps'
  <2>1. /\ pc[t] = "register" /\ place[t] \in Places
        /\ UNCHANGED <<blocks, heap, chunk, goal, place, obj>>
        /\ \A u \in Threads : u # t => pc'[u] = pc[u]
        /\ pc'[t] \in {"send", "spread", "updated", "created"}
    BY <1>12, RegisterStep
  <2>2. Knows(t)'
    BY <1>1, <1>3, <2>1 DEF Entering
  <2>3. QED
    BY <1>2, <1>5, <2>1, <2>2
<1>13. QED
  BY <1>9, <1>10, <1>11, <1>12, EntrySteps

LEMMA DynamicOnceStep ==
  ASSUME IInv, [Next]_vars
  PROVE  DynamicOnce' /\ created' \in [Places -> Nat]
<1>1. /\ {dynamicBlocks, interactiveBlocks} \subseteq [Places -> Objects \cup {NoObject}]
      /\ created \in [Places -> Nat] /\ NoObject \notin Objects /\ DynamicOnce
  BY BlockManagerAssumption DEF IInv, TypeOK
<1>2. CASE UNCHANGED <<dynamicBlocks, interactiveBlocks, created>>
  BY <1>1, <1>2 DEF DynamicOnce
<1>3. ASSUME NEW t \in Threads, Register(t)
      PROVE  DynamicOnce' /\ created' \in [Places -> Nat]
  <2>1. /\ pc[t] = "register" /\ place[t] \in Places /\ obj[t] \in Objects
        /\ dynamicBlocks' = [dynamicBlocks EXCEPT ![place[t]] = obj[t]]
        /\ interactiveBlocks' = [interactiveBlocks EXCEPT ![place[t]] =
                                   IF IsInteractive(obj[t]) THEN obj[t] ELSE @]
        /\ created' = [created EXCEPT ![place[t]] = IF goal[t] = "update" THEN @ ELSE @ + 1]
    BY <1>3, RegisterStep
  <2>2. goal[t] = "update" => created[place[t]] > 0
    BY <1>1, <2>1 DEF IInv, InTheMaps, DynamicOnce, Entering
  <2>3. created'[place[t]] > 0 /\ dynamicBlocks'[place[t]] # NoObject
    BY <1>1, <2>1, <2>2
  <2>4. \A p \in Places \ {place[t]} :
          UNCHANGED <<created[p], dynamicBlocks[p], interactiveBlocks[p]>>
    BY <1>1, <2>1
  <2>5. created' \in [Places -> Nat]
    BY <1>1, <2>1
  <2>6. QED
    BY <1>1, <2>3, <2>4, <2>5 DEF DynamicOnce
<1>4. ASSUME NEW t \in Threads, Put(t)
      PROVE  UNCHANGED <<dynamicBlocks, interactiveBlocks, created>>
  BY <1>4, PutStep
<1>5. QED
  BY <1>2, <1>3, <1>4, EntrySteps DEF Quiet, NewEntry, maps

-----------------------------------------------------------------------------
(* What the threads hold.                                                  *)

LEMMA ThreadingStep ==
  ASSUME IInv, [Next]_vars
  PROVE  Threading' /\ \A t \in Threads : (place[t] \in Places <=> obj[t] \in Objects)'
<1>1. /\ Threading /\ NoObject \notin Objects /\ NoPlace \notin Places
      /\ \A t \in Threads : place[t] \in Places <=> obj[t] \in Objects
  BY BlockManagerAssumption DEF IInv, TypeOK
<1>2. \A t \in Threads :
        Entering \subseteq StepsOf(t) /\ StepsOf(t) \subseteq Steps /\ GoalsOf(t) \subseteq Goals
  BY DEF StepsOf, Steps, Goals
<1>3. \A t \in Threads : "none" \notin GoalsOf(t)
  BY DEF GoalsOf, Threads
<1>4. CASE UNCHANGED threadVars
  BY <1>1, <1>4 DEF threadVars, Threading
<1>5. ASSUME NEW t \in Threads, Moves(t)
      PROVE  Threading' /\ \A u \in Threads : (place[u] \in Places <=> obj[u] \in Objects)'
  <2>1. PICK step \in StepsOf(t) \ (Entering \cup {"created"}) :
          /\ pc' = [pc EXCEPT ![t] = step]
          /\ \/ UNCHANGED <<goal, place, obj>> /\ (step = "placed" => pc[t] = "created")
             \/ Clear(t) /\ step # "placed"
    BY <1>5 DEF Moves, Goto, KeepsBlock
  <2>2. CASE UNCHANGED <<goal, place, obj>> /\ (step = "placed" => pc[t] = "created")
    BY <1>1, <1>2, <2>1, <2>2 DEF Threading
  <2>3. CASE Clear(t) /\ step # "placed"
    <3>1. /\ goal' = [goal EXCEPT ![t] = "none"] /\ place' = [place EXCEPT ![t] = NoPlace]
          /\ obj' = [obj EXCEPT ![t] = NoObject] /\ "none" \in Goals
      BY <2>3 DEF Clear, Goals
    <3>2. QED
      BY <1>1, <1>2, <2>1, <2>3, <3>1 DEF Threading
  <2>4. QED
    BY <2>1, <2>2, <2>3
<1>6. CASE NewEntry
  <2>1. PICK t \in Threads, p \in Places, o \in Objects, why \in Goals :
          why \in GoalsOf(t) /\ Enter(t, p, o, why)
    BY <1>6 DEF NewEntry
  <2>2. /\ pc' = [pc EXCEPT ![t] = "put"] /\ goal' = [goal EXCEPT ![t] = why]
        /\ place' = [place EXCEPT ![t] = p] /\ obj' = [obj EXCEPT ![t] = o]
    BY <2>1 DEF Enter, Goto
  <2>3. "put" \in StepsOf(t) /\ "put" \in Steps /\ why \in Goals /\ why # "none"
    BY <1>2, <1>3, <2>1 DEF Entering
  <2>4. /\ pc' \in [Threads -> Steps] /\ goal' \in [Threads -> Goals]
        /\ place' \in [Threads -> Places \cup {NoPlace}] /\ obj' \in [Threads -> Objects \cup {NoObject}]
    BY <1>1, <2>2, <2>3 DEF Threading
  <2>5. /\ pc'[t] = "put" /\ goal'[t] = why /\ place'[t] = p /\ obj'[t] = o
        /\ \A u \in Threads \ {t} : UNCHANGED <<pc[u], goal[u], place[u], obj[u]>>
    BY <1>1, <2>2 DEF Threading
  <2>6. why \in GoalsOf(t)
    BY <2>1
  <2>7. QED
    BY <1>1, <2>3, <2>4, <2>5, <2>6 DEF Threading
<1>7. ASSUME NEW t \in Threads, Put(t) \/ Register(t)
      PROVE  Threading' /\ \A u \in Threads : (place[u] \in Places <=> obj[u] \in Objects)'
  <2>1. PICK step \in {"register"} \cup Entered(t) : pc' = [pc EXCEPT ![t] = step]
    BY <1>7 DEF Put, Register, Goto
  <2>2. pc[t] \in Entering /\ UNCHANGED <<goal, place, obj>>
    BY <1>7 DEF Put, Register, Entering, EnterUnchanged
  <2>3. place[t] \in Places /\ goal[t] \in GoalsOf(t)
    BY <1>1, <2>2 DEF Threading
  <2>4. step \in StepsOf(t) /\ step \in Steps
    BY <1>2, <2>3 DEF Entered, Updating, Updated, StepsOf, GoalsOf, Entering, Threads
  <2>5. QED
    BY <1>1, <2>1, <2>2, <2>3, <2>4 DEF Threading
<1>9. CASE Loaded
  BY <1>1, <1>9 DEF Loaded, Threading, GoalsOf, Goals, Threads
<1>8. QED
  BY <1>4, <1>5, <1>6, <1>7, <1>9, EntrySteps DEF Quiet

(* The loop's own variables change at its own steps. *)
LEMMA LoopingStep ==
  ASSUME IInv, [Next]_vars
  PROVE  /\ Looping' /\ (current \in Places <=> ticked \in Objects)'
         /\ \A n \in near' : n.place \in looked' /\ n.kind \in Kinds
<1>1. /\ Looping /\ NoObject \notin Objects /\ NoPlace \notin Places
      /\ "loop" \in Threads /\ "request" \in Threads /\ "player" \in Threads
      /\ \A n \in near : n.place \in looked /\ n.kind \in Kinds
      /\ pc \in [Threads -> Steps] /\ (current \in Places <=> ticked \in Objects)
      /\ Near \in [Places -> SUBSET Places]
  BY BlockManagerAssumption DEF IInv, TypeOK, Threading, Threads
<1>2. CASE UNCHANGED loopVars /\ (pc'["loop"] \in {"idle", "next"} <=> pc["loop"] \in {"idle", "next"})
           /\ (pc'["loop"] = "idle" => pc["loop"] = "idle")
  BY <1>1, <1>2 DEF Looping, loopVars
<1>3. ASSUME NEW due \in Dues, TakeDue(due)
      PROVE  /\ Looping' /\ (current \in Places <=> ticked \in Objects)'
             /\ \A n \in near' : n.place \in looked' /\ n.kind \in Kinds
  <2>1. UNCHANGED <<current, ticked, near, looked>> /\ pc["loop"] = "idle" /\ pc'["loop"] = "next"
    BY <1>1, <1>3 DEF TakeDue, Goto
  <2>2. QED
    BY <1>1, <2>1 DEF Looping
<1>4. ASSUME NEW p \in Places, NextBlock(p)
      PROVE  /\ Looping' /\ (current \in Places <=> ticked \in Objects)'
             /\ \A n \in near' : n.place \in looked' /\ n.kind \in Kinds
  <2>1. dynamicBlocks[p] \in Objects
    BY <1>4, CurrentIsDynamic, Known DEF NextBlock, IInv
  <2>2. QED
    BY <1>1, <1>4, <2>1 DEF NextBlock, Goto, Looping
<1>5. ASSUME NEW p \in Places, NeighborFound(p)
      PROVE  /\ Looping' /\ (current \in Places <=> ticked \in Objects)'
             /\ \A n \in near' : n.place \in looked' /\ n.kind \in Kinds
  <2>1. heap[blocks[p]].kind \in Kinds
    BY <1>5, Known, KnownKinds DEF NeighborFound, IInv
  <2>2. /\ near' = near \cup {[place |-> p, kind |-> heap[blocks[p]].kind]} /\ looked' = looked \cup {p}
        /\ UNCHANGED <<pc, batch, current, ticked>>
    BY <1>5 DEF NeighborFound
  <2>3. QED
    BY <1>1, <2>1, <2>2 DEF Looping
<1>6. CASE NeighborCreated
  <2>1. place["loop"] \in Places /\ obj["loop"] \in Objects
    BY <1>1, <1>6 DEF NeighborCreated, IInv, Threading, TypeOK
  <2>2. heap[obj["loop"]].kind \in Kinds
    BY <1>1, <2>1, Known, KnownKinds DEF IInv
  <2>3. /\ near' = near \cup {[place |-> place["loop"], kind |-> heap[obj["loop"]].kind]}
        /\ looked' = looked \cup {place["loop"]} /\ UNCHANGED <<batch, current, ticked>>
        /\ pc["loop"] = "created" /\ pc'["loop"] = "neighbors"
    BY <1>1, <1>6 DEF NeighborCreated, FillUnchanged, Goto
  <2>4. QED
    BY <1>1, <2>1, <2>2, <2>3 DEF Looping
<1>7. CASE SpreadToFire \/ Reschedule
  BY <1>1, <1>7 DEF SpreadToFire, Reschedule, Forget, Done, Goto, Clear, LoopUnchanged, Looping
<1>8. CASE RequestLoaded \/ RequestGenerated \/ PlayerSends \/ Interact \/ ReadEvent \/ UNCHANGED vars
           \/ \E p \in Places : RequestFetches(p)
  BY <1>1, <1>2, <1>8 DEF RequestLoaded, RequestGenerated, PlayerSends, Interact, InteractWithDoor,
       InteractWithChest, Interacted, ReadEvent, vars, RequestFetches, Fetch, Create, Enter, Goto, Done,
       FillUnchanged, SendUnchanged, PlayerUnchanged, loopVars, threadVars
<1>9. ASSUME NEW t \in Threads, Put(t) \/ Register(t) \/ SendUpdate(t)
      PROVE  /\ Looping' /\ (current \in Places <=> ticked \in Objects)'
             /\ \A n \in near' : n.place \in looked' /\ n.kind \in Kinds
  <2>1. UNCHANGED loopVars /\ pc[t] \notin {"idle", "next"} /\ pc'[t] \notin {"idle", "next"}
        /\ \A u \in Threads \ {t} : pc'[u] = pc[u]
    BY <1>1, <1>9 DEF Put, Register, SendUpdate, Entered, Updated, Goto, EnterUnchanged, SendUnchanged
  <2>2. QED
    BY <1>1, <1>2, <2>1
<1>12. CASE NeighborLoaded
  BY <1>1, <1>2, <1>12 DEF NeighborLoaded, FillUnchanged, Looping
<1>10. CASE (\E p \in Places : NeighborMissing(p)) \/ NeighborFetched \/ Spread \/ SetBlock \/ SendPlaced
            \/ TickBlock
  BY <1>1, <1>2, <1>10 DEF NeighborMissing, NeighborFetched, Spread, SetBlock, SendPlaced, TickBlock,
       Fetch, Create, Enter, Goto, SendUnchanged
<1>11. QED
  BY <1>1, <1>3, <1>4, <1>5, <1>6, <1>7, <1>8, <1>9, <1>10, <1>12
     DEF Next, LoopStep, RequestStep, PlayerStep, Enters

-----------------------------------------------------------------------------
(* The entries.                                                            *)

(* An entry is in the queue, with the loop, or dropped, and each creation made one. *)
LEMMA StaysScheduledStep ==
  ASSUME IInv, [Next]_vars
  PROVE  StaysScheduled' /\ {updateQueue', batch', created', dropped'} \subseteq [Places -> Nat]
<1> DEFINE Counted == /\ {updateQueue, batch, created, dropped} \subseteq [Places -> Nat]
                      /\ \A p \in Places : Pending(p) + dropped[p] = created[p]
<1>1. /\ updateQueue \in [Places -> Nat] /\ batch \in [Places -> Nat]
      /\ created \in [Places -> Nat] /\ dropped \in [Places -> Nat] /\ NoPlace \notin Places
      /\ \A p \in Places :
           updateQueue[p] + batch[p] + (IF current = p THEN 1 ELSE 0) + dropped[p] = created[p]
  BY BlockManagerAssumption DEF IInv, TypeOK, StaysScheduled, Pending
<1>2. SUFFICES Counted'
  <2>1. DynamicOnce'
    BY DynamicOnceStep
  <2>2. QED
    BY <1>2, <2>1 DEF DynamicOnce, StaysScheduled
<1>3. "loop" \in Threads /\ "request" \in Threads /\ "player" \in Threads
      /\ pc \in [Threads -> Steps]
  BY DEF Threads, IInv, Threading
<1>4. CASE UNCHANGED <<updateQueue, batch, created, dropped, current>>
  BY <1>1, <1>4 DEF Pending
<1>5. ASSUME NEW due \in Dues, TakeDue(due)
      PROVE  Counted'
  <2>1. /\ updateQueue' = [p \in Places |-> updateQueue[p] - due[p]] /\ batch' = due
        /\ UNCHANGED <<created, dropped, current>> /\ pc["loop"] = "idle"
    BY <1>5 DEF TakeDue, LoopUnchanged
  <2>2. \A p \in Places : due[p] \in 0..updateQueue[p]
    BY DEF Dues
  <2>3. due \in [Places -> Nat]
    <3>1. PICK top : due \in [Places -> 0..top]
      BY DEF Dues
    <3>2. due = [p \in Places |-> due[p]]
      BY <3>1
    <3>3. \A p \in Places : due[p] \in Nat
      BY <1>1, <2>2
    <3>4. QED
      BY <3>2, <3>3
  <2>4. \A p \in Places : batch[p] = 0
    BY <2>1 DEF IInv, Looping, NoEntries
  <2>5. updateQueue' \in [Places -> Nat]
    BY <1>1, <2>1, <2>2
  <2>6. QED
    BY <1>1, <2>1, <2>2, <2>3, <2>4, <2>5 DEF Pending
<1>6. ASSUME NEW p \in Places, NextBlock(p)
      PROVE  Counted'
  <2>1. /\ batch[p] > 0 /\ batch' = [batch EXCEPT ![p] = @ - 1] /\ current' = p
        /\ UNCHANGED <<updateQueue, created, dropped>> /\ current = NoPlace
    BY <1>6 DEF NextBlock, Rest, LoopUnchanged, IInv, Looping
  <2>2. batch' \in [Places -> Nat]
    BY <1>1, <2>1
  <2>3. QED
    BY <1>1, <2>1, <2>2 DEF Pending
<1>7. CASE SpreadToFire
  <2>1. /\ dropped' = [p \in Places |-> dropped[p] + batch[p] + (IF p = current THEN 1 ELSE 0)]
        /\ batch' = NoEntries /\ current' = NoPlace /\ UNCHANGED <<updateQueue, created>>
    BY <1>7 DEF SpreadToFire, Forget, LoopUnchanged
  <2>2. dropped' \in [Places -> Nat] /\ batch' \in [Places -> Nat]
    BY <1>1, <2>1 DEF NoEntries
  <2>3. QED
    BY <1>1, <2>1, <2>2 DEF Pending, NoEntries
<1>8. CASE Reschedule
  <2>1. /\ updateQueue' = [updateQueue EXCEPT ![current] = @ + 1] /\ current' = NoPlace
        /\ UNCHANGED <<batch, created, dropped>>
    BY <1>8 DEF Reschedule, Rescheduled, Forget, LoopUnchanged
  <2>2. current \in Places
    BY <1>8 DEF Reschedule, IInv, Looping
  <2>3. QED
    BY <1>1, <2>1, <2>2 DEF Pending
<1>9. ASSUME NEW t \in Threads, Register(t)
      PROVE  Counted'
  <2>1. /\ updateQueue' = [updateQueue EXCEPT ![place[t]] = IF goal[t] = "update" THEN @ ELSE @ + 1]
        /\ created' = [created EXCEPT ![place[t]] = IF goal[t] = "update" THEN @ ELSE @ + 1]
        /\ UNCHANGED <<batch, current, dropped>>
    BY <1>9 DEF Register, Scheduled, Updating, EnterUnchanged, loopVars
  <2>2. place[t] \in Places
    BY <1>9, RegisterStep
  <2>3. QED
    BY <1>1, <2>1, <2>2 DEF Pending
<1>10. ASSUME NEW t \in Threads, Put(t) \/ SendUpdate(t)
       PROVE  UNCHANGED <<updateQueue, batch, created, dropped, current>>
  BY <1>10 DEF Put, SendUpdate, EnterUnchanged, SendUnchanged, loopVars, history
<1>11. CASE \/ \E p \in Places : NeighborFound(p) \/ NeighborMissing(p) \/ RequestFetches(p)
            \/ NeighborLoaded \/ NeighborFetched \/ NeighborCreated \/ TickBlock \/ Spread \/ SendPlaced \/ SetBlock
            \/ RequestLoaded \/ RequestGenerated \/ PlayerSends \/ Interact \/ ReadEvent \/ UNCHANGED vars
  <2>1. UNCHANGED <<updateQueue, batch, created, dropped, current>>
    BY <1>11 DEF NeighborFound, NeighborMissing, RequestFetches, NeighborLoaded, NeighborFetched,
         NeighborCreated, TickBlock, Spread, SendPlaced, SetBlock, RequestLoaded, RequestGenerated, PlayerSends, Interact,
         InteractWithDoor, InteractWithChest, ReadEvent, vars, loopVars, history, FillUnchanged,
         LoopUnchanged, SendUnchanged, PlayerUnchanged
  <2>2. QED
    BY <1>4, <2>1
<1>12. QED
  BY <1>3, <1>4, <1>5, <1>6, <1>7, <1>8, <1>9, <1>10, <1>11
     DEF Next, LoopStep, RequestStep, PlayerStep, Enters

-----------------------------------------------------------------------------
(* The theorems.                                                           *)

LEMMA EventsStep ==
  ASSUME IInv, [Next]_vars
  PROVE  blockEvents' \in 0..EventsCap
<1>1. blockEvents \in 0..EventsCap /\ EventsCap \in Nat
  BY BlockManagerAssumption DEF IInv, TypeOK
<1>2. CASE SendEvent \/ ReadEvent
  BY <1>1, <1>2 DEF SendEvent, ReadEvent
<1>3. CASE ~SendEvent /\ ~ReadEvent
  <2>1. blockEvents' = blockEvents
    BY <1>3 DEF Next, LoopStep, RequestStep, PlayerStep, Interact, Enters, TakeDue, Put, Register, SendUpdate,
         NextBlock, NeighborFound, NeighborMissing, NeighborLoaded, NeighborFetched,
         NeighborCreated, TickBlock, SpreadToFire, Spread, SendPlaced, SetBlock, Reschedule, RequestFetches, RequestLoaded,
         RequestGenerated, PlayerSends, InteractWithDoor, InteractWithChest, vars, EnterUnchanged,
         SendUnchanged, LoopUnchanged, FillUnchanged, PlayerUnchanged
  <2>2. QED
    BY <1>1, <2>1
<1>4. QED
  BY <1>2, <1>3

(* What the loop ticks can tick, and what players use can be used. *)
LEMMA EntryKindsStep ==
  ASSUME IInv, [Next]_vars, NEW p \in Places
  PROVE  /\ dynamicBlocks'[p] # NoObject => heap'[dynamicBlocks'[p]].kind \in DynamicKinds
         /\ interactiveBlocks'[p] # NoObject => heap'[interactiveBlocks'[p]].kind \in InteractiveKinds
<1>1. /\ dynamicBlocks[p] # NoObject => heap[dynamicBlocks[p]].kind \in DynamicKinds
      /\ interactiveBlocks[p] # NoObject => heap[interactiveBlocks[p]].kind \in InteractiveKinds
      /\ {dynamicBlocks, interactiveBlocks} \subseteq [Places -> Objects \cup {NoObject}]
  BY DEF IInv, TypeOK
<1>2. ASSUME NEW o \in Objects, Referenced(o), Referenced(o)'
      PROVE  heap'[o].kind = heap[o].kind
  BY <1>2, HeapStep DEF IInv
<1>3. ASSUME dynamicBlocks'[p] = dynamicBlocks[p], dynamicBlocks[p] # NoObject
      PROVE  heap'[dynamicBlocks'[p]].kind \in DynamicKinds
  <2>1. dynamicBlocks[p] \in Objects /\ Referenced(dynamicBlocks[p]) /\ Referenced(dynamicBlocks[p])'
    BY <1>1, <1>3 DEF Referenced
  <2>2. QED
    BY <1>1, <1>2, <1>3, <2>1
<1>4. ASSUME interactiveBlocks'[p] = interactiveBlocks[p], interactiveBlocks[p] # NoObject
      PROVE  heap'[interactiveBlocks'[p]].kind \in InteractiveKinds
  <2>1. interactiveBlocks[p] \in Objects /\ Referenced(interactiveBlocks[p]) /\ Referenced(interactiveBlocks[p])'
    BY <1>1, <1>4 DEF Referenced
  <2>2. QED
    BY <1>1, <1>2, <1>4, <2>1
<1>5. ASSUME NEW t \in Threads, Register(t)
      PROVE  /\ dynamicBlocks'[p] \in {dynamicBlocks[p], obj[t]} /\ IsDynamic(obj[t]) /\ UNCHANGED heap
             /\ \/ interactiveBlocks'[p] = interactiveBlocks[p]
                \/ interactiveBlocks'[p] = obj[t] /\ IsInteractive(obj[t])
  <2>1. /\ pc[t] = "register" /\ UNCHANGED heap
        /\ dynamicBlocks' = [dynamicBlocks EXCEPT ![place[t]] = obj[t]]
        /\ interactiveBlocks' = [interactiveBlocks EXCEPT ![place[t]] =
                                   IF IsInteractive(obj[t]) THEN obj[t] ELSE @]
    BY <1>5, RegisterStep
  <2>2. IsDynamic(obj[t])
    BY <2>1 DEF IInv, InTheMaps
  <2>3. QED
    BY <1>1, <2>1, <2>2
<1>6. CASE \E t \in Threads : Register(t)
  BY <1>3, <1>4, <1>5, <1>6 DEF IsDynamic, IsInteractive
<1>7. CASE UNCHANGED <<dynamicBlocks, interactiveBlocks>>
  BY <1>3, <1>4, <1>7
<1>8. ASSUME NEW t \in Threads, Put(t)
      PROVE  UNCHANGED <<dynamicBlocks, interactiveBlocks>>
  BY <1>8, PutStep
<1>9. QED
  BY <1>6, <1>7, <1>8, EntrySteps DEF Quiet, NewEntry, maps

LEMMA TypeStep ==
  ASSUME IInv, [Next]_vars
  PROVE  TypeOK'
<1>1. /\ heap' \in [Objects -> LiveBlocks \cup {NoObject}]
      /\ \A o \in Objects : Referenced(o)' => heap'[o] \in LiveBlocks
  BY HeapStep DEF IInv, SoundBlocks, Sound
<1>2. /\ {blocks', dynamicBlocks', interactiveBlocks'} \subseteq [Places -> Objects \cup {NoObject}]
      /\ {updateQueue', batch', created', dropped'} \subseteq [Places -> Nat]
      /\ blockEvents' \in 0..EventsCap
      /\ chunk' \in [Places -> Protos \cup {Absent}]
  BY MapsStay, StaysScheduledStep, EventsStep, ChunkStep
<1>3. /\ pc'["loop"] \in StepsOf("loop") /\ pc'["request"] \in StepsOf("request")
      /\ pc'["player"] \in StepsOf("player")
      /\ \A t \in Threads : (place[t] \in Places <=> obj[t] \in Objects)'
  BY ThreadingStep DEF Threading, Threads
<1>4. /\ (current \in Places <=> ticked \in Objects)'
      /\ \A n \in near' : n.place \in looked' /\ n.kind \in Kinds
  BY LoopingStep
<1>5. \A p \in Places :
        /\ dynamicBlocks'[p] # NoObject => heap'[dynamicBlocks'[p]].kind \in DynamicKinds
        /\ interactiveBlocks'[p] # NoObject => heap'[interactiveBlocks'[p]].kind \in InteractiveKinds
  BY EntryKindsStep
<1>6. QED
  BY <1>1, <1>2, <1>3, <1>4, <1>5 DEF TypeOK, StepsOf

LEMMA InitIInv ==
  ASSUME Init
  PROVE  IInv
<1>1. \A o \in Objects : ~Referenced(o)
  BY BlockManagerAssumption DEF Init, Referenced
<1>2. \A t \in Threads : pc[t] = "idle" /\ goal[t] = "none" /\ place[t] = NoPlace /\ obj[t] = NoObject
  BY DEF Init
<1>3. "idle" \in Steps /\ "none" \in Goals
      /\ \A t \in Threads : "idle" \in StepsOf(t)
  BY DEF Steps, Goals, StepsOf, Threads
<1>4. NoObject \notin Objects /\ NoPlace \notin Places /\ EventsCap \in Nat
      /\ chunk \in [Places -> Protos \cup {Absent}]
  BY BlockManagerAssumption DEF Init
<1>5. Threading
  BY <1>2, <1>3 DEF Init, Threading, Entering
<1>6. TypeOK
  BY <1>1, <1>2, <1>4 DEF Init, TypeOK, NoEntries, Threads
<1>7. SoundBlocks /\ Looping
  BY <1>1, <1>2 DEF SoundBlocks, Looping, Init, Threads
<1>8. InTheMaps /\ OneEnters
  BY <1>2 DEF InTheMaps, OneEnters, EnteringAt, Entering
<1>9. DynamicOnce /\ StaysScheduled /\ MapsAgree
  BY <1>4 DEF Init, DynamicOnce, StaysScheduled, MapsAgree, Pending, NoEntries
<1>10. QED
  BY <1>5, <1>6, <1>7, <1>8, <1>9 DEF IInv

LEMMA NextIInv ==
  ASSUME IInv, [Next]_vars
  PROVE  IInv'
<1>1. SoundBlocks'
  BY HeapStep DEF IInv
<1>2. QED
  BY <1>1, TypeStep, ThreadingStep, LoopingStep, InTheMapsStep, DynamicOnceStep, OneEntersStep,
     StaysScheduledStep, MapsAgreeStep DEF IInv

THEOREM Invariance == Spec => []IInv
<1>1. Init => IInv
  BY InitIInv
<1>2. IInv /\ [Next]_vars => IInv'
  BY NextIInv
<1>3. QED
  BY <1>1, <1>2, PTL DEF Spec

(* Every goroutine works on blocks that exist, and the loop ticks and a    *)
(* player uses only blocks that can be ticked and used, whichever object   *)
(* the maps name (the type assertions of processDynamicBlocks and          *)
(* InteractWithBlock never fail).                                          *)
THEOREM TypeCorrect == Spec => []TypeOK
<1>1. IInv => TypeOK
  BY DEF IInv
<1>2. QED
  BY <1>1, Invariance, PTL

(* No dynamic block loses its place in the queue, or gets a second one, by *)
(* an update: scheduleBlockUpdate and processDynamicBlocks account for     *)
(* every entry that CreateBlock made.                                      *)
THEOREM EveryEntryCounts == Spec => []StaysScheduled
<1>1. IInv => StaysScheduled
  BY DEF IInv
<1>2. QED
  BY <1>1, Invariance, PTL

(* Without two goroutines at one place at once, CreateBlock and UpdateBlock *)
(* leave one object in the three maps, however their steps interleave at    *)
(* other places.                                                            *)
THEOREM OneBlockShown == Spec => []MapsAgree
<1>1. IInv => MapsAgree
  BY DEF IInv
<1>2. QED
  BY <1>1, Invariance, PTL

(* ToProto and Deserialize give a chest back as players left it, whatever  *)
(* they did to it and however many objects stood for it in between.        *)
THEOREM ChestRoundTrip == Spec => []ChestSurvivesSave
<1>1. ASSUME NEW b, Sound(b), b.kind = "chest"
      PROVE  [Deserialize(New("chest"), ToProto(b)) EXCEPT !.changed = b.changed] = b
  <2>1. PICK changed \in BOOLEAN, items \in Seq(Stacks), locked \in BOOLEAN, owner \in Owners :
          b = ChestOf(changed, items, locked, owner)
    BY <1>1, ChestOfSound
  <2> DEFINE saved == [contents |-> items, locked |-> locked, owner |-> owner]
             restored == Deserialize(New("chest"), ToProto(b))
  <2>2. ToProto(b).saved = saved
    BY <2>1 DEF ToProto, ChestOf
  <2>3. restored.items = items /\ restored.isLocked = locked /\ restored.owner = owner
    BY <2>2 DEF Deserialize, New, NewChestBlock, ReadBack
  <2>4. Sound(restored) /\ restored.kind = "chest"
    BY <1>1, NewSound, ToProtoType, FilledSound DEF Sound, Kinds
  <2> HIDE DEF restored
  <2>5. restored = ChestOf(restored.changed, items, locked, owner)
    BY <2>3, <2>4, ChestOfSound
  <2>6. [restored EXCEPT !.changed = b.changed] = b
    BY <2>1, <2>5 DEF ChestOf
  <2>7. QED
    BY <2>6 DEF restored
<1>2. IInv => ChestSurvivesSave
  BY <1>1 DEF IInv, SoundBlocks, ChestSurvivesSave
<1>3. QED
  BY <1>2, Invariance, PTL
=============================================================================
