---------------------------- MODULE BlockManager ----------------------------
(***************************************************************************)
(* The live blocks, internal/block/block_manager.go, and the goroutines    *)
(* that work on them: the update loop (processDynamicBlocks), requests     *)
(* that load or generate a chunk (LoadBlocksFromChunk, CreateBlock and     *)
(* SaveBlocksToChunk below GetOrGenerateChunk), a player's                 *)
(* InteractWithBlock (its callers are tests, one call at a time), and the  *)
(* reader of blockEvents (service/loop.go).                                *)
(*                                                                         *)
(* Each of the maps has a lock of its own, and CreateBlock and UpdateBlock *)
(* enter a block into one after the other: first into blocks (Put), then   *)
(* into dynamicBlocks, the queue and interactiveBlocks, which are one step *)
(* (Register).  Blocks are shared objects, so the maps and the goroutines  *)
(* hold references into `heap'.  A place stands for a chunk with one block *)
(* in it: a larger one is loaded block by block.  Time is left out: any    *)
(* entries of the queue may be due, in any order.                          *)
(***************************************************************************)
EXTENDS Blocks, FiniteSetsExt

CONSTANTS
  Places,
  Near,            \* neighbours of a place, in [Places -> SUBSET Places]
  Stored,          \* what the chunks may hold at the start, as ToProto makes it
  Copies,          \* names for the objects of one place
  NoObject, NoPlace,
  Absent,          \* the chunk has not been generated
  EventsCap,       \* capacity of blockEvents (100)
  Budget,          \* bound: requests, spreads and interactions in a world of Stored
  MaxStacks        \* bound: stacks in a chest

Objects == Places \X Copies

ASSUME BlockManagerAssumption ==
  /\ Near \in [Places -> SUBSET Places]
  /\ NoObject \notin Objects /\ NoPlace \notin Places
  /\ Absent \notin Protos /\ Stored \subseteq [Places -> Protos \cup {Absent}]
  /\ Budget \in [Stored -> Nat]
  /\ EventsCap \in Nat \ {0} /\ MaxStacks \in Nat

Threads == {"loop", "request", "player"}

VARIABLES
  heap,                \* the block objects; NoObject where none is
  blocks, dynamicBlocks, interactiveBlocks,
  updateQueue,         \* entries for each place
  blockEvents,         \* number of events in the channel
  chunk,               \* what each chunk holds
  pc, goal,            \* step of each thread, and why it creates a block
  place, obj,          \* the block a thread creates or updates
  batch,               \* blocksToUpdate, entries for each place
  current, ticked,     \* the loop's blockID and block
  near, looked         \* neighbors, and the places looked at

(* History variables and bounds. *)
VARIABLES
  created,             \* entries CreateBlock made
  dropped,             \* entries the early return dropped
  torn,                \* places where two threads entered a block at once, the last time
  budget

maps == <<blocks, dynamicBlocks, interactiveBlocks>>
loopVars == <<batch, current, ticked, near, looked>>
threadVars == <<pc, goal, place, obj>>
history == <<created, dropped, torn, budget>>
vars == <<heap, maps, updateQueue, blockEvents, chunk, threadVars, loopVars, history>>

Referenced(o) ==
  \/ \E p \in Places : o \in {blocks[p], dynamicBlocks[p], interactiveBlocks[p]}
  \/ \E t \in Threads : obj[t] = o
  \/ ticked = o

(* Memory never runs out. *)
MayAllocate(p) == \E o \in {p} \X Copies : ~Referenced(o)
NewObject(p) == CHOOSE o \in {p} \X Copies : ~Referenced(o)
Allocated(p, b) ==
  [o \in Objects |-> IF o = NewObject(p) THEN b ELSE IF Referenced(o) THEN heap[o] ELSE NoObject]

Entering == {"put", "register"}

HasBudget == budget > 0 /\ budget' = budget - 1

Goto(t, step) == pc' = [pc EXCEPT ![t] = step]

(* Thread t enters object o for place p, beginning with the map blocks. *)
Enter(t, p, o, why) ==
  /\ Goto(t, "put")
  /\ goal' = [goal EXCEPT ![t] = why]
  /\ place' = [place EXCEPT ![t] = p]
  /\ obj' = [obj EXCEPT ![t] = o]
  /\ torn' = IF \E u \in Threads : pc[u] \in Entering /\ place[u] = p
             THEN torn \cup {p} ELSE torn \ {p}

(* CreateBlock, up to the factory. *)
Create(t, p, kind, why) ==
  /\ MayAllocate(p)
  /\ heap' = Allocated(p, New(kind))
  /\ Enter(t, p, NewObject(p), why)

(* generateChunk and SetBlock hold the chunk manager's lock meanwhile. *)
(* Faulty: and so does the loop when fire spreads. *)
FaultyChunksLocked ==
  \E t \in Threads : pc[t] # "idle" /\ goal[t] \in {"generate", "setBlock", "spread"}
ChunksLocked == \E t \in Threads : pc[t] # "idle" /\ goal[t] \in {"generate", "setBlock"}

(***************************************************************************)
(* CreateBlock and UpdateBlock enter a block, whichever thread calls.      *)
(***************************************************************************)
IsDynamic(o) == heap[o].kind \in DynamicKinds
(* Takes any block with a Tick for one to interact with. *)
FaultyIsInteractive(o) == IsDynamic(o)
IsInteractive(o) == heap[o].kind \in InteractiveKinds
Updating(t) == goal[t] = "update"

(* After the last entry: UpdateBlock's event, unless MinInterval has not passed since *)
(* lastSent; or CreateBlock's caller.                                              *)
Updated(t) == IF t = "loop" THEN "spread" ELSE "updated"
Entered(t) == IF Updating(t) THEN {"send", Updated(t)} ELSE {"created"}

EnterUnchanged ==
  UNCHANGED <<heap, blockEvents, chunk, goal, place, obj, loopVars, dropped, torn, budget>>

Put(t) ==
  /\ pc[t] = "put"
  /\ blocks' = [blocks EXCEPT ![place[t]] = obj[t]]
  /\ \E step \in IF IsDynamic(obj[t]) THEN {"register"} ELSE Entered(t) : Goto(t, step)
  /\ UNCHANGED <<dynamicBlocks, interactiveBlocks, updateQueue, created>>
  /\ EnterUnchanged

(* Leaves the map as it is when the block is only updated. *)
FaultyDynamicEntry(t) == IF Updating(t) THEN dynamicBlocks[place[t]] ELSE obj[t]
DynamicEntry(t) == obj[t]

(* scheduleBlockUpdate adds an entry, whether there is one or not. *)
Scheduled(f, t) == [f EXCEPT ![place[t]] = IF Updating(t) THEN @ ELSE @ + 1]

Register(t) ==
  /\ pc[t] = "register"
  /\ dynamicBlocks' = [dynamicBlocks EXCEPT ![place[t]] = DynamicEntry(t)]
  /\ interactiveBlocks' =
       IF IsInteractive(obj[t]) THEN [interactiveBlocks EXCEPT ![place[t]] = obj[t]]
                                ELSE interactiveBlocks
  /\ updateQueue' = Scheduled(updateQueue, t)
  /\ created' = Scheduled(created, t)
  /\ \E step \in Entered(t) : Goto(t, step)
  /\ UNCHANGED blocks
  /\ EnterUnchanged

(* A send on blockEvents waits for room. *)
SendEvent == blockEvents < EventsCap /\ blockEvents' = blockEvents + 1

SendUnchanged ==
  UNCHANGED <<heap, maps, updateQueue, chunk, loopVars,
              history>>

SendUpdate(t) ==
  /\ pc[t] = "send"
  /\ SendEvent
  /\ Goto(t, Updated(t))
  /\ UNCHANGED <<goal, place, obj>>
  /\ SendUnchanged

Enters(t) ==
  Put(t) \/ Register(t) \/ SendUpdate(t)

(***************************************************************************)
(* GetOrGenerateChunk: a chunk that the storage has is loaded when it is   *)
(* not in memory, any other one is generated, as terrain.                  *)
(***************************************************************************)
Fetch(t, p) ==
  /\ ~ChunksLocked
  /\ IF chunk[p] = Absent THEN Create(t, p, "static", "generate")
                          ELSE Create(t, p, chunk[p].kind, "load")

Clear(t) ==
  /\ goal' = [goal EXCEPT ![t] = "none"]
  /\ place' = [place EXCEPT ![t] = NoPlace]
  /\ obj' = [obj EXCEPT ![t] = NoObject]
Done(t) == Goto(t, "idle") /\ Clear(t)

RequestFetches(p) ==
  /\ pc["request"] = "idle" /\ HasBudget
  /\ Fetch("request", p)
  /\ UNCHANGED <<maps, updateQueue, blockEvents, chunk, loopVars, created, dropped>>

(* What the chunk holds is filled in; the block is in the maps already. *)
Filled(t) == Deserialize(heap[obj[t]], chunk[place[t]])

FillUnchanged ==
  UNCHANGED <<maps, updateQueue, blockEvents, batch, current, ticked, history>>

RequestLoaded ==
  /\ pc["request"] = "created" /\ goal["request"] = "load"
  /\ heap' = [heap EXCEPT ![obj["request"]] = ResetChanges(Filled("request"))]
  /\ Done("request")
  /\ UNCHANGED <<chunk, near, looked>>
  /\ FillUnchanged

(* SaveBlocksToChunk. *)
Generated(t) == [chunk EXCEPT ![place[t]] = ToProto(heap[blocks[place[t]]])]

RequestGenerated ==
  /\ pc["request"] = "created" /\ goal["request"] = "generate"
  /\ chunk' = Generated("request")
  /\ Done("request")
  /\ UNCHANGED <<heap, near, looked>>
  /\ FillUnchanged

(***************************************************************************)
(* processDynamicBlocks.                                                   *)
(***************************************************************************)
NoEntries == [p \in Places |-> 0]

LoopUnchanged ==
  UNCHANGED <<heap, maps, blockEvents, chunk, created, torn,
              budget>>
KeepsBlock == UNCHANGED <<goal, place, obj>>

(* The entries that are due leave the queue. *)
Dues ==
  {due \in [Places -> 0..Max({updateQueue[p] : p \in Places})] :
     \A p \in Places : due[p] \in 0..updateQueue[p]}

TakeDue(due) ==
  /\ pc["loop"] = "idle"
  /\ \E p \in Places : due[p] > 0
  /\ updateQueue' = [p \in Places |-> updateQueue[p] - due[p]]
  /\ batch' = due
  /\ Goto("loop", "next")
  /\ UNCHANGED <<current, ticked, near, looked, dropped>>
  /\ KeepsBlock /\ LoopUnchanged

TakeDueOf(p) ==
  updateQueue[p] > 0 /\ pc["loop"] = "idle" /\ \E due \in Dues : due[p] > 0 /\ TakeDue(due)

Rest(p) == [batch EXCEPT ![p] = @ - 1]

NextBlock(p) ==
  /\ pc["loop"] = "next"
  /\ batch[p] > 0
  /\ batch' = Rest(p)
  /\ current' = p
  /\ ticked' = dynamicBlocks[p]
  /\ near' = {} /\ looked' = {}
  /\ Goto("loop", "neighbors")
  /\ UNCHANGED <<updateQueue, dropped>>
  /\ KeepsBlock /\ LoopUnchanged

ToLook == Near[current] \ looked       \* while pc["loop"] = "neighbors"

NeighborFound(q) ==
  /\ pc["loop"] = "neighbors" /\ q \in ToLook
  /\ blocks[q] # NoObject
  /\ near' = near \cup {[place |-> q, kind |-> heap[blocks[q]].kind]}
  /\ looked' = looked \cup {q}
  /\ UNCHANGED <<pc, updateQueue, batch, current, ticked, dropped>>
  /\ KeepsBlock /\ LoopUnchanged

(* The block is created from its chunk, which is fetched if need be. *)
NeighborMissing(q) ==
  /\ pc["loop"] = "neighbors" /\ q \in ToLook
  /\ blocks[q] = NoObject
  /\ \/ Fetch("loop", q)
     \/ chunk[q] # Absent /\ Create("loop", q, chunk[q].kind, "neighbor")
  /\ UNCHANGED <<maps, updateQueue, blockEvents, chunk, loopVars, created, dropped, budget>>

NeighborLoaded ==
  /\ pc["loop"] = "created" /\ goal["loop"] = "load"
  /\ heap' = [heap EXCEPT ![obj["loop"]] = ResetChanges(Filled("loop"))]
  /\ goal' = [goal EXCEPT !["loop"] = "loaded"]
  /\ UNCHANGED <<chunk, pc, place, obj, near, looked>>
  /\ FillUnchanged

NeighborFetched ==
  /\ pc["loop"] = "created" /\ goal["loop"] \in {"loaded", "generate"}
  /\ chunk' = IF goal["loop"] = "generate" THEN Generated("loop") ELSE chunk
  /\ Create("loop", place["loop"], chunk'[place["loop"]].kind, "neighbor")
  /\ UNCHANGED <<maps, updateQueue, blockEvents, loopVars, created, dropped, budget>>

NeighborCreated ==
  /\ pc["loop"] = "created" /\ goal["loop"] = "neighbor"
  /\ heap' = [heap EXCEPT ![obj["loop"]] = Filled("loop")]
  /\ near' = near \cup {[place |-> place["loop"], kind |-> heap[obj["loop"]].kind]}
  /\ looked' = looked \cup {place["loop"]}
  /\ Goto("loop", "neighbors")
  /\ Clear("loop")
  /\ UNCHANGED chunk
  /\ FillUnchanged

(* Tick; a block that has changed is entered again. *)
TickBlock ==
  /\ pc["loop"] = "neighbors" /\ ToLook = {}
  /\ \E after \in Tick(heap[ticked]) :
       /\ heap' = [heap EXCEPT ![ticked] = after.block]
       /\ IF after.changed
          THEN Enter("loop", current, ticked, "update")
          ELSE Goto("loop", "spread") /\ UNCHANGED <<goal, place, obj, torn>>
  /\ UNCHANGED <<maps, updateQueue, blockEvents, chunk, loopVars, created, dropped, budget>>

Forget == current' = NoPlace /\ ticked' = NoObject /\ near' = {} /\ looked' = {}

(* Fire by chance takes one of the neighbours. *)
SpreadToFire ==
  /\ pc["loop"] = "spread" /\ heap[ticked].kind = "fire"
  /\ \E n \in near : n.kind = "fire"
  /\ dropped' = [p \in Places |-> dropped[p] + batch[p] + (IF p = current THEN 1 ELSE 0)]
  /\ batch' = NoEntries
  /\ Forget
  /\ Done("loop")
  /\ UNCHANGED updateQueue
  /\ LoopUnchanged

Spread ==
  /\ pc["loop"] = "spread" /\ heap[ticked].kind = "fire"
  /\ HasBudget
  /\ \E n \in near : n.kind # "fire" /\ Create("loop", n.place, "fire", "spread")
  /\ UNCHANGED <<maps, updateQueue, blockEvents, chunk, loopVars, created, dropped>>

SendPlaced ==
  /\ pc["loop"] = "created" /\ goal["loop"] = "spread"
  /\ SendEvent
  /\ Goto("loop", "placed")
  /\ KeepsBlock /\ SendUnchanged

(* After the event, SetBlock: an error if the chunk is not in memory. *)
SetBlock ==
  /\ pc["loop"] = "placed"
  /\ ~ChunksLocked
  /\ \/ /\ chunk' = [chunk EXCEPT ![place["loop"]] = ToProto(New("fire"))]
        /\ Create("loop", place["loop"], "fire", "setBlock")
     \/ /\ Goto("loop", "reschedule")
        /\ UNCHANGED <<heap, chunk, goal, place, obj, torn>>
  /\ UNCHANGED <<maps, updateQueue, blockEvents, loopVars, created, dropped, budget>>

(* Schedules changed blocks only. *)
FaultyRescheduled == IF Updating("loop") THEN [updateQueue EXCEPT ![current] = @ + 1] ELSE updateQueue
Rescheduled == [updateQueue EXCEPT ![current] = @ + 1]

(* The end of a round, also of one in which nothing spreads. *)
Reschedule ==
  /\ \/ pc["loop"] \in {"spread", "reschedule"}
     \/ pc["loop"] = "created" /\ goal["loop"] = "setBlock"
  /\ updateQueue' = Rescheduled
  /\ Forget
  /\ Goto("loop", IF batch = NoEntries THEN "idle" ELSE "next") /\ Clear("loop")
  /\ UNCHANGED <<batch, dropped>>
  /\ LoopUnchanged

(***************************************************************************)
(* InteractWithBlock.                                                      *)
(***************************************************************************)
PlayerUnchanged ==
  UNCHANGED <<maps, updateQueue, blockEvents, chunk, loopVars,
              created, dropped>>

(* A block that is allowed to change is updated if its flag says so. *)
Interacted(p, after) ==
  /\ HasBudget
  /\ heap' = [heap EXCEPT ![interactiveBlocks[p]] = after]
  /\ IF after.changed
     THEN Enter("player", p, interactiveBlocks[p], "update")
     ELSE Goto("player", "updated") /\ UNCHANGED <<goal, place, obj, torn>>

InteractWithDoor(p, player, what) ==
  /\ pc["player"] = "idle" /\ interactiveBlocks[p] # NoObject
  /\ LET d == heap[interactiveBlocks[p]] IN
       /\ d.kind = "door"
       /\ DoorAllows(d, player, what)
       /\ Interacted(p, DoorAfter(d, player, what))
  /\ PlayerUnchanged

InteractWithChest(p, player, what, item, index, q) ==
  /\ pc["player"] = "idle" /\ interactiveBlocks[p] # NoObject
  /\ heap[interactiveBlocks[p]].kind = "chest"
  /\ LET c == Opened(heap[interactiveBlocks[p]]) IN
       /\ ChestAllows(c, player, what, index)
       /\ what = "putItem" => Len(c.items) < MaxStacks
       /\ Interacted(p, ChestAfter(c, player, what, item, index, q))
  /\ PlayerUnchanged

(* The event that OnInteract made. *)
PlayerSends ==
  /\ pc["player"] = "updated"
  /\ SendEvent
  /\ Done("player")
  /\ SendUnchanged

(***************************************************************************)
(* processBlockEvents.  The model ends where it does, with its context.    *)
(***************************************************************************)
ReadEvent ==
  /\ blockEvents > 0
  /\ blockEvents' = blockEvents - 1
  /\ UNCHANGED <<heap, maps, updateQueue, chunk, threadVars, loopVars, history>>

Init ==
  /\ heap = [o \in Objects |-> NoObject]
  /\ blocks = [p \in Places |-> NoObject]
  /\ dynamicBlocks = [p \in Places |-> NoObject]
  /\ interactiveBlocks = [p \in Places |-> NoObject]
  /\ updateQueue = NoEntries
  /\ blockEvents = 0
  /\ chunk \in Stored
  /\ pc = [t \in Threads |-> "idle"]
  /\ goal = [t \in Threads |-> "none"]
  /\ place = [t \in Threads |-> NoPlace]
  /\ obj = [t \in Threads |-> NoObject]
  /\ batch = NoEntries
  /\ current = NoPlace /\ ticked = NoObject /\ near = {} /\ looked = {}
  /\ created = NoEntries
  /\ dropped = NoEntries
  /\ torn = {} /\ budget = Budget[chunk]

LoopStep ==
  \/ Enters("loop")
  \/ \E p \in Places : NextBlock(p) \/ NeighborFound(p) \/ NeighborMissing(p)
  \/ NeighborLoaded \/ NeighborFetched \/ NeighborCreated
  \/ TickBlock \/ SpreadToFire \/ Spread \/ SendPlaced \/ SetBlock \/ Reschedule

RequestStep ==
  Enters("request") \/ RequestLoaded \/ RequestGenerated

PlayerStep ==
  Enters("player") \/ PlayerSends

Interact ==
  \E p \in Places, player \in Players, what \in Interactions :
    \/ InteractWithDoor(p, player, what)
    \/ \E item \in Items, index \in 1..MaxStacks, q \in 0..2 :
         InteractWithChest(p, player, what, item, index, q)

Next ==
  \/ \E due \in Dues : TakeDue(due)
  \/ LoopStep
  \/ \E p \in Places : RequestFetches(p)
  \/ RequestStep
  \/ Interact \/ PlayerStep
  \/ ReadEvent

Spec == Init /\ [][Next]_vars

(***************************************************************************)
(* Goroutines that can run do, and a channel serves the senders that wait  *)
(* for room in their order, so that a player who sends again and again     *)
(* does not keep the loop waiting.  Time passes: an entry is due in the    *)
(* end and leaves the sorted queue at the next tick of the loop.           *)
(***************************************************************************)
Fairness ==
  /\ SF_vars(LoopStep)
  /\ WF_vars(RequestStep) /\ WF_vars(PlayerStep)
  /\ WF_vars(ReadEvent)
  /\ \A p \in Places : SF_vars(TakeDueOf(p))

FairSpec == Spec /\ Fairness

-----------------------------------------------------------------------------

Pending(p) == updateQueue[p] + batch[p] + (IF current = p THEN 1 ELSE 0)

TypeOK ==
  /\ heap \in [Objects -> LiveBlocks \cup {NoObject}]
  /\ \A o \in Objects : Referenced(o) => heap[o] \in LiveBlocks
  /\ {blocks, dynamicBlocks, interactiveBlocks} \subseteq [Places -> Objects \cup {NoObject}]
  /\ {updateQueue, batch, created, dropped} \subseteq [Places -> Nat]
  /\ blockEvents \in 0..EventsCap
  /\ chunk \in [Places -> Protos \cup {Absent}]
  /\ pc["loop"] \in {"idle", "next", "neighbors", "created", "send", "spread",
                     "placed", "reschedule"} \cup Entering
  /\ pc["request"] \in {"idle", "created"} \cup Entering
  /\ pc["player"] \in {"idle", "send", "updated"} \cup Entering
  /\ \A t \in Threads : place[t] \in Places <=> obj[t] \in Objects
  /\ current \in Places <=> ticked \in Objects
  /\ \A n \in near : n.place \in looked /\ n.kind \in Kinds
  /\ \A p \in Places : dynamicBlocks[p] # NoObject => heap[dynamicBlocks[p]].kind \in DynamicKinds
  /\ \A p \in Places :
       interactiveBlocks[p] # NoObject => heap[interactiveBlocks[p]].kind \in InteractiveKinds

(***************************************************************************)
(* A dynamic block stays scheduled: it has an entry, in the queue or in    *)
(* the hands of the loop, for each time that it was created, and no other, *)
(* through updates, reloads, stale objects and fire that spreads - except  *)
(* for the entries that the early return at a burning neighbour drops      *)
(* (scheduleBlockUpdate, processDynamicBlocks).                            *)
(***************************************************************************)
StaysScheduled ==
  \A p \in Places :
    /\ Pending(p) + dropped[p] = created[p]
    /\ dynamicBlocks[p] # NoObject => created[p] > 0

(***************************************************************************)
(* The three maps agree: once nobody is entering a block for a place, what *)
(* the loop ticks and players use is the block that GetBlock shows and     *)
(* SaveBlocksToChunk saves, also when an update brings back an object that *)
(* a reload had replaced.  Two threads that enter blocks for one place at  *)
(* once may leave the maps with one object each (`torn').                  *)
(***************************************************************************)
MapsAgree ==
  \A p \in Places :
    /\ blocks[p] # NoObject /\ p \notin torn
    /\ ~\E t \in Threads : place[t] = p /\ pc[t] \in Entering
    => /\ IsDynamic(blocks[p]) => dynamicBlocks[p] = blocks[p]
       /\ IsInteractive(blocks[p]) => interactiveBlocks[p] = blocks[p]

(***************************************************************************)
(* A chest survives saving and loading: whatever players did to it, what   *)
(* ToProto gives restores its contents, lock and owner                     *)
(* (storage/tests/block_storage_test.go).                                  *)
(***************************************************************************)
ChestSurvivesSave ==
  \A o \in Objects :
    Referenced(o) /\ heap[o].kind = "chest" =>
      [Deserialize(New("chest"), ToProto(heap[o])) EXCEPT !.changed = heap[o].changed] = heap[o]

(***************************************************************************)
(* Every dynamic block goes on ticking, until the context is done or an    *)
(* early return drops its entries: the loop never waits for ever, although *)
(* it sends on a channel that players fill as well.                        *)
(***************************************************************************)
KeepsTicking ==
  \A p \in Places :
    dynamicBlocks[p] # NoObject ~> current = p \/ dropped[p] > 0
=============================================================================
