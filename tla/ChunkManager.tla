---------------------------- MODULE ChunkManager ----------------------------
(***************************************************************************)
(* The chunks in memory, internal/chunkmanager/chunk_manager.go, with the  *)
(* goroutines that work on them: handlers that ask for a chunk (GetChunks, *)
(* GenerateChunks, the block manager's neighbour lookups), SetBlock, the   *)
(* goroutine that saves a generated chunk once, the periodic saver, the    *)
(* cleanup routine, and WorldService.Stop, which the signal handler runs.  *)
(* A crash, or the console's stop, which saves nothing, is the end of a    *)
(* behaviour; Init covers whatever the next start finds.                   *)
(*                                                                         *)
(* A section under cm.mu is one step.  Only SaveChunksToStorage holds the  *)
(* lock across calls of the storage, so `walking' names who reads under    *)
(* RLock.  A *game.Chunk is a shared object: the map, callers and savers   *)
(* hold references into `heap'.  Its content is the set of the edits made  *)
(* to it and of the terrain it was generated with.  The storage is the     *)
(* content LoadChunk returns; SaveChunk sets it block by block, and what   *)
(* DeltaStorage may lose of it, StorageLoses takes away.                   *)
(***************************************************************************)
EXTENDS Naturals, FiniteSets

CONSTANTS
  Keys,            \* chunk positions (the keys of the map chunks)
  Edits,           \* blocks SetBlock may put, each at a place of its own
  Terrains,        \* outcomes of generateBlocksForChunk
  Dynamic,         \* edits and, with a plugin's factories, terrains with a
                   \* block that has the property _isDynamic
  Requesters,      \* goroutines calling GetOrGenerateChunk
  Objects,         \* identities of *game.Chunk; unreachable ones are reused
  NoObject, NoKey, NoTerrain,
  Absent,          \* the storage has no such chunk
  Lost,            \* the chunk lost something and nothing is claimed of it
  MaxMisses        \* bound of the model: lookups that miss

Walkers == {"saver", "stop"}     \* callers of SaveChunksToStorage
Contents == SUBSET (Edits \cup Terrains)

ASSUME KeysAssumption ==
  /\ Dynamic \subseteq Edits \cup Terrains /\ Edits \cap Terrains = {}
  /\ NoObject \notin Objects /\ NoKey \notin Keys /\ NoTerrain \notin Edits \cup Terrains
  /\ \A content \in Contents : content # Absent /\ content # Lost
  /\ MaxMisses \in Nat

VARIABLES
  heap,        \* content of each chunk object
  chunks,      \* the map chunks
  active,      \* activeChunks
  blockCache,  \* the terrain blockCache repeats
  stored,      \* what the storage's LoadChunk finds
  pc, key, got, obj,   \* locals of a request in progress
  firsts,      \* generated chunks whose saver has yet to begin: [key, obj]
  saves,       \* calls of the storage's SaveChunk in progress: who calls, for
               \* which chunk, what it held at first, the cells left to set
  walking,     \* who is inside SaveChunksToStorage, holding RLock
  todo,        \* chunks such a caller has yet to save
  saver,       \* the periodic saver: "on", "last" (context done), "gone"
  removing,    \* chunksToRemove, collected under RLock
  cleaner,     \* the cleanup routine: "idle", "remove", "clear"
  loading,     \* chunks LoadChunksFromStorage has yet to load
  closing,     \* chunks the storage's Close has yet to write
  phase        \* "loading", "running", "stopping", "saved", "closed"

(* History variables; no step of the code depends on them. *)
VARIABLES
  placed,      \* terrain and edits each chunk was given, or Lost
  placedAtStop,
  kept,        \* what Close has written of each chunk
  entered,     \* edits generateChunk took from the block manager
  misses

reqVars == <<pc, key, got, obj>>
saveVars == <<firsts, saves, walking, todo, saver>>
cleanVars == <<removing, cleaner>>
lifeVars == <<loading, closing, phase>>
history == <<placed, placedAtStop, kept, entered, misses>>
vars == <<heap, chunks, active, blockCache, stored, reqVars, saveVars, cleanVars, lifeVars,
          history>>

Cached(k) == chunks[k] # NoObject
CachedKeys == {k \in Keys : Cached(k)}

Held(k) == IF stored[k] = Absent THEN {} ELSE stored[k]

(* What a request for k is answered with from now on. *)
Shown(k) ==
  CASE Cached(k) -> heap[chunks[k]]
    [] ~Cached(k) /\ stored[k] # Absent -> stored[k]
    [] OTHER -> {blockCache[k]}

(* generateChunk, holding cm.mu, called MarkChunkAsActive, which takes it. *)
Stuck == \E p \in Requesters : pc[p] = "stuck"
MayRead == ~Stuck
(* Does not wait for the readers. *)
FaultyMayWrite == ~Stuck
MayWrite == ~Stuck /\ walking = {}

Unreachable(o) ==
  /\ \A k \in Keys : chunks[k] # o
  /\ \A p \in Requesters : obj[p] # o
  /\ \A f \in firsts \cup saves : f.obj # o
NewObject == CHOOSE o \in Objects : Unreachable(o)
MayAllocate == \E o \in Objects : Unreachable(o)    \* memory never runs out

(* A new object with this content. *)
Allocated(content) ==
  [o \in Objects |-> IF o = NewObject THEN content
                     ELSE IF Unreachable(o) THEN {} ELSE heap[o]]

(* The chunk was given something that this content has not. *)
Misses(k, content) == placed[k] # Lost /\ ~(placed[k] \subseteq content)
(* Of what it was given, the storage has less with this content. *)
Takes(k, content) == placed[k] # Lost /\ (placed[k] \cap Held(k)) \ content # {}
Lose(S) == [k \in Keys |-> IF k \in S THEN Lost ELSE placed[k]]
Give(f, k, E) == [f EXCEPT ![k] = IF @ = Lost THEN @ ELSE @ \cup E]

Return(p) ==
  /\ pc' = [pc EXCEPT ![p] = "idle"]
  /\ key' = [key EXCEPT ![p] = NoKey]
  /\ got' = [got EXCEPT ![p] = {}]
  /\ obj' = [obj EXCEPT ![p] = NoObject]

(***************************************************************************)
(* LoadChunksFromStorage, run by Start before any request is served; a     *)
(* chunk that cannot be read is left out.                                  *)
(***************************************************************************)
LoadFromStorage(k) ==
  /\ phase = "loading" /\ k \in loading
  /\ loading' = loading \ {k}
  /\ \/ /\ MayWrite /\ MayAllocate
        /\ stored[k] # Absent
        /\ heap' = Allocated(stored[k])
        /\ chunks' = [chunks EXCEPT ![k] = NewObject]
     \/ UNCHANGED <<heap, chunks>>
  /\ UNCHANGED <<active, blockCache, stored, reqVars, saveVars, cleanVars, closing, phase,
                 history>>

Started ==
  /\ phase = "loading" /\ loading = {}
  /\ phase' = "running"
  /\ UNCHANGED <<heap, chunks, active, blockCache, stored, reqVars, saveVars, cleanVars,
                 loading, closing, history>>

(***************************************************************************)
(* GetOrGenerateChunk.  A lookup that finds the chunk changes nothing; one *)
(* that misses goes on without the lock.                                   *)
(***************************************************************************)
GetOrGenerateMisses(p, k) ==
  /\ phase # "loading" /\ pc[p] = "idle" /\ misses < MaxMisses
  /\ MayRead
  /\ ~Cached(k)
  /\ pc' = [pc EXCEPT ![p] = "load"]
  /\ key' = [key EXCEPT ![p] = k]
  /\ misses' = misses + 1
  /\ UNCHANGED <<heap, chunks, active, blockCache, stored, got, obj, saveVars, cleanVars,
                 lifeVars, placed, placedAtStop, kept, entered>>

LoadFinds(p) ==
  /\ pc[p] = "load"
  /\ stored[key[p]] # Absent
  /\ got' = [got EXCEPT ![p] = stored[key[p]]]
  /\ pc' = [pc EXCEPT ![p] = "put"]
  /\ UNCHANGED <<heap, chunks, active, blockCache, stored, key, obj, saveVars, cleanVars,
                 lifeVars, history>>

(* ErrChunkNotFound stands for a read that failed, too. *)
LoadNotFound(p) ==
  /\ pc[p] = "load"
  /\ pc' = [pc EXCEPT ![p] = "generate"]
  /\ UNCHANGED <<heap, chunks, active, blockCache, stored, key, got, obj, saveVars,
                 cleanVars, lifeVars, history>>

(* The loaded chunk enters the map, whatever the map holds by now. *)
PutLoaded(p) ==
  /\ pc[p] = "put"
  /\ MayWrite /\ MayAllocate
  /\ heap' = Allocated(got[p])
  /\ chunks' = [chunks EXCEPT ![key[p]] = NewObject]
  /\ obj' = [obj EXCEPT ![p] = NewObject]
  /\ pc' = [pc EXCEPT ![p] = "blocks"]
  /\ placed' = Lose({k \in {key[p]} : Misses(k, got[p])})
  /\ UNCHANGED <<active, blockCache, stored, key, got, saveVars, cleanVars, lifeVars,
                 placedAtStop, kept, entered, misses>>

(* LoadBlocksFromChunk marks the chunk if it finds a dynamic block in it. *)
LoadBlocks(p) ==
  /\ pc[p] = "blocks"
  /\ IF heap[obj[p]] \cap Dynamic # {}
     THEN MayWrite /\ active' = active \cup {key[p]}
     ELSE UNCHANGED active
  /\ Return(p)
  /\ UNCHANGED <<heap, chunks, blockCache, stored, saveVars, cleanVars, lifeVars,
                 history>>

(* Does not look at the map again. *)
FaultyExists(k) == FALSE
ExistsByNow(k) == Cached(k)

(* GetBlockTypeFromBiomeData for every cell: the cache decides, or chance. *)
TerrainOf(k) == IF blockCache[k] = NoTerrain THEN Terrains ELSE {blockCache[k]}

(* cacheBlockType drops the whole cache when it is full. *)
CacheFull == [k \in Keys |-> NoTerrain]

(* Chunks whose terrain only the cache knew, when it goes. *)
TerrainLost(k) == ~Cached(k) /\ stored[k] = Absent /\ placed[k] # {}

GenerateFindsChunk(p) ==
  /\ pc[p] = "generate"
  /\ MayWrite
  /\ ExistsByNow(key[p])
  /\ Return(p)
  /\ UNCHANGED <<heap, chunks, active, blockCache, stored, saveVars, cleanVars, lifeVars,
                 history>>

(* SaveBlocksToChunk takes over what the block manager has by now: blocks   *)
(* that fire or a load put there since the cells were generated, which the  *)
(* look for dynamic blocks has not seen.  A chunk is lost that is generated *)
(* although the storage has it: the read failed, or its answer is old.      *)
GenerateChunk(p) ==
  LET k == key[p] IN
  /\ pc[p] = "generate"
  /\ MayWrite /\ MayAllocate
  /\ ~ExistsByNow(k)
  /\ \E t \in TerrainOf(k) \ Dynamic, live \in SUBSET Edits, cache \in {blockCache, CacheFull} :
       /\ blockCache' = [cache EXCEPT ![k] = t]
       /\ heap' = Allocated({t} \cup live)
       /\ entered' = [entered EXCEPT ![k] = @ \cup live]
       /\ placed' = Give(Lose({l \in Keys : \/ l = k /\ stored[k] # Absent
                                            \/ l # k /\ cache = CacheFull /\ TerrainLost(l)}),
                         k, {t} \cup live)
  /\ chunks' = [chunks EXCEPT ![k] = NewObject]
  /\ firsts' = firsts \cup {[key |-> k, obj |-> NewObject]}
  /\ Return(p)
  /\ UNCHANGED <<active, stored, saves, walking, todo, saver, cleanVars, lifeVars,
                 placedAtStop, kept, misses>>

(* The terrain has a dynamic block: MarkChunkAsActive waits for cm.mu for ever. *)
GenerateDeadlocks(p) ==
  /\ pc[p] = "generate"
  /\ MayWrite
  /\ ~ExistsByNow(key[p])
  /\ \E t \in TerrainOf(key[p]) \cap Dynamic :
       blockCache' = [blockCache EXCEPT ![key[p]] = t]
  /\ pc' = [pc EXCEPT ![p] = "stuck"]
  /\ UNCHANGED <<heap, chunks, active, stored, key, got, obj, saveVars,
                 cleanVars, lifeVars, history>>

(***************************************************************************)
(* SetBlock: the chunk has to be in memory; a dynamic block marks it.      *)
(***************************************************************************)
(* Forgets to mark the chunk. *)
FaultySetBlock(k, e) ==
  /\ phase # "loading" /\ MayWrite /\ Cached(k)
  /\ heap' = [heap EXCEPT ![chunks[k]] = @ \cup {e}]
  /\ placed' = Give(placed, k, {e})
  /\ UNCHANGED <<chunks, active, blockCache, stored, reqVars, saveVars, cleanVars, lifeVars,
                 placedAtStop, kept, entered, misses>>

SetBlock(k, e) ==
  /\ phase # "loading" /\ MayWrite /\ Cached(k)
  /\ heap' = [heap EXCEPT ![chunks[k]] = @ \cup {e}]
  /\ active' = IF e \in Dynamic THEN active \cup {k} ELSE active
  /\ placed' = Give(placed, k, {e})
  /\ UNCHANGED <<chunks, blockCache, stored, reqVars, saveVars, cleanVars, lifeVars,
                 placedAtStop, kept, entered, misses>>

(***************************************************************************)
(* The storage's SaveChunk: an empty delta where there is none, then the   *)
(* chunk's blocks one by one, which a load may see half done.  The terrain *)
(* counts as one cell, each edit as one of its own.                        *)
(***************************************************************************)
Going(c) == IF c.left = {} THEN {} ELSE {c}

(* A chunk that is not in memory shows the empty delta. *)
SaveBegins(by, k, o) ==
  /\ saves' = saves \cup Going([by |-> by, key |-> k, obj |-> o, seen |-> heap[o],
                                left |-> Edits \cup (heap[o] \cap Terrains)])
  /\ stored' = [stored EXCEPT ![k] = Held(k)]
  /\ placed' = Lose({l \in {k} : stored[k] = Absent /\ ~Cached(k) /\ Misses(k, {})})

(* The block of one cell: the chunk's, or the one from before SetBlock put  *)
(* another beside the save; a chunk loaded in part may have no block there. *)
SetCell(c, x, has, new) ==
  \/ x \in heap[c.obj] /\ new = (IF x \in Terrains THEN has \ Terrains ELSE has) \cup {x}
  \/ x \in Edits \ c.seen /\ new = has \ {x}
  \/ x \in Edits \ c.seen /\ c.seen \cap Terrains = {} /\ new = has

(* An old block may replace a newer one: harmless while the chunk is in *)
(* memory and will be saved again.                                      *)
CellSaved(c, x) ==
  /\ x \in c.left
  /\ saves' = (saves \ {c}) \cup Going([c EXCEPT !.left = @ \ {x}])
  /\ \E new \in SUBSET (Held(c.key) \cup {x}) :
       /\ SetCell(c, x, Held(c.key), new)
       /\ stored' = [stored EXCEPT ![c.key] = new]
       /\ placed' = Lose({k \in {c.key} : /\ ~Cached(k) \/ (phase # "running" /\ k \in closing)
                                          /\ Takes(k, new)})
  /\ UNCHANGED <<heap, chunks, active, blockCache, reqVars, firsts, walking, todo, saver,
                 cleanVars, lifeVars, placedAtStop, kept, entered, misses>>

(* What becomes of a chunk when DeltaStorage loses it, or a part of it: an  *)
(* image torn or left behind, a read that failed, a key taken off the dirty *)
(* ones too early.                                                          *)
StorageLoses(k) ==
  /\ stored[k] # Absent
  /\ \E left \in ((SUBSET stored[k]) \cup {Absent}) \ {stored[k]} :
       stored' = [stored EXCEPT ![k] = left]
  /\ placed' = Lose({k})
  /\ UNCHANGED <<heap, chunks, active, blockCache, reqVars, saveVars, cleanVars, lifeVars,
                 placedAtStop, kept, entered, misses>>

(***************************************************************************)
(* The goroutine generateChunk starts: one SaveChunk, under no lock.  It   *)
(* reads the cells while SetBlock may change them, and may come late.      *)
(***************************************************************************)
FirstSaveBegins(f) ==
  /\ firsts' = firsts \ {f}
  /\ SaveBegins("first", f.key, f.obj)
  /\ UNCHANGED <<heap, chunks, active, blockCache, reqVars, walking, todo, saver, cleanVars,
                 lifeVars, placedAtStop, kept, entered, misses>>

(***************************************************************************)
(* SaveChunksToStorage: the periodic saver at a tick and once more when    *)
(* its context is done, and Stop.                                          *)
(***************************************************************************)
WalkUnchanged ==
  UNCHANGED <<heap, chunks, active, blockCache, reqVars, firsts, cleanVars, loading,
              entered, misses>>

(* Leaves out the chunks in use. *)
FaultyChunksToSave == CachedKeys \ active
ChunksToSave == CachedKeys

BeginWalk(w) ==
  /\ MayRead
  /\ w \notin walking
  /\ walking' = walking \cup {w}
  /\ todo' = [todo EXCEPT ![w] = ChunksToSave]
  /\ UNCHANGED <<saves, stored, closing, kept, placed>>

CallOf(w) == {c \in saves : c.by = w}

(* Forgets RUnlock. *)
FaultyEndWalk(w) ==
  w \in walking /\ todo[w] = {} /\ CallOf(w) = {}
  /\ UNCHANGED <<walking, todo, saves, stored, placedAtStop, placed>>

EndWalk(w) ==
  /\ w \in walking /\ todo[w] = {} /\ CallOf(w) = {}
  /\ walking' = walking \ {w}
  /\ UNCHANGED <<todo, saves, stored, placedAtStop, placed>>

SaverTicks ==
  /\ saver = "on"
  /\ BeginWalk("saver")
  /\ UNCHANGED <<saver, phase, placedAtStop>>
  /\ WalkUnchanged

(* Under the lock nobody changes the chunk meanwhile. *)
SaveNext(w, k) ==
  /\ w \in walking /\ k \in todo[w] /\ CallOf(w) = {}
  /\ SaveBegins(w, k, chunks[k])
  /\ todo' = [todo EXCEPT ![w] = @ \ {k}]
  /\ UNCHANGED <<walking, saver, closing, phase, placedAtStop, kept>>
  /\ WalkUnchanged

SaverDone ==
  /\ EndWalk("saver")
  /\ saver' = IF saver = "last" THEN "gone" ELSE saver
  /\ UNCHANGED <<closing, phase, kept>>
  /\ WalkUnchanged

(* ctx.Done: the last save runs beside Stop. *)
SaverCancelled ==
  /\ saver = "on"
  /\ phase \in {"stopping", "saved"}
  /\ BeginWalk("saver")
  /\ saver' = "last"
  /\ UNCHANGED <<phase, placedAtStop>>
  /\ WalkUnchanged

(* The signal handler: cancel, then Stop, up to SaveChunksToStorage. *)
Stop ==
  /\ phase = "running"
  /\ BeginWalk("stop")
  /\ phase' = "stopping"
  /\ placedAtStop' = placed
  /\ UNCHANGED saver
  /\ WalkUnchanged

StopSaved ==
  /\ EndWalk("stop")
  /\ phase' = "saved"
  /\ UNCHANGED <<saver, closing, kept>>
  /\ WalkUnchanged

(* worldStorage.Close writes what it holds, chunk after chunk, beside calls *)
(* of SaveChunk; what they set after that never reaches the disk.           *)
CloseWrites(k) ==
  /\ phase = "saved" /\ k \in closing
  /\ kept' = [kept EXCEPT ![k] = stored[k]]
  /\ closing' = closing \ {k}
  /\ UNCHANGED <<saves, stored, walking, todo, saver, phase, placedAtStop, placed>>
  /\ WalkUnchanged

(* The model ends here. *)
CloseReturns ==
  /\ phase = "saved" /\ closing = {}
  /\ phase' = "closed"
  /\ UNCHANGED <<saves, stored, walking, todo, saver, closing, placedAtStop, placed, kept>>
  /\ WalkUnchanged

(***************************************************************************)
(* The cleanup routine: collect under RLock, remove under Lock, clear the  *)
(* block cache.                                                            *)
(***************************************************************************)
CleanUnchanged ==
  UNCHANGED <<heap, active, stored, reqVars, saveVars, lifeVars, placedAtStop, kept,
              entered, misses>>

CollectUnused ==
  /\ cleaner = "idle" /\ phase \in {"loading", "running"}
  /\ MayRead
  /\ removing' = CachedKeys \ active
  /\ cleaner' = IF CachedKeys \ active = {} THEN "clear" ELSE "remove"
  /\ UNCHANGED <<chunks, blockCache, placed>>
  /\ CleanUnchanged

(* Relies on what was collected. *)
FaultyUnusedNow == removing
UnusedNow == removing \ active

(* The chunk leaves with whatever it held, saved or not. *)
RemoveUnused ==
  /\ cleaner = "remove"
  /\ MayWrite
  /\ chunks' = [k \in Keys |-> IF k \in UnusedNow THEN NoObject ELSE chunks[k]]
  /\ placed' = Lose({k \in UnusedNow \cap CachedKeys :
                       Misses(k, IF stored[k] = Absent THEN {blockCache[k]} ELSE stored[k])})
  /\ removing' = {}
  /\ cleaner' = "clear"
  /\ UNCHANGED blockCache
  /\ CleanUnchanged

ClearBlockCache ==
  /\ cleaner = "clear"
  /\ blockCache' = CacheFull
  /\ placed' = Lose({k \in Keys : TerrainLost(k)})
  /\ cleaner' = "idle"
  /\ UNCHANGED <<chunks, removing>>
  /\ CleanUnchanged

(* The blocks of a chunk in part, with the terrain or still without it. *)
Storable == {content \in Contents : \A t, u \in content \cap Terrains : t = u}

Init ==
  /\ heap = [o \in Objects |-> {}]
  /\ chunks = [k \in Keys |-> NoObject]
  /\ active = {}
  /\ blockCache = [k \in Keys |-> NoTerrain]
  /\ stored \in [Keys -> Storable \cup {Absent}]
  /\ pc = [p \in Requesters |-> "idle"]
  /\ key = [p \in Requesters |-> NoKey]
  /\ got = [p \in Requesters |-> {}]
  /\ obj = [p \in Requesters |-> NoObject]
  /\ firsts = {} /\ saves = {} /\ walking = {} /\ removing = {}
  /\ todo = [w \in Walkers |-> {}]
  /\ saver = "on" /\ cleaner = "idle"
  /\ loading = {k \in Keys : stored[k] # Absent}
  /\ closing = Keys
  /\ phase = "loading"
  /\ placed = [k \in Keys |-> Held(k)]
  /\ placedAtStop = [k \in Keys |-> {}]
  /\ kept = [k \in Keys |-> Absent]
  /\ entered = [k \in Keys |-> {}]
  /\ misses = 0

(* The steps of a request, after its lookup. *)
RequestStep(p) ==
  \/ LoadFinds(p) \/ LoadNotFound(p) \/ PutLoaded(p) \/ LoadBlocks(p)
  \/ GenerateFindsChunk(p) \/ GenerateChunk(p) \/ GenerateDeadlocks(p)

Request(p) == RequestStep(p) \/ \E k \in Keys : GetOrGenerateMisses(p, k)

SaveGoesOn(by) == \E c \in CallOf(by) : \E x \in c.left : CellSaved(c, x)
FirstSave == SaveGoesOn("first") \/ \E f \in firsts : FirstSaveBegins(f)
SaverStep ==
  SaverTicks \/ SaverDone \/ SaveGoesOn("saver") \/ \E k \in Keys : SaveNext("saver", k)
StopStep ==
  \/ StopSaved \/ CloseReturns \/ SaveGoesOn("stop")
  \/ \E k \in Keys : SaveNext("stop", k) \/ CloseWrites(k)
CleanerStep == CollectUnused \/ RemoveUnused \/ ClearBlockCache

Next ==
  /\ phase # "closed"
  /\ \/ \E k \in Keys : LoadFromStorage(k)
     \/ Started
     \/ \E p \in Requesters : Request(p)
     \/ \E k \in Keys, e \in Edits : SetBlock(k, e)
     \/ \E k \in Keys : StorageLoses(k)
     \/ FirstSave
     \/ SaverStep \/ SaverCancelled
     \/ Stop \/ StopStep
     \/ CleanerStep

Spec == Init /\ [][Next]_vars

(***************************************************************************)
(* Goroutines that are runnable run, and sync.RWMutex lets a waiting       *)
(* writer in before readers that come after it, so that a request cannot   *)
(* wait for the lock for ever while the saver takes it again and again.    *)
(***************************************************************************)
Fairness ==
  /\ \A p \in Requesters : SF_vars(phase # "closed" /\ RequestStep(p))
  /\ WF_vars(phase # "closed" /\ SaverStep)
  /\ WF_vars(phase # "closed" /\ StopStep)
  /\ WF_vars(phase # "closed" /\ FirstSave)

FairSpec == Spec /\ Fairness

-----------------------------------------------------------------------------

TypeOK ==
  /\ heap \in [Objects -> Contents]
  /\ chunks \in [Keys -> Objects \cup {NoObject}]
  /\ active \subseteq Keys
  /\ blockCache \in [Keys -> Terrains \cup {NoTerrain}]
  /\ stored \in [Keys -> Contents \cup {Absent}]
  /\ pc \in [Requesters -> {"idle", "load", "put", "blocks", "generate", "stuck"}]
  /\ key \in [Requesters -> Keys \cup {NoKey}]
  /\ got \in [Requesters -> Contents]
  /\ obj \in [Requesters -> Objects \cup {NoObject}]
  /\ firsts \subseteq [key : Keys, obj : Objects]
  /\ saves \subseteq [by : Walkers \cup {"first"}, key : Keys, obj : Objects,
                      seen : Contents, left : Contents]
  /\ walking \subseteq Walkers
  /\ todo \in [Walkers -> SUBSET Keys]
  /\ saver \in {"on", "last", "gone"}
  /\ removing \subseteq Keys
  /\ cleaner \in {"idle", "remove", "clear"}
  /\ loading \subseteq Keys /\ closing \subseteq Keys
  /\ phase \in {"loading", "running", "stopping", "saved", "closed"}
  /\ placed \in [Keys -> Contents \cup {Lost}]
  /\ placedAtStop \in [Keys -> Contents \cup {Lost}]
  /\ kept \in [Keys -> Contents \cup {Absent}]
  /\ entered \in [Keys -> SUBSET Edits]
  /\ misses \in 0..MaxMisses
  /\ \A w \in walking : todo[w] \subseteq CachedKeys

(***************************************************************************)
(* What was placed is shown: the terrain a chunk was generated with and    *)
(* every block SetBlock put are in what the next request gets, through     *)
(* eviction, loading and a second generation - unless a late copy, or one  *)
(* read while a save was under way, was put over the chunk; it was evicted *)
(* before all of it was saved; its first save put back an older block once *)
(* it was evicted or the server was stopping; or the storage lost it or    *)
(* could not read it (GetOrGenerateChunk, generateChunk,                   *)
(* cleanupUnusedChunks, SaveChunk, the block cache).                       *)
(***************************************************************************)
PlacedIsShown ==
  \A k \in Keys : placed[k] # Lost => placed[k] \subseteq Shown(k)

(***************************************************************************)
(* Stop saves: when Close has returned, it has written every block that    *)
(* SetBlock put before Stop began, in memory or evicted, with requests,    *)
(* the first saves and the periodic saver's last save still running beside *)
(* it ("Stop saves all player and chunk data", service/shutdown.go:12).    *)
(* The exceptions are those of PlacedIsShown: above all a first save that, *)
(* during the stop, puts back a block from before SetBlock, and what the   *)
(* storage itself loses at Close (DeltaStorage, CloseSavesAll).            *)
(***************************************************************************)
StopSaves ==
  phase = "closed" =>
    \A k \in Keys : placed[k] # Lost =>
      placedAtStop[k] \cap Edits \subseteq (IF kept[k] = Absent THEN {} ELSE kept[k])

(***************************************************************************)
(* An active chunk is never evicted: cleanup looks at activeChunks again   *)
(* under the lock, after SetBlock or LoadBlocksFromChunk may have marked   *)
(* what it had collected ("Не выгружаем активные чанки").                  *)
(***************************************************************************)
ActiveStays ==
  [][\A k \in active : Cached(k) => chunks'[k] # NoObject]_vars

(***************************************************************************)
(* A dynamic block that the storage has not is never left to the cleanup:  *)
(* its chunk is active from the step that placed it, whatever requests     *)
(* load or generate beside it (SetBlock marks inline, under the lock).     *)
(* Only what Start loads is in memory unmarked, and that is stored.  Left  *)
(* out are a lost chunk, and a block that a generation took from the block *)
(* manager, which marks nothing for it (SaveBlocksToChunk).                *)
(***************************************************************************)
UnsavedDynamicIsActive ==
  \A k \in Keys : \A e \in Dynamic :
    /\ placed[k] # Lost /\ Cached(k) /\ e \in heap[chunks[k]]
    /\ e \notin Held(k) \cup entered[k]
    => k \in active

(***************************************************************************)
(* Every request ends, however often saver and cleanup take the lock,      *)
(* unless a generation waits for the lock that it holds; the storage       *)
(* answers every call (it does not after RegionManager's CompactionEnds).  *)
(***************************************************************************)
RequestsEnd ==
  \A p \in Requesters :
    pc[p] # "idle" ~> (pc[p] = "idle" \/ Stuck \/ phase = "closed")

(***************************************************************************)
(* Periodic saving: what is placed is stored in the end, while the server  *)
(* runs, the chunk is not lost and the storage answers every call.         *)
(***************************************************************************)
PlacedIsStored ==
  \A k \in Keys : \A e \in Edits :
    placed[k] # Lost /\ e \in placed[k] ~>
      \/ e \in Held(k)
      \/ placed[k] = Lost \/ Stuck \/ phase # "running"
=============================================================================
