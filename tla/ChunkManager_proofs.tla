------------------------ MODULE ChunkManager_proofs -------------------------
(***************************************************************************)
(* Proofs about ChunkManager, for every value of its constants: any number *)
(* of chunks, blocks, terrains, requests, objects and lookups.             *)
(***************************************************************************)
EXTENDS ChunkManager, TLAPS

-----------------------------------------------------------------------------
(* The inductive invariant.                                                *)

(* A request in progress knows its chunk. *)
RequestHasKey == \A p \in Requesters : pc[p] # "idle" => key[p] \in Keys

(* While Start loads, no request runs, and what is yet to load is not in memory. *)
LoadedFirst ==
  phase = "loading" =>
    /\ \A p \in Requesters : pc[p] = "idle"
    /\ \A k \in loading : ~Cached(k)

(* No two positions share a chunk object, and one that is being saved is in *)
(* the map under its own position, or nowhere.                              *)
OwnObject ==
  /\ \A k, l \in Keys : Cached(k) /\ chunks[k] = chunks[l] => k = l
  /\ \A f \in firsts \cup saves : \A k \in Keys : chunks[k] = f.obj => k = f.key

(* Who saves under RLock saves the chunk as it is in the map. *)
SavedUnderLock ==
  \A c \in saves : c.by \in Walkers =>
    /\ c.by \in walking /\ Cached(c.key) /\ c.obj = chunks[c.key] /\ c.seen = heap[c.obj]

(* What is on its way to or from the storage, the storage has in part. *)
OnTheWayIsStored ==
  \A k \in Keys : placed[k] # Lost =>
    /\ \A p \in Requesters : pc[p] = "put" /\ key[p] = k => stored[k] # Absent
    /\ \A c \in saves : c.key = k => stored[k] # Absent

(* Neither memory nor the storage nor a copy on its way holds anything that *)
(* the chunk was not given.                                                 *)
OnlyPlaced ==
  \A k \in Keys : placed[k] # Lost =>
    /\ Cached(k) => heap[chunks[k]] \subseteq placed[k]
    /\ Held(k) \subseteq placed[k]
    /\ \A p \in Requesters : pc[p] = "put" /\ key[p] = k => got[p] \subseteq placed[k]
    /\ \A f \in firsts \cup saves : f.key = k => heap[f.obj] \subseteq placed[k]

(* A chunk is generated with one terrain, and a second time with the same. *)
OneTerrain ==
  \A k \in Keys : placed[k] # Lost => \A t, u \in placed[k] \cap Terrains : t = u

FirstSaveOf(k) == \E f \in firsts \cup CallOf("first") : f.key = k

(* A chunk that was not stored, or whose first save may still replace what  *)
(* is stored, got its dynamic blocks from SetBlock, which marked it active, *)
(* or from the block manager.                                               *)
UnstoredDynamicIsActive ==
  \A k \in Keys :
    placed[k] # Lost /\ k \notin active /\ (stored[k] = Absent \/ FirstSaveOf(k))
    => placed[k] \cap Dynamic \subseteq entered[k]

(* The edits of k that Stop has yet to hand to the storage. *)
StopLeft(k) == UNION {c.left : c \in {d \in CallOf("stop") : d.key = k}}

KeptOf(k) == IF kept[k] = Absent THEN {} ELSE kept[k]

(* What of the edits the storage already holds, or Close has written, while *)
(* Stop saves.                                                              *)
StopProgress ==
  /\ "stop" \in walking => phase = "stopping"
  /\ phase = "saved" => todo["stop"] = {}
  /\ phase \in {"loading", "running", "stopping"} => closing = Keys
  /\ phase \in {"stopping", "saved"} =>
       \A k \in Keys : placed[k] # Lost =>
         /\ placedAtStop[k] # Lost /\ placedAtStop[k] \subseteq placed[k]
         /\ \/ k \in todo["stop"]
            \/ placedAtStop[k] \cap Edits \subseteq
                 (IF k \in closing THEN Held(k) \cup StopLeft(k) ELSE KeptOf(k))

IInv ==
  /\ TypeOK
  /\ RequestHasKey
  /\ LoadedFirst
  /\ OwnObject
  /\ SavedUnderLock
  /\ OnTheWayIsStored
  /\ PlacedIsShown
  /\ OnlyPlaced
  /\ OneTerrain
  /\ UnstoredDynamicIsActive
  /\ UnsavedDynamicIsActive
  /\ StopProgress
  /\ StopSaves

-----------------------------------------------------------------------------
(* Operators of the model.                                                 *)

(* A new object is one that nothing refers to; what is in use keeps its content. *)
LEMMA AllocatedObject ==
  ASSUME TypeOK, MayAllocate, NEW content \in Contents
  PROVE  /\ NewObject \in Objects
         /\ Allocated(content) \in [Objects -> Contents]
         /\ Allocated(content)[NewObject] = content
         /\ \A k \in Keys : chunks[k] # NewObject
         /\ \A f \in firsts \cup saves : f.obj # NewObject
         /\ \A k \in Keys : Cached(k) => Allocated(content)[chunks[k]] = heap[chunks[k]]
         /\ \A f \in firsts \cup saves : Allocated(content)[f.obj] = heap[f.obj]
<1>1. NewObject \in Objects /\ Unreachable(NewObject)
  BY DEF MayAllocate, NewObject
<1>2. {} \in Contents
  BY DEF Contents
<1>3. Allocated(content) \in [Objects -> Contents]
  BY <1>2 DEF Allocated, TypeOK
<1>4. \A o \in Objects : ~Unreachable(o) => Allocated(content)[o] = heap[o]
  BY <1>1 DEF Allocated
<1>5. \A k \in Keys : Cached(k) => chunks[k] \in Objects /\ ~Unreachable(chunks[k])
  BY DEF Unreachable, TypeOK, Cached
<1>6. \A f \in firsts \cup saves : f.obj \in Objects /\ ~Unreachable(f.obj)
  BY DEF Unreachable, TypeOK
<1>7. Allocated(content)[NewObject] = content
  BY <1>1 DEF Allocated
<1>8. QED
  BY <1>1, <1>3, <1>4, <1>5, <1>6, <1>7 DEF Unreachable

(* A new object for one position; the others keep theirs. *)
LEMMA NewChunk ==
  ASSUME TypeOK, MayAllocate, NEW k \in Keys, NEW content \in Contents,
         heap' = Allocated(content), chunks' = [chunks EXCEPT ![k] = NewObject]
  PROVE  /\ Cached(k)' /\ chunks'[k] = NewObject /\ heap'[chunks'[k]] = content
         /\ \A l \in Keys : l # k => /\ chunks'[l] = chunks[l]
                                     /\ Cached(l) => heap'[chunks[l]] = heap[chunks[l]]
         /\ \A f \in firsts \cup saves : heap'[f.obj] = heap[f.obj]
<1>1. NewObject # NoObject /\ heap'[NewObject] = content
  BY AllocatedObject, KeysAssumption
<1>2. chunks' \in [Keys -> Objects \cup {NoObject, NewObject}]
  BY DEF TypeOK
<1>3. chunks'[k] = NewObject /\ \A l \in Keys : l # k => chunks'[l] = chunks[l]
  BY DEF TypeOK
<1>4. QED
  BY <1>1, <1>3, AllocatedObject DEF Cached

(* What is lost stays lost, and losing keeps the type. *)
LEMMA Losing ==
  ASSUME TypeOK, NEW S
  PROVE  /\ Lose(S) \in [Keys -> Contents \cup {Lost}]
         /\ \A k \in Keys : Lose(S)[k] = IF k \in S THEN Lost ELSE placed[k]
BY DEF TypeOK, Lose

(* What is given after a loss. *)
LEMMA GivingAfterLoss ==
  ASSUME TypeOK, NEW S, NEW k \in Keys, NEW E \in Contents
  PROVE  /\ Give(Lose(S), k, E) \in [Keys -> Contents \cup {Lost}]
         /\ \A l \in Keys : Give(Lose(S), k, E)[l] =
              IF l = k /\ Lose(S)[l] # Lost THEN Lose(S)[l] \cup E ELSE Lose(S)[l]
<1>1. Lose(S) \in [Keys -> Contents \cup {Lost}]
  BY Losing
<1>2. QED
  BY <1>1, KeysAssumption DEF Give, Contents

LEMMA GivenAfterLoss ==
  ASSUME TypeOK, NEW S, NEW k \in Keys, NEW E \in Contents,
         NEW l \in Keys, Give(Lose(S), k, E)[l] # Lost
  PROVE  /\ placed[l] # Lost /\ l \notin S
         /\ Give(Lose(S), k, E)[l] = IF l = k THEN placed[l] \cup E ELSE placed[l]
<1>1. Give(Lose(S), k, E)[l] =
        IF l = k /\ Lose(S)[l] # Lost THEN Lose(S)[l] \cup E ELSE Lose(S)[l]
  BY GivingAfterLoss
<1>2. Lose(S)[l] # Lost
  BY <1>1
<1>3. Lose(S)[l] = placed[l] /\ placed[l] # Lost /\ l \notin S
  BY <1>2, Losing
<1>4. QED
  BY <1>1, <1>2, <1>3

(* The same without a loss. *)
LEMMA GiveOnly ==
  ASSUME TypeOK, NEW k \in Keys, NEW E \in Contents, NEW l \in Keys,
         Give(placed, k, E)[l] # Lost
  PROVE  /\ placed[l] # Lost
         /\ Give(placed, k, E)[l] = IF l = k THEN placed[l] \cup E ELSE placed[l]
BY KeysAssumption DEF TypeOK, Contents, Give

LEMMA GiveTypes ==
  ASSUME TypeOK, NEW k \in Keys, NEW E \in Contents
  PROVE  Give(placed, k, E) \in [Keys -> Contents \cup {Lost}]
BY KeysAssumption DEF TypeOK, Contents, Give

(* A request that returns forgets its chunk. *)
LEMMA ReturnTypes ==
  ASSUME TypeOK, NEW p \in Requesters, Return(p)
  PROVE  /\ pc' \in [Requesters -> {"idle", "load", "put", "blocks", "generate", "stuck"}]
         /\ key' \in [Requesters -> Keys \cup {NoKey}]
         /\ got' \in [Requesters -> Contents]
         /\ obj' \in [Requesters -> Objects \cup {NoObject}]
<1>1. {} \in Contents
  BY DEF Contents
<1>2. QED
  BY <1>1 DEF TypeOK, Return

(* What generateChunk does: the new chunk has one terrain, which is not      *)
(* dynamic, and what the block manager has; what is not lost was not stored, *)
(* or keeps its cached terrain.                                              *)
Generated(p, t, live, cache) ==
  /\ t \in TerrainOf(key[p]) /\ t \in Terrains \ Dynamic /\ live \subseteq Edits
  /\ {t} \cup live \in Contents /\ cache \in {blockCache, CacheFull}
  /\ heap' = Allocated({t} \cup live)
  /\ blockCache' = [cache EXCEPT ![key[p]] = t]
  /\ entered' = [entered EXCEPT ![key[p]] = @ \cup live]
  /\ placed' \in [Keys -> Contents \cup {Lost}]
  /\ \A l \in Keys : placed'[l] # Lost =>
       /\ placed[l] # Lost
       /\ placed'[l] = IF l = key[p] THEN placed[l] \cup ({t} \cup live) ELSE placed[l]
       /\ l = key[p] => stored[l] = Absent
       /\ l # key[p] /\ cache = CacheFull => ~TerrainLost(l)

LEMMA GeneratedChunk ==
  ASSUME TypeOK, NEW p \in Requesters, key[p] \in Keys, GenerateChunk(p)
  PROVE  \E t, live, cache : Generated(p, t, live, cache)
<1> DEFINE k == key[p]
           Losers(cache) == {l \in Keys :
                               \/ l = k /\ stored[k] # Absent
                               \/ l # k /\ cache = CacheFull /\ TerrainLost(l)}
<1>1. PICK t \in TerrainOf(k) \ Dynamic, live \in SUBSET Edits, cache \in {blockCache, CacheFull} :
        /\ blockCache' = [cache EXCEPT ![k] = t]
        /\ heap' = Allocated({t} \cup live)
        /\ entered' = [entered EXCEPT ![k] = @ \cup live]
        /\ placed' = Give(Lose(Losers(cache)), k, {t} \cup live)
  BY DEF GenerateChunk
<1>2. t \in Terrains /\ {t} \cup live \in Contents
  BY DEF TerrainOf, TypeOK, Contents
<1>3. PICK given, lost : given = {t} \cup live /\ lost = Losers(cache)
  OBVIOUS
<1>4. k \in Keys /\ given \in Contents /\ placed' = Give(Lose(lost), k, given)
  BY <1>1, <1>2, <1>3
<1>5. /\ placed' \in [Keys -> Contents \cup {Lost}]
      /\ \A l \in Keys : placed'[l] # Lost =>
           /\ placed[l] # Lost /\ l \notin lost
           /\ placed'[l] = IF l = k THEN placed[l] \cup given ELSE placed[l]
  <2> HIDE DEF k
  <2>1. placed' \in [Keys -> Contents \cup {Lost}]
    BY <1>4, GivingAfterLoss
  <2>2. ASSUME NEW l \in Keys, placed'[l] # Lost
        PROVE  /\ placed[l] # Lost /\ l \notin lost
               /\ placed'[l] = IF l = k THEN placed[l] \cup given ELSE placed[l]
    <3>1. Give(Lose(lost), k, given)[l] # Lost
      BY <1>4, <2>2
    <3>2. /\ placed[l] # Lost /\ l \notin lost
          /\ Give(Lose(lost), k, given)[l] = IF l = k THEN placed[l] \cup given ELSE placed[l]
      BY <1>4, <3>1, GivenAfterLoss
    <3>3. QED
      BY <1>4, <3>2
  <2>3. QED
    BY <2>1, <2>2
<1>6. ASSUME NEW l \in Keys, placed'[l] # Lost
      PROVE  /\ placed[l] # Lost
             /\ placed'[l] = IF l = k THEN placed[l] \cup ({t} \cup live) ELSE placed[l]
             /\ l = k => stored[l] = Absent
             /\ l # k /\ cache = CacheFull => ~TerrainLost(l)
  BY <1>3, <1>5, <1>6
<1>7. t \in TerrainOf(key[p]) /\ t \in Terrains \ Dynamic
  BY <1>2
<1>8. Generated(p, t, live, cache)
  BY <1>1, <1>2, <1>5, <1>6, <1>7 DEF Generated
<1>9. QED
  BY <1>8

(* The steps of the model, one by one. *)
LEMMA EveryStep ==
  ASSUME [Next]_vars
  PROVE  \/ \E k \in Keys : LoadFromStorage(k)
         \/ Started
         \/ \E p \in Requesters, k \in Keys : GetOrGenerateMisses(p, k)
         \/ \E p \in Requesters : LoadFinds(p) \/ LoadNotFound(p)
         \/ \E p \in Requesters : PutLoaded(p)
         \/ \E p \in Requesters : LoadBlocks(p) \/ GenerateFindsChunk(p)
         \/ \E p \in Requesters : GenerateChunk(p)
         \/ \E p \in Requesters : GenerateDeadlocks(p)
         \/ \E k \in Keys, e \in Edits : SetBlock(k, e)
         \/ \E k \in Keys : StorageLoses(k)
         \/ \E c \in saves : \E x \in c.left : CellSaved(c, x)
         \/ \E f \in firsts : FirstSaveBegins(f)
         \/ \E w \in Walkers, k \in Keys : SaveNext(w, k)
         \/ SaverTicks \/ SaverCancelled \/ Stop
         \/ SaverDone \/ StopSaved
         \/ \E k \in Keys : CloseWrites(k)
         \/ CloseReturns
         \/ CollectUnused \/ RemoveUnused \/ ClearBlockCache
         \/ UNCHANGED vars
BY DEF Next, Request, RequestStep, FirstSave, SaveGoesOn, CallOf, SaverStep, StopStep,
       CleanerStep, Walkers

(* The storage's SaveChunk begins: an empty delta is no content. *)
LEMMA SaveBeginning ==
  ASSUME TypeOK, NEW by \in Walkers \cup {"first"}, NEW k \in Keys, NEW o \in Objects,
         SaveBegins(by, k, o)
  PROVE  /\ saves' \subseteq [by : Walkers \cup {"first"}, key : Keys, obj : Objects,
                              seen : Contents, left : Contents]
         /\ stored' \in [Keys -> Contents \cup {Absent}]
         /\ placed' \in [Keys -> Contents \cup {Lost}]
         /\ \A l \in Keys : stored'[l] = (IF l = k THEN Held(k) ELSE stored[l])
         /\ \A l \in Keys : Held(l)' = Held(l)
         /\ stored'[k] # Absent
         /\ \A l \in Keys : placed'[l] # Lost =>
              /\ placed[l] # Lost /\ placed'[l] = placed[l]
              /\ l = k /\ stored[k] = Absent /\ ~Cached(k) => placed[k] = {}
<1>1. heap[o] \in Contents /\ Edits \cup (heap[o] \cap Terrains) \in Contents /\ {} \in Contents
  BY DEF TypeOK, Contents
<1>2. Held(k) \in Contents /\ Held(k) # Absent
  BY <1>1, KeysAssumption DEF Held, TypeOK
<1>3. saves' \subseteq [by : Walkers \cup {"first"}, key : Keys, obj : Objects,
                        seen : Contents, left : Contents]
  <2> DEFINE call == [by |-> by, key |-> k, obj |-> o, seen |-> heap[o],
                      left |-> Edits \cup (heap[o] \cap Terrains)]
  <2>1. call \in [by : Walkers \cup {"first"}, key : Keys, obj : Objects,
                 seen : Contents, left : Contents]
    BY <1>1
  <2>2. saves' = saves \cup Going(call)
    BY DEF SaveBegins
  <2> HIDE DEF call
  <2>3. QED
    BY <2>1, <2>2 DEF Going, TypeOK
<1>4. \A l \in Keys : stored'[l] = (IF l = k THEN Held(k) ELSE stored[l])
  BY DEF SaveBegins, TypeOK
<1>5. stored' \in [Keys -> Contents \cup {Absent}]
  BY <1>2 DEF SaveBegins, TypeOK
<1>6. \A l \in Keys : Held(l)' = Held(l)
  BY <1>2, <1>4 DEF Held
<1>7. /\ placed' \in [Keys -> Contents \cup {Lost}]
      /\ \A l \in Keys : placed'[l] # Lost =>
           /\ placed[l] # Lost /\ placed'[l] = placed[l]
           /\ l = k /\ stored[k] = Absent /\ ~Cached(k) => ~Misses(k, {})
  <2> DEFINE Losers == {l \in {k} : stored[k] = Absent /\ ~Cached(k) /\ Misses(k, {})}
  <2>1. placed' = Lose(Losers)
    BY DEF SaveBegins
  <2>2. k \in Losers <=> stored[k] = Absent /\ ~Cached(k) /\ Misses(k, {})
    OBVIOUS
  <2> HIDE DEF Losers
  <2>3. QED
    BY <2>1, <2>2, Losing
<1>8. QED
  BY <1>2, <1>3, <1>4, <1>5, <1>6, <1>7 DEF Misses

(* One block of a call of SaveChunk: nothing but the chunk's own enters the *)
(* storage, and a block that the call saw is never taken away.              *)
LEMMA SavingCell ==
  ASSUME TypeOK, NEW c \in saves, NEW x \in c.left, CellSaved(c, x)
  PROVE  \E new \in Contents :
           /\ \A l \in Keys : stored'[l] = (IF l = c.key THEN new ELSE stored[l])
           /\ stored' \in [Keys -> Contents \cup {Absent}]
           /\ new \subseteq Held(c.key) \cup heap[c.obj]
           /\ \A e \in Edits \cap Held(c.key) : e \in c.seen => e \in new
           /\ x \in Edits \cap c.seen => x \in new
           /\ \A e \in Terrains \cap Held(c.key) :
                e \in new \/ \E t \in Terrains \cap heap[c.obj] : t \in new
           /\ placed' \in [Keys -> Contents \cup {Lost}]
           /\ \A l \in Keys : placed'[l] # Lost =>
                /\ placed[l] # Lost /\ placed'[l] = placed[l]
                /\ l = c.key /\ (~Cached(l) \/ (phase # "running" /\ l \in closing)) =>
                     placed[l] \cap Held(l) \subseteq new
<1>1. /\ c.key \in Keys /\ c.obj \in Objects /\ c.left \in Contents
      /\ heap[c.obj] \in Contents /\ Held(c.key) \in Contents
  BY DEF TypeOK, Held, Contents
<1> DEFINE Losers(new) == {k \in {c.key} : /\ ~Cached(k) \/ (phase # "running" /\ k \in closing)
                                          /\ Takes(k, new)}
<1>2. PICK new \in SUBSET (Held(c.key) \cup {x}) :
        /\ SetCell(c, x, Held(c.key), new)
        /\ stored' = [stored EXCEPT ![c.key] = new]
        /\ placed' = Lose(Losers(new))
  BY DEF CellSaved
<1>3. new \in Contents
  BY <1>1 DEF Contents
<1>4. new \subseteq Held(c.key) \cup heap[c.obj]
  BY <1>2 DEF SetCell
<1>5. /\ \A e \in Edits \cap Held(c.key) : e \in c.seen => e \in new
      /\ x \in Edits \cap c.seen => x \in new
      /\ \A e \in Terrains \cap Held(c.key) :
           e \in new \/ \E t \in Terrains \cap heap[c.obj] : t \in new
  BY <1>2, KeysAssumption DEF SetCell
<1>6. /\ \A l \in Keys : stored'[l] = (IF l = c.key THEN new ELSE stored[l])
      /\ stored' \in [Keys -> Contents \cup {Absent}]
  BY <1>2, <1>3 DEF TypeOK
<1>7. c.key \in Losers(new) <=> /\ ~Cached(c.key) \/ (phase # "running" /\ c.key \in closing)
                                /\ Takes(c.key, new)
  OBVIOUS
<1>8. /\ placed' \in [Keys -> Contents \cup {Lost}]
      /\ \A l \in Keys : placed'[l] # Lost =>
           /\ placed[l] # Lost /\ placed'[l] = placed[l]
           /\ l = c.key /\ (~Cached(l) \/ (phase # "running" /\ l \in closing)) =>
                ~Takes(l, new)
  <2> HIDE DEF Losers
  <2>1. QED
    BY <1>2, <1>7, Losing
<1>9. QED
  BY <1>3, <1>4, <1>5, <1>6, <1>8 DEF Takes

(* Where a call of SaveChunk comes from. *)
LEMMA CallInProgress ==
  ASSUME TypeOK, [Next]_vars, NEW c \in saves'
  PROVE  \/ \E d \in saves : c.by = d.by /\ c.key = d.key /\ c.obj = d.obj /\ c.seen = d.seen
         \/ \E f \in firsts : /\ FirstSaveBegins(f) /\ c.by = "first"
                             /\ c.key = f.key /\ c.obj = f.obj
         \/ \E w \in Walkers, k \in Keys :
              /\ SaveNext(w, k) /\ c.by = w
              /\ c.key = k /\ c.obj = chunks[k] /\ c.seen = heap[chunks[k]]
<1>1. CASE c \in saves
  BY <1>1
<1>2. CASE c \notin saves
  <2>1. ASSUME NEW d \in saves, NEW x \in d.left, CellSaved(d, x)
        PROVE  c.by = d.by /\ c.key = d.key /\ c.obj = d.obj /\ c.seen = d.seen
    <3>1. c = [d EXCEPT !.left = @ \ {x}]
      BY <1>2, <2>1 DEF CellSaved, Going
    <3>2. QED
      BY <3>1 DEF TypeOK
  <2>2. ASSUME NEW f \in firsts, FirstSaveBegins(f)
        PROVE  c.by = "first" /\ c.key = f.key /\ c.obj = f.obj
    BY <1>2, <2>2 DEF FirstSaveBegins, SaveBegins, Going
  <2>3. ASSUME NEW w \in Walkers, NEW k \in Keys, SaveNext(w, k)
        PROVE  c.by = w /\ c.key = k /\ c.obj = chunks[k] /\ c.seen = heap[chunks[k]]
    BY <1>2, <2>3 DEF SaveNext, SaveBegins, Going
  <2>4. saves' # saves
    BY <1>2
  <2>5. QED
    BY <2>1, <2>2, <2>3, <2>4, EveryStep
       DEF LoadFromStorage, Started, GetOrGenerateMisses, LoadFinds, LoadNotFound, PutLoaded,
           LoadBlocks, GenerateFindsChunk, GenerateChunk, GenerateDeadlocks, SetBlock,
           StorageLoses, SaverTicks, SaverCancelled, Stop, BeginWalk, SaverDone, StopSaved,
           EndWalk, CloseWrites, CloseReturns, CollectUnused, RemoveUnused, ClearBlockCache,
           CleanUnchanged, saveVars, vars
<1>3. QED
  BY <1>1, <1>2

-----------------------------------------------------------------------------
(* Type correctness.                                                       *)

LEMMA TypeStep == TypeOK /\ RequestHasKey /\ [Next]_vars => TypeOK'
<1> SUFFICES ASSUME TypeOK, RequestHasKey, [Next]_vars PROVE TypeOK'
  OBVIOUS
<1> USE KeysAssumption DEF TypeOK, RequestHasKey, reqVars, saveVars, cleanVars, lifeVars, history
<1>1. ASSUME NEW k \in Keys, LoadFromStorage(k) PROVE TypeOK'
  <2>1. CASE UNCHANGED <<heap, chunks>>
    BY <1>1, <2>1 DEF LoadFromStorage, CachedKeys, Cached
  <2>2. CASE /\ MayWrite /\ MayAllocate /\ stored[k] # Absent
             /\ heap' = Allocated(stored[k])
             /\ chunks' = [chunks EXCEPT ![k] = NewObject]
    <3>1. NewObject \in Objects /\ heap' \in [Objects -> Contents]
      BY <2>2, AllocatedObject
    <3>2. QED
      BY <1>1, <2>2, <3>1 DEF LoadFromStorage, MayWrite
  <2>3. QED
    BY <1>1, <2>1, <2>2 DEF LoadFromStorage
<1>2. ASSUME Started PROVE TypeOK'
  BY <1>2 DEF Started, CachedKeys, Cached
<1>3. ASSUME NEW p \in Requesters, NEW k \in Keys, GetOrGenerateMisses(p, k) PROVE TypeOK'
  BY <1>3 DEF GetOrGenerateMisses, CachedKeys, Cached
<1>4. ASSUME NEW p \in Requesters, LoadFinds(p) \/ LoadNotFound(p) PROVE TypeOK'
  BY <1>4 DEF LoadFinds, LoadNotFound, CachedKeys, Cached
<1>5. ASSUME NEW p \in Requesters, PutLoaded(p) PROVE TypeOK'
  <2>1. NewObject \in Objects /\ heap' \in [Objects -> Contents]
    BY <1>5, AllocatedObject DEF PutLoaded
  <2>2. placed' \in [Keys -> Contents \cup {Lost}]
    BY <1>5, Losing DEF PutLoaded
  <2>3. QED
    BY <1>5, <2>1, <2>2 DEF PutLoaded, MayWrite
<1>6. ASSUME NEW p \in Requesters, LoadBlocks(p) \/ GenerateFindsChunk(p) PROVE TypeOK'
  <2>1. active' \subseteq Keys /\ Return(p)
    BY <1>6 DEF LoadBlocks, GenerateFindsChunk
  <2>2. QED
    BY <1>6, <2>1, ReturnTypes DEF LoadBlocks, GenerateFindsChunk, CachedKeys, Cached
<1>7. ASSUME NEW p \in Requesters, GenerateChunk(p) PROVE TypeOK'
  <2>1. key[p] \in Keys
    BY <1>7 DEF GenerateChunk
  <2>2. PICK t, live, cache : Generated(p, t, live, cache)
    BY <1>7, <2>1, GeneratedChunk
  <2>3. NewObject \in Objects /\ heap' \in [Objects -> Contents]
    <3> DEFINE content == {t} \cup live
    <3>1. content \in Contents /\ heap' = Allocated(content) /\ MayAllocate
      BY <1>7, <2>2 DEF GenerateChunk, Generated
    <3> HIDE DEF content
    <3>2. QED
      BY <3>1, AllocatedObject
  <2>4. blockCache' \in [Keys -> Terrains \cup {NoTerrain}]
    <3>1. cache \in [Keys -> Terrains \cup {NoTerrain}] /\ t \in Terrains
      BY <2>2 DEF CacheFull, Generated
    <3>2. QED
      BY <2>2, <3>1 DEF Generated
  <2>5. firsts' \subseteq [key : Keys, obj : Objects]
    BY <1>7, <2>1, <2>3 DEF GenerateChunk
  <2>6. chunks' \in [Keys -> Objects \cup {NoObject}]
    BY <1>7, <2>3 DEF GenerateChunk
  <2>7. Return(p) /\ walking = {} /\ walking' = walking
    BY <1>7 DEF GenerateChunk, MayWrite
  <2>8. entered' \in [Keys -> SUBSET Edits] /\ placed' \in [Keys -> Contents \cup {Lost}]
    BY <2>2 DEF Generated
  <2>9. UNCHANGED <<active, stored, saves, todo, saver, cleanVars, lifeVars,
                    placedAtStop, kept, misses>>
    BY <1>7 DEF GenerateChunk
  <2>10. QED
    BY <2>3, <2>4, <2>5, <2>6, <2>7, <2>8, <2>9, ReturnTypes
<1>8. ASSUME NEW p \in Requesters, GenerateDeadlocks(p) PROVE TypeOK'
  BY <1>8 DEF GenerateDeadlocks, TerrainOf, CachedKeys, Cached
<1>9. ASSUME NEW k \in Keys, NEW e \in Edits, SetBlock(k, e) PROVE TypeOK'
  <2>1. heap' \in [Objects -> Contents]
    BY <1>9 DEF SetBlock, Cached, Contents
  <2>2. placed' \in [Keys -> Contents \cup {Lost}]
    <3>1. PICK E : E = {e}
      OBVIOUS
    <3>2. E \in Contents /\ placed' = Give(placed, k, E)
      BY <1>9, <3>1 DEF SetBlock, Contents
    <3>3. QED
      BY <3>2, GiveTypes
  <2>3. QED
    BY <1>9, <2>1, <2>2 DEF SetBlock, MayWrite
<1>10. ASSUME NEW f \in firsts, FirstSaveBegins(f) PROVE TypeOK'
  <2>1. SaveBegins("first", f.key, f.obj) /\ f.key \in Keys /\ f.obj \in Objects
    BY <1>10 DEF FirstSaveBegins
  <2>2. /\ saves' \subseteq [by : Walkers \cup {"first"}, key : Keys, obj : Objects,
                             seen : Contents, left : Contents]
        /\ stored' \in [Keys -> Contents \cup {Absent}]
        /\ placed' \in [Keys -> Contents \cup {Lost}]
    BY <2>1, SaveBeginning
  <2>3. QED
    BY <1>10, <2>2 DEF FirstSaveBegins, CachedKeys, Cached
<1>11. ASSUME NEW c \in saves, NEW x \in c.left, CellSaved(c, x) PROVE TypeOK'
  <2>1. /\ stored' \in [Keys -> Contents \cup {Absent}]
        /\ placed' \in [Keys -> Contents \cup {Lost}]
    BY <1>11, SavingCell
  <2>2. saves' \subseteq [by : Walkers \cup {"first"}, key : Keys, obj : Objects,
                         seen : Contents, left : Contents]
    <3>1. [c EXCEPT !.left = @ \ {x}] \in [by : Walkers \cup {"first"}, key : Keys,
                                         obj : Objects, seen : Contents, left : Contents]
      BY DEF Contents
    <3>2. QED
      BY <1>11, <3>1 DEF CellSaved, Going
  <2>3. QED
    BY <1>11, <2>1, <2>2 DEF CellSaved, CachedKeys, Cached
<1>12. ASSUME NEW k \in Keys, StorageLoses(k) PROVE TypeOK'
  <2>1. PICK left \in (SUBSET stored[k]) \cup {Absent} : stored' = [stored EXCEPT ![k] = left]
    BY <1>12 DEF StorageLoses
  <2>2. left \in Contents \cup {Absent}
    BY <1>12, <2>1 DEF StorageLoses, Contents
  <2>3. placed' \in [Keys -> Contents \cup {Lost}]
    BY <1>12, Losing DEF StorageLoses
  <2>4. QED
    BY <1>12, <2>1, <2>2, <2>3 DEF StorageLoses, CachedKeys, Cached
<1>13. ASSUME SaverTicks \/ SaverCancelled \/ Stop PROVE TypeOK'
  <2>1. ASSUME NEW w \in Walkers, BeginWalk(w), UNCHANGED chunks
        PROVE  /\ walking' \subseteq Walkers /\ todo' \in [Walkers -> SUBSET Keys]
               /\ \A v \in walking' : todo'[v] \subseteq CachedKeys'
               /\ UNCHANGED <<saves, stored, closing, kept, placed>>
    BY <2>1 DEF BeginWalk, ChunksToSave, CachedKeys, Cached
  <2>2. "saver" \in Walkers /\ "stop" \in Walkers
    BY DEF Walkers
  <2>3. CASE SaverTicks
    BY <2>1, <2>2, <2>3 DEF SaverTicks, WalkUnchanged
  <2>4. CASE SaverCancelled
    BY <2>1, <2>2, <2>4 DEF SaverCancelled, WalkUnchanged
  <2>5. CASE Stop
    BY <2>1, <2>2, <2>5 DEF Stop, WalkUnchanged
  <2>6. QED
    BY <1>13, <2>3, <2>4, <2>5
<1>14. ASSUME NEW w \in Walkers, NEW k \in Keys, SaveNext(w, k) PROVE TypeOK'
  <2>1. SaveBegins(w, k, chunks[k]) /\ chunks[k] \in Objects
    BY <1>14 DEF SaveNext, CachedKeys, Cached
  <2>2. /\ saves' \subseteq [by : Walkers \cup {"first"}, key : Keys, obj : Objects,
                             seen : Contents, left : Contents]
        /\ stored' \in [Keys -> Contents \cup {Absent}]
        /\ placed' \in [Keys -> Contents \cup {Lost}]
    BY <2>1, SaveBeginning
  <2>3. QED
    BY <1>14, <2>2 DEF SaveNext, WalkUnchanged, CachedKeys, Cached
<1>15. ASSUME SaverDone \/ StopSaved \/ CloseReturns \/ \E k \in Keys : CloseWrites(k)
       PROVE  TypeOK'
  BY <1>15 DEF SaverDone, StopSaved, CloseReturns, CloseWrites, EndWalk, WalkUnchanged,
               CachedKeys, Cached
<1>16. ASSUME CollectUnused PROVE TypeOK'
  BY <1>16 DEF CollectUnused, CleanUnchanged, CachedKeys, Cached
<1>17. ASSUME RemoveUnused PROVE TypeOK'
  <2>1. placed' \in [Keys -> Contents \cup {Lost}]
    BY <1>17, Losing DEF RemoveUnused
  <2>2. QED
    BY <1>17, <2>1 DEF RemoveUnused, CleanUnchanged, MayWrite
<1>18. ASSUME ClearBlockCache PROVE TypeOK'
  <2>1. placed' \in [Keys -> Contents \cup {Lost}]
    BY <1>18, Losing DEF ClearBlockCache
  <2>2. QED
    BY <1>18, <2>1 DEF ClearBlockCache, CacheFull, CleanUnchanged, CachedKeys, Cached
<1>19. CASE UNCHANGED vars
  BY <1>19 DEF vars, CachedKeys, Cached
<1>20. QED
  BY <1>1, <1>2, <1>3, <1>4, <1>5, <1>6, <1>7, <1>8, <1>9, <1>10, <1>11, <1>12, <1>13, <1>14,
     <1>15, <1>16, <1>17, <1>18, <1>19, EveryStep

-----------------------------------------------------------------------------
(* The other parts of the invariant, one at a time.                        *)

LEMMA RequestHasKeyStep == TypeOK /\ RequestHasKey /\ [Next]_vars => RequestHasKey'
<1> SUFFICES ASSUME TypeOK, RequestHasKey, [Next]_vars PROVE RequestHasKey'
  OBVIOUS
<1> USE DEF TypeOK, RequestHasKey, reqVars
<1>1. CASE UNCHANGED <<pc, key>>
  BY <1>1
<1>2. ASSUME NEW p \in Requesters, NEW k \in Keys, GetOrGenerateMisses(p, k)
      PROVE  RequestHasKey'
  BY <1>2 DEF GetOrGenerateMisses
<1>3. ASSUME NEW p \in Requesters, RequestStep(p) PROVE RequestHasKey'
  <2>1. CASE UNCHANGED key
    BY <1>3, <2>1 DEF RequestStep, LoadFinds, LoadNotFound, PutLoaded, LoadBlocks,
                      GenerateFindsChunk, GenerateChunk, GenerateDeadlocks, Return
  <2>2. CASE Return(p)
    BY <2>2 DEF Return
  <2>3. QED
    BY <1>3, <2>1, <2>2 DEF RequestStep, LoadFinds, LoadNotFound, PutLoaded, LoadBlocks,
                            GenerateFindsChunk, GenerateChunk, GenerateDeadlocks
<1>4. QED
  BY <1>1, <1>2, <1>3, EveryStep
     DEF RequestStep, LoadFromStorage, Started, SetBlock, StorageLoses, CellSaved,
         FirstSaveBegins, SaverTicks, SaverDone, SaveNext, SaverCancelled, Stop, StopSaved,
         CloseWrites, CloseReturns, WalkUnchanged, CollectUnused, RemoveUnused,
         ClearBlockCache, CleanUnchanged, vars

LEMMA LoadedFirstStep ==
  TypeOK /\ LoadedFirst /\ [Next]_vars => LoadedFirst'
<1> SUFFICES ASSUME TypeOK, LoadedFirst, [Next]_vars PROVE LoadedFirst'
  OBVIOUS
<1> USE KeysAssumption DEF TypeOK, LoadedFirst, Cached, reqVars, lifeVars
<1>1. CASE UNCHANGED <<pc, chunks, loading, phase>>
  BY <1>1
<1>2. ASSUME NEW k \in Keys, LoadFromStorage(k) PROVE LoadedFirst'
  BY <1>2 DEF LoadFromStorage
<1>3. CASE phase' # "loading"
  BY <1>3
<1>4. CASE RemoveUnused
  BY <1>4 DEF RemoveUnused, CleanUnchanged
<1>5. ASSUME NEW p \in Requesters,
             \/ LoadFinds(p) \/ LoadNotFound(p) \/ PutLoaded(p) \/ LoadBlocks(p)
             \/ GenerateFindsChunk(p) \/ GenerateChunk(p) \/ GenerateDeadlocks(p)
             \/ \E k \in Keys : GetOrGenerateMisses(p, k)
      PROVE  phase' # "loading"
  BY <1>5 DEF GetOrGenerateMisses, LoadFinds, LoadNotFound, PutLoaded,
              LoadBlocks, GenerateFindsChunk, GenerateChunk, GenerateDeadlocks
<1>6. QED
  BY <1>1, <1>2, <1>3, <1>4, <1>5, EveryStep
     DEF Started, SetBlock, StorageLoses, CellSaved, FirstSaveBegins, SaverTicks, SaverDone,
         SaveNext, SaverCancelled, Stop, StopSaved, CloseWrites, CloseReturns, WalkUnchanged,
         CollectUnused, ClearBlockCache, CleanUnchanged, vars

LEMMA OwnObjectStep ==
  TypeOK /\ RequestHasKey /\ OwnObject /\ [Next]_vars => OwnObject'
<1> SUFFICES ASSUME TypeOK, RequestHasKey, OwnObject, [Next]_vars PROVE OwnObject'
  OBVIOUS
<1> USE KeysAssumption DEF OwnObject
<1>1. CASE UNCHANGED chunks /\ firsts' \subseteq firsts
  <2>1. ASSUME NEW c \in saves', NEW k \in Keys, chunks'[k] = c.obj PROVE k = c.key
    <3>1. CASE \E d \in saves : c.key = d.key /\ c.obj = d.obj
      BY <1>1, <2>1, <3>1
    <3>2. CASE \E f \in firsts : c.key = f.key /\ c.obj = f.obj
      BY <1>1, <2>1, <3>2
    <3>3. ASSUME NEW w \in Walkers, NEW l \in Keys, SaveNext(w, l), c.key = l, c.obj = chunks[l]
          PROVE  k = c.key
      <4>1. Cached(l)
        BY <3>3 DEF SaveNext, TypeOK, CachedKeys
      <4>2. QED
        BY <1>1, <2>1, <3>3, <4>1
    <3>4. QED
      BY <2>1, <3>1, <3>2, <3>3, CallInProgress
  <2>2. QED
    BY <1>1, <2>1 DEF Cached
<1>2. ASSUME NEW k \in Keys, chunks' = [chunks EXCEPT ![k] = NewObject], MayAllocate,
             firsts' \subseteq firsts \cup {[key |-> k, obj |-> NewObject]}, saves' = saves
      PROVE  OwnObject'
  <2>1. {} \in Contents
    BY DEF Contents
  <2>2. /\ \A l \in Keys : chunks[l] # NewObject
        /\ \A f \in firsts \cup saves : f.obj # NewObject
    BY <1>2, <2>1, AllocatedObject
  <2>3. \A l \in Keys : chunks'[l] = IF l = k THEN NewObject ELSE chunks[l]
    BY <1>2 DEF TypeOK
  <2>4. \A f \in (firsts \cup saves)' : f \in firsts \cup saves \/ (f.key = k /\ f.obj = NewObject)
    BY <1>2
  <2>5. QED
    BY <2>2, <2>3, <2>4 DEF Cached
<1>3. ASSUME NEW k \in Keys, LoadFromStorage(k) PROVE OwnObject'
  BY <1>1, <1>2, <1>3 DEF LoadFromStorage, saveVars
<1>4. ASSUME NEW p \in Requesters, PutLoaded(p) PROVE OwnObject'
  BY <1>2, <1>4 DEF PutLoaded, saveVars, RequestHasKey
<1>5. ASSUME NEW p \in Requesters, GenerateChunk(p) PROVE OwnObject'
  BY <1>2, <1>5 DEF GenerateChunk, RequestHasKey
<1>6. CASE RemoveUnused
  <2>1. UNCHANGED <<firsts, saves>> /\ \A k \in Keys : chunks'[k] \in {chunks[k], NoObject}
    BY <1>6 DEF RemoveUnused, CleanUnchanged, saveVars
  <2>2. \A f \in firsts \cup saves : f.obj # NoObject
    BY DEF TypeOK
  <2>3. QED
    BY <2>1, <2>2 DEF Cached
<1>7. QED
  BY <1>1, <1>3, <1>4, <1>5, <1>6, EveryStep
     DEF Started, GetOrGenerateMisses, LoadFinds, LoadNotFound, LoadBlocks, GenerateFindsChunk,
         GenerateDeadlocks, SetBlock, StorageLoses, CellSaved, FirstSaveBegins, SaverTicks,
         SaverDone, SaveNext, SaverCancelled, Stop, StopSaved, CloseWrites, CloseReturns,
         WalkUnchanged, CollectUnused, ClearBlockCache, CleanUnchanged, saveVars, vars

(* While somebody reads under RLock, map and objects stay as they are. *)
LEMMA ReadersKeepChunks ==
  ASSUME TypeOK, [Next]_vars, walking # {}
  PROVE  UNCHANGED <<heap, chunks>>
BY EveryStep
   DEF LoadFromStorage, Started, GetOrGenerateMisses, LoadFinds, LoadNotFound, PutLoaded,
       LoadBlocks, GenerateFindsChunk, GenerateChunk, GenerateDeadlocks, SetBlock, StorageLoses,
       CellSaved, FirstSaveBegins, SaverTicks, SaverDone, SaveNext, SaverCancelled, Stop,
       StopSaved, CloseWrites, CloseReturns, WalkUnchanged, CollectUnused, RemoveUnused,
       ClearBlockCache, CleanUnchanged, MayWrite, vars

(* Whoever has a call in progress does not give up the lock. *)
LEMMA CallerKeepsLock ==
  ASSUME TypeOK, [Next]_vars, NEW c \in saves, c.by \in walking
  PROVE  c.by \in walking'
BY EveryStep
   DEF LoadFromStorage, Started, GetOrGenerateMisses, LoadFinds, LoadNotFound, PutLoaded,
       LoadBlocks, GenerateFindsChunk, GenerateChunk, GenerateDeadlocks, SetBlock, StorageLoses,
       CellSaved, FirstSaveBegins, SaverTicks, SaverDone, SaveNext, SaverCancelled, Stop,
       StopSaved, BeginWalk, EndWalk, CallOf, CloseWrites, CloseReturns, CollectUnused,
       RemoveUnused, ClearBlockCache, CleanUnchanged, saveVars, vars

LEMMA SavedUnderLockStep == TypeOK /\ SavedUnderLock /\ [Next]_vars => SavedUnderLock'
<1> SUFFICES ASSUME TypeOK, SavedUnderLock, [Next]_vars, NEW c \in saves', c.by \in Walkers
             PROVE  /\ c.by \in walking' /\ Cached(c.key)'
                    /\ c.obj = chunks'[c.key] /\ c.seen = heap'[c.obj]
  BY DEF SavedUnderLock
<1>1. ASSUME NEW d \in saves, c.by = d.by, c.key = d.key, c.obj = d.obj, c.seen = d.seen
      PROVE  /\ c.by \in walking' /\ Cached(c.key)'
             /\ c.obj = chunks'[c.key] /\ c.seen = heap'[c.obj]
  <2>1. d.by \in walking /\ Cached(d.key) /\ d.obj = chunks[d.key] /\ d.seen = heap[d.obj]
    BY <1>1 DEF SavedUnderLock
  <2>2. UNCHANGED <<heap, chunks>> /\ d.by \in walking'
    BY <2>1, ReadersKeepChunks, CallerKeepsLock
  <2>3. QED
    BY <1>1, <2>1, <2>2 DEF Cached
<1>2. ASSUME NEW w \in Walkers, NEW k \in Keys, SaveNext(w, k), c.by = w,
             c.key = k, c.obj = chunks[k], c.seen = heap[chunks[k]]
      PROVE  /\ c.by \in walking' /\ Cached(c.key)'
             /\ c.obj = chunks'[c.key] /\ c.seen = heap'[c.obj]
  BY <1>2 DEF SaveNext, WalkUnchanged, TypeOK, CachedKeys, Cached
<1>3. "first" \notin Walkers
  BY DEF Walkers
<1>4. QED
  BY <1>1, <1>2, <1>3, CallInProgress

(* A chunk that keeps its place and its object keeps showing what it showed. *)
LEMMA ShownFrame ==
  ASSUME TypeOK, PlacedIsShown, NEW l \in Keys, placed[l] # Lost,
         placed'[l] = placed[l], chunks'[l] = chunks[l],
         Cached(l) => heap[chunks[l]] \subseteq heap'[chunks[l]],
         ~Cached(l) => stored'[l] = stored[l] /\ blockCache'[l] = blockCache[l]
  PROVE  placed'[l] \subseteq Shown(l)'
BY DEF PlacedIsShown, Shown, Cached

(* What only the block cache can show is one terrain, or nothing. *)
LEMMA ShownByCache ==
  ASSUME TypeOK, PlacedIsShown, NEW k \in Keys, placed[k] # Lost, ~Cached(k), stored[k] = Absent,
         NEW t \in TerrainOf(k)
  PROVE  placed[k] \subseteq {t}
<1>1. placed[k] \subseteq {blockCache[k]}
  BY DEF PlacedIsShown, Shown
<1>2. NoTerrain \notin placed[k]
  BY KeysAssumption DEF TypeOK, Contents
<1>3. QED
  BY <1>1, <1>2 DEF TerrainOf

LEMMA PlacedIsShownStep ==
  /\ TypeOK /\ RequestHasKey /\ LoadedFirst /\ OnTheWayIsStored /\ PlacedIsShown /\ [Next]_vars
  => PlacedIsShown'
<1> SUFFICES ASSUME TypeOK, RequestHasKey, LoadedFirst, OnTheWayIsStored, PlacedIsShown,
                    [Next]_vars,
                    NEW l \in Keys, placed'[l] # Lost
             PROVE  placed'[l] \subseteq Shown(l)'
  BY DEF PlacedIsShown
<1>1. CASE UNCHANGED <<heap, chunks, blockCache, stored, placed>>
  BY <1>1, ShownFrame
<1>2. ASSUME NEW k \in Keys, LoadFromStorage(k) PROVE placed'[l] \subseteq Shown(l)'
  <2>1. UNCHANGED <<blockCache, stored, placed>>
    BY <1>2 DEF LoadFromStorage, history
  <2>2. CASE UNCHANGED <<heap, chunks>>
    BY <1>1, <2>1, <2>2
  <2>3. CASE /\ MayWrite /\ MayAllocate /\ stored[k] # Absent
             /\ heap' = Allocated(stored[k])
             /\ chunks' = [chunks EXCEPT ![k] = NewObject]
    <3>1. stored[k] \in Contents
      BY <2>3 DEF TypeOK
    <3>2. NewObject # NoObject /\ heap'[NewObject] = stored[k]
      BY <2>3, <3>1, AllocatedObject, KeysAssumption
    <3>3. CASE l = k
      <4>1. placed[k] \subseteq stored[k]
        BY <1>2, <2>1, <2>3, <3>3 DEF LoadFromStorage, LoadedFirst, PlacedIsShown, Shown
      <4>2. chunks'[k] = NewObject
        BY <2>3 DEF TypeOK
      <4>3. QED
        BY <2>1, <3>2, <3>3, <4>1, <4>2 DEF Shown, Cached
    <3>4. CASE l # k
      <4>1. Cached(l) => heap'[chunks[l]] = heap[chunks[l]]
        BY <2>3, <3>1, AllocatedObject
      <4>2. chunks'[l] = chunks[l]
        BY <2>3, <3>4 DEF TypeOK
      <4>3. QED
        BY <2>1, <4>1, <4>2, ShownFrame
    <3>5. QED
      BY <3>3, <3>4
  <2>4. QED
    BY <1>2, <2>2, <2>3 DEF LoadFromStorage
<1>3. ASSUME NEW p \in Requesters, PutLoaded(p) PROVE placed'[l] \subseteq Shown(l)'
  <2> DEFINE k == key[p]
  <2>1. k \in Keys /\ got[p] \in Contents
    BY <1>3 DEF PutLoaded, RequestHasKey, TypeOK
  <2>2. placed[l] # Lost /\ placed'[l] = placed[l] /\ (l = k => ~Misses(k, got[p]))
    BY <1>3, Losing DEF PutLoaded
  <2>3. NewObject # NoObject /\ heap'[NewObject] = got[p]
    BY <1>3, <2>1, AllocatedObject, KeysAssumption DEF PutLoaded
  <2>4. chunks' = [chunks EXCEPT ![k] = NewObject] /\ UNCHANGED <<stored, blockCache>>
    BY <1>3 DEF PutLoaded
  <2>5. CASE l = k
    <3>1. placed[l] \subseteq got[p]
      BY <2>2, <2>5 DEF Misses
    <3>2. chunks'[l] = NewObject
      BY <2>1, <2>4, <2>5 DEF TypeOK
    <3>3. QED
      BY <2>2, <2>3, <3>1, <3>2 DEF Shown, Cached
  <2>6. CASE l # k
    <3>1. Cached(l) => heap'[chunks[l]] = heap[chunks[l]]
      BY <1>3, <2>1, AllocatedObject DEF PutLoaded
    <3>2. chunks'[l] = chunks[l]
      BY <2>4, <2>6 DEF TypeOK
    <3>3. QED
      BY <2>2, <2>4, <3>1, <3>2, ShownFrame
  <2>7. QED
    BY <2>5, <2>6
<1>4. ASSUME NEW p \in Requesters, GenerateChunk(p) PROVE placed'[l] \subseteq Shown(l)'
  <2> DEFINE k == key[p]
  <2>1. /\ k \in Keys /\ ~Cached(k) /\ MayAllocate
        /\ chunks' = [chunks EXCEPT ![k] = NewObject] /\ stored' = stored
    BY <1>4 DEF GenerateChunk, RequestHasKey, ExistsByNow
  <2>2. PICK t, live, cache : Generated(p, t, live, cache)
    BY <1>4, <2>1, GeneratedChunk
  <2>3. PICK content : content = {t} \cup live
    OBVIOUS
  <2>4. /\ content \in Contents /\ heap' = Allocated(content) /\ t \in TerrainOf(k)
        /\ blockCache' = [cache EXCEPT ![k] = t] /\ cache \in {blockCache, CacheFull}
        /\ placed[l] # Lost
        /\ placed'[l] = IF l = k THEN placed[l] \cup content ELSE placed[l]
        /\ l = k => stored[l] = Absent
        /\ l # k /\ cache = CacheFull => ~TerrainLost(l)
    BY <2>2, <2>3 DEF Generated
  <2>5. NewObject # NoObject /\ heap'[NewObject] = content
    BY <2>1, <2>4, AllocatedObject, KeysAssumption
  <2>6. CASE l = k
    <3>1. placed[k] \subseteq content
      BY <2>1, <2>3, <2>4, <2>6, ShownByCache
    <3>2. chunks'[k] = NewObject
      BY <2>1 DEF TypeOK
    <3>3. QED
      BY <2>4, <2>5, <2>6, <3>1, <3>2 DEF Shown, Cached
  <2>7. CASE l # k
    <3>1. Cached(l) => heap'[chunks[l]] = heap[chunks[l]]
      BY <2>1, <2>4, AllocatedObject
    <3>2. chunks'[l] = chunks[l] /\ placed'[l] = placed[l]
      BY <2>1, <2>4, <2>7 DEF TypeOK
    <3>3. CASE Cached(l) \/ cache = blockCache
      <4>1. ~Cached(l) => blockCache'[l] = blockCache[l]
        BY <2>4, <2>7, <3>3 DEF TypeOK
      <4>2. QED
        BY <2>1, <2>4, <3>1, <3>2, <4>1, ShownFrame
    <3>4. CASE ~Cached(l) /\ cache = CacheFull
      <4>1. stored[l] # Absent \/ placed[l] = {}
        BY <2>4, <2>7, <3>4 DEF TerrainLost
      <4>2. CASE placed[l] = {}
        BY <3>2, <4>2
      <4>3. CASE stored[l] # Absent
        BY <2>1, <2>4, <3>2, <3>4, <4>3 DEF PlacedIsShown, Shown, Cached
      <4>4. QED
        BY <4>1, <4>2, <4>3
    <3>5. QED
      BY <2>4, <3>3, <3>4
  <2>8. QED
    BY <2>6, <2>7
<1>5. ASSUME NEW p \in Requesters, GenerateDeadlocks(p) PROVE placed'[l] \subseteq Shown(l)'
  <2>1. PICK t \in TerrainOf(key[p]) : blockCache' = [blockCache EXCEPT ![key[p]] = t]
    BY <1>5 DEF GenerateDeadlocks
  <2>2. key[p] \in Keys /\ UNCHANGED <<heap, chunks, stored, placed>>
    BY <1>5 DEF GenerateDeadlocks, RequestHasKey, history
  <2>3. CASE l = key[p] /\ ~Cached(l) /\ stored[l] = Absent
    <3>1. placed[l] \subseteq {t}
      BY <2>1, <2>2, <2>3, ShownByCache
    <3>2. blockCache'[l] = t
      BY <2>1, <2>3 DEF TypeOK
    <3>3. QED
      BY <2>2, <2>3, <3>1, <3>2 DEF Shown, Cached
  <2>4. CASE l # key[p] \/ Cached(l)
    <3>1. ~Cached(l) => blockCache'[l] = blockCache[l]
      BY <2>1, <2>4 DEF TypeOK
    <3>2. QED
      BY <2>2, <3>1, ShownFrame
  <2>5. CASE ~Cached(l) /\ stored[l] # Absent
    BY <2>2, <2>5 DEF PlacedIsShown, Shown, Cached
  <2>6. QED
    BY <2>3, <2>4, <2>5
<1>6. ASSUME NEW k \in Keys, NEW e \in Edits, SetBlock(k, e) PROVE placed'[l] \subseteq Shown(l)'
  <2>1. /\ Cached(k) /\ chunks[k] \in Objects
        /\ heap' = [heap EXCEPT ![chunks[k]] = @ \cup {e}]
        /\ UNCHANGED <<chunks, stored, blockCache>>
    BY <1>6 DEF SetBlock, Cached, TypeOK
  <2>2. placed[l] # Lost /\ placed'[l] = IF l = k THEN placed[l] \cup {e} ELSE placed[l]
    <3>1. PICK E : E = {e}
      OBVIOUS
    <3>2. placed' = Give(placed, k, E) /\ E \in Contents
      BY <1>6, <3>1 DEF SetBlock, Contents
    <3>3. Give(placed, k, E)[l] # Lost =>
            /\ placed[l] # Lost
            /\ Give(placed, k, E)[l] = IF l = k THEN placed[l] \cup E ELSE placed[l]
      BY <3>2, GiveOnly
    <3>4. QED
      BY <3>1, <3>2, <3>3
  <2>3. Cached(l) => heap[chunks[l]] \subseteq heap'[chunks[l]]
    BY <2>1 DEF TypeOK, Cached
  <2>4. CASE l # k
    BY <2>1, <2>2, <2>3, <2>4, ShownFrame
  <2>5. CASE l = k
    <3>1. e \in heap'[chunks[k]]
      BY <2>1 DEF TypeOK
    <3>2. placed[k] \subseteq heap[chunks[k]]
      BY <2>1, <2>2, <2>5 DEF PlacedIsShown, Shown
    <3>3. QED
      BY <2>1, <2>2, <2>3, <2>5, <3>1, <3>2 DEF Shown, Cached
  <2>6. QED
    BY <2>4, <2>5
<1>7. ASSUME NEW by \in Walkers \cup {"first"}, NEW k \in Keys, NEW o \in Objects,
             SaveBegins(by, k, o), UNCHANGED <<heap, chunks, blockCache>>
      PROVE  placed'[l] \subseteq Shown(l)'
  <2>1. /\ placed[l] # Lost /\ placed'[l] = placed[l]
        /\ l = k /\ stored[k] = Absent /\ ~Cached(k) => placed[k] = {}
        /\ stored'[l] = (IF l = k THEN Held(k) ELSE stored[l])
    BY <1>7, SaveBeginning
  <2>2. CASE l = k /\ stored[k] = Absent /\ ~Cached(k)
    BY <2>1, <2>2
  <2>3. CASE ~(l = k /\ stored[k] = Absent /\ ~Cached(k))
    <3>1. ~Cached(l) => stored'[l] = stored[l]
      BY <2>1, <2>3 DEF Held
    <3>2. QED
      BY <1>7, <2>1, <3>1, ShownFrame
  <2>4. QED
    BY <2>2, <2>3
<1>8. ASSUME NEW c \in saves, NEW x \in c.left, CellSaved(c, x) PROVE placed'[l] \subseteq Shown(l)'
  <2>1. PICK new \in Contents :
          /\ \A k \in Keys : stored'[k] = (IF k = c.key THEN new ELSE stored[k])
          /\ placed'[l] # Lost =>
               /\ placed[l] # Lost /\ placed'[l] = placed[l]
               /\ l = c.key /\ ~Cached(l) => placed[l] \cap Held(l) \subseteq new
    BY <1>8, SavingCell
  <2>2. UNCHANGED <<heap, chunks, blockCache>>
    BY <1>8 DEF CellSaved
  <2>3. CASE Cached(l) \/ l # c.key
    BY <2>1, <2>2, <2>3, ShownFrame
  <2>4. CASE ~Cached(l) /\ l = c.key
    <3>1. stored[l] # Absent
      BY <2>1, <2>4 DEF OnTheWayIsStored
    <3>2. placed[l] \subseteq new
      BY <2>1, <2>4, <3>1 DEF PlacedIsShown, Shown, Held
    <3>3. stored'[l] = new /\ new # Absent
      BY <2>1, <2>4, KeysAssumption
    <3>4. QED
      BY <2>1, <2>2, <2>4, <3>2, <3>3 DEF Shown, Cached
  <2>5. QED
    BY <2>3, <2>4
<1>9. ASSUME RemoveUnused PROVE placed'[l] \subseteq Shown(l)'
  <2>1. /\ chunks' = [k \in Keys |-> IF k \in UnusedNow THEN NoObject ELSE chunks[k]]
        /\ UNCHANGED <<heap, stored, blockCache>>
    BY <1>9 DEF RemoveUnused, CleanUnchanged
  <2>2. /\ placed[l] # Lost /\ placed'[l] = placed[l]
        /\ l \in UnusedNow /\ Cached(l) =>
             ~Misses(l, IF stored[l] = Absent THEN {blockCache[l]} ELSE stored[l])
    <3> DEFINE Losers == {k \in UnusedNow \cap CachedKeys :
                            Misses(k, IF stored[k] = Absent THEN {blockCache[k]} ELSE stored[k])}
    <3>1. placed' = Lose(Losers)
      BY <1>9 DEF RemoveUnused
    <3>2. placed[l] # Lost /\ placed'[l] = placed[l] /\ l \notin Losers
      <4> HIDE DEF Losers
      <4>1. QED
        BY <3>1, Losing
    <3>3. QED
      BY <3>2 DEF CachedKeys
  <2>3. CASE l \in UnusedNow /\ Cached(l)
    <3>1. chunks'[l] = NoObject
      BY <2>1, <2>3
    <3>2. QED
      BY <2>1, <2>2, <2>3, <3>1 DEF Misses, Shown, Cached
  <2>4. CASE ~(l \in UnusedNow /\ Cached(l))
    <3>1. chunks'[l] = chunks[l]
      BY <2>1, <2>4 DEF Cached
    <3>2. QED
      BY <2>1, <2>2, <3>1, ShownFrame
  <2>5. QED
    BY <2>3, <2>4
<1>10. ASSUME ClearBlockCache PROVE placed'[l] \subseteq Shown(l)'
  <2>1. UNCHANGED <<heap, chunks, stored>>
    BY <1>10 DEF ClearBlockCache, CleanUnchanged
  <2>2. placed[l] # Lost /\ placed'[l] = placed[l] /\ ~TerrainLost(l)
    BY <1>10, Losing DEF ClearBlockCache
  <2>3. CASE Cached(l)
    BY <2>1, <2>2, <2>3, ShownFrame
  <2>4. CASE ~Cached(l) /\ stored[l] # Absent
    BY <2>1, <2>2, <2>4 DEF PlacedIsShown, Shown, Cached
  <2>5. CASE placed[l] = {}
    BY <2>2, <2>5
  <2>6. QED
    BY <2>2, <2>3, <2>4, <2>5 DEF TerrainLost
<1>11. ASSUME NEW f \in firsts, FirstSaveBegins(f) PROVE placed'[l] \subseteq Shown(l)'
  BY <1>7, <1>11 DEF FirstSaveBegins, TypeOK
<1>12. ASSUME NEW w \in Walkers, NEW k \in Keys, SaveNext(w, k) PROVE placed'[l] \subseteq Shown(l)'
  <2>1. SaveBegins(w, k, chunks[k]) /\ chunks[k] \in Objects /\ UNCHANGED <<heap, chunks, blockCache>>
    BY <1>12 DEF SaveNext, WalkUnchanged, TypeOK, CachedKeys, Cached
  <2>2. QED
    BY <1>7, <2>1
<1>13. ASSUME NEW k \in Keys, StorageLoses(k) PROVE placed'[l] \subseteq Shown(l)'
  <2>1. placed[l] # Lost /\ placed'[l] = placed[l] /\ l # k
    BY <1>13, Losing DEF StorageLoses
  <2>2. stored'[l] = stored[l] /\ UNCHANGED <<heap, chunks, blockCache>>
    BY <1>13, <2>1 DEF StorageLoses, TypeOK
  <2>3. QED
    BY <2>1, <2>2, ShownFrame
<1>14. QED
  BY <1>1, <1>2, <1>3, <1>4, <1>5, <1>6, <1>8, <1>9, <1>10, <1>11, <1>12, <1>13, EveryStep
     DEF GetOrGenerateMisses, LoadFinds, LoadNotFound, LoadBlocks, GenerateFindsChunk, Started,
         SaverTicks, SaverDone, SaverCancelled, Stop, StopSaved, BeginWalk, EndWalk, CloseWrites,
         CloseReturns, WalkUnchanged, CollectUnused, CleanUnchanged, history, vars

(* What was given to a chunk stays given, until it is lost for good. *)
LEMMA PlacedGrows ==
  ASSUME TypeOK, RequestHasKey, [Next]_vars, NEW l \in Keys, placed'[l] # Lost
  PROVE  placed[l] # Lost /\ placed[l] \subseteq placed'[l]
<1>1. CASE UNCHANGED placed
  BY <1>1
<1>2. ASSUME NEW S, placed' = Lose(S) PROVE placed[l] # Lost /\ placed[l] \subseteq placed'[l]
  BY <1>2, Losing
<1>3. ASSUME NEW p \in Requesters, GenerateChunk(p)
      PROVE  placed[l] # Lost /\ placed[l] \subseteq placed'[l]
  <2>1. key[p] \in Keys
    BY <1>3 DEF GenerateChunk, RequestHasKey
  <2>2. PICK t, live, cache : Generated(p, t, live, cache)
    BY <1>3, <2>1, GeneratedChunk
  <2>3. QED
    BY <2>2 DEF Generated
<1>4. ASSUME NEW k \in Keys, NEW e \in Edits, SetBlock(k, e)
      PROVE  placed[l] # Lost /\ placed[l] \subseteq placed'[l]
  <2>1. PICK E : E = {e}
    OBVIOUS
  <2>2. placed' = Give(placed, k, E) /\ E \in Contents
    BY <1>4, <2>1 DEF SetBlock, Contents
  <2>3. Give(placed, k, E)[l] # Lost =>
          /\ placed[l] # Lost
          /\ Give(placed, k, E)[l] = IF l = k THEN placed[l] \cup E ELSE placed[l]
    BY <2>2, GiveOnly
  <2>4. QED
    BY <2>2, <2>3
<1>5. ASSUME NEW c \in saves, NEW x \in c.left, CellSaved(c, x)
      PROVE  placed[l] # Lost /\ placed[l] \subseteq placed'[l]
  BY <1>5, SavingCell
<1>6. CASE \/ \E p \in Requesters : PutLoaded(p)
           \/ \E k \in Keys : StorageLoses(k)
           \/ \E f \in firsts : FirstSaveBegins(f)
           \/ \E w \in Walkers, k \in Keys : SaveNext(w, k)
           \/ RemoveUnused \/ ClearBlockCache
  BY <1>2, <1>6 DEF PutLoaded, StorageLoses, FirstSaveBegins, SaveNext, SaveBegins,
                    RemoveUnused, ClearBlockCache
<1>7. QED
  BY <1>1, <1>3, <1>4, <1>5, <1>6, EveryStep
     DEF LoadFromStorage, GetOrGenerateMisses, LoadFinds, LoadNotFound, LoadBlocks,
         GenerateFindsChunk, GenerateDeadlocks, Started, SaverTicks, SaverDone, SaverCancelled,
         Stop, StopSaved, BeginWalk, EndWalk, CloseWrites, CloseReturns, CollectUnused,
         history, vars

(* Only a generation and SetBlock give a chunk anything. *)
LEMMA PlacedSource ==
  ASSUME TypeOK, [Next]_vars, NEW l \in Keys, placed'[l] # Lost
  PROVE  \/ placed'[l] \subseteq placed[l]
         \/ \E p \in Requesters : GenerateChunk(p)
         \/ \E k \in Keys, e \in Edits : SetBlock(k, e)
<1>1. CASE UNCHANGED placed
  BY <1>1
<1>2. ASSUME NEW S, placed' = Lose(S) PROVE placed'[l] \subseteq placed[l]
  BY <1>2, Losing
<1>3. ASSUME NEW c \in saves, NEW x \in c.left, CellSaved(c, x)
      PROVE  placed'[l] \subseteq placed[l]
  BY <1>3, SavingCell
<1>4. CASE \/ \E p \in Requesters : PutLoaded(p)
           \/ \E k \in Keys : StorageLoses(k)
           \/ \E f \in firsts : FirstSaveBegins(f)
           \/ \E w \in Walkers, k \in Keys : SaveNext(w, k)
           \/ RemoveUnused \/ ClearBlockCache
  BY <1>2, <1>4 DEF PutLoaded, StorageLoses, FirstSaveBegins, SaveNext, SaveBegins,
                    RemoveUnused, ClearBlockCache
<1>5. QED
  BY <1>1, <1>3, <1>4, EveryStep
     DEF LoadFromStorage, GetOrGenerateMisses, LoadFinds, LoadNotFound, LoadBlocks,
         GenerateFindsChunk, GenerateDeadlocks, Started, SaverTicks, SaverDone, SaverCancelled,
         Stop, StopSaved, BeginWalk, EndWalk, CloseWrites, CloseReturns, CollectUnused,
         history, vars

(* A terrain enters by a generation of the chunk. *)
LEMMA PlacedTerrain ==
  ASSUME TypeOK, RequestHasKey, [Next]_vars, NEW l \in Keys, placed'[l] # Lost
  PROVE  \/ placed'[l] \cap Terrains \subseteq placed[l]
         \/ \E p \in Requesters : GenerateChunk(p) /\ key[p] = l
<1>1. ASSUME NEW p \in Requesters, GenerateChunk(p), key[p] # l
      PROVE  placed'[l] \subseteq placed[l]
  <2>1. key[p] \in Keys
    BY <1>1 DEF GenerateChunk, RequestHasKey
  <2>2. PICK t, live, cache : Generated(p, t, live, cache)
    BY <1>1, <2>1, GeneratedChunk
  <2>3. QED
    BY <1>1, <2>2 DEF Generated
<1>2. ASSUME NEW k \in Keys, NEW e \in Edits, SetBlock(k, e)
      PROVE  placed'[l] \cap Terrains \subseteq placed[l]
  <2>1. PICK E : E = {e}
    OBVIOUS
  <2>2. placed' = Give(placed, k, E) /\ E \in Contents
    BY <1>2, <2>1 DEF SetBlock, Contents
  <2>3. placed'[l] = IF l = k THEN placed[l] \cup E ELSE placed[l]
    BY <2>2, GiveOnly
  <2>4. QED
    BY <2>1, <2>3, KeysAssumption
<1>3. QED
  BY <1>1, <1>2, PlacedSource

(* What is stored stays stored, until it is lost: only its content changes. *)
LEMMA StaysStored ==
  ASSUME TypeOK, [Next]_vars, NEW l \in Keys, placed'[l] # Lost, stored'[l] = Absent
  PROVE  stored[l] = Absent
<1>1. CASE UNCHANGED stored
  BY <1>1
<1>2. ASSUME NEW c \in saves, NEW x \in c.left, CellSaved(c, x) PROVE stored[l] = Absent
  <2>1. PICK new \in Contents :
          \A k \in Keys : stored'[k] = (IF k = c.key THEN new ELSE stored[k])
    BY <1>2, SavingCell
  <2>2. QED
    BY <2>1, KeysAssumption
<1>3. ASSUME NEW k \in Keys, stored' = [stored EXCEPT ![k] = Held(k)] PROVE stored[l] = Absent
  BY <1>3 DEF Held, TypeOK
<1>4. ASSUME NEW k \in Keys, StorageLoses(k) PROVE stored[l] = Absent
  <2>1. l # k
    BY <1>4, Losing DEF StorageLoses
  <2>2. QED
    BY <1>4, <2>1 DEF StorageLoses, TypeOK
<1>5. CASE \/ \E f \in firsts : FirstSaveBegins(f)
           \/ \E w \in Walkers, k \in Keys : SaveNext(w, k)
  BY <1>3, <1>5 DEF FirstSaveBegins, SaveNext, SaveBegins, TypeOK
<1>6. QED
  BY <1>1, <1>2, <1>4, <1>5, EveryStep
     DEF LoadFromStorage, GetOrGenerateMisses, LoadFinds, LoadNotFound, PutLoaded, LoadBlocks,
         GenerateFindsChunk, GenerateChunk, GenerateDeadlocks, SetBlock, Started, SaverTicks,
         SaverDone, SaverCancelled, Stop, StopSaved, BeginWalk, EndWalk, CloseWrites,
         CloseReturns, WalkUnchanged, CollectUnused, RemoveUnused, ClearBlockCache,
         CleanUnchanged, vars

(* A call of SaveChunk finds or makes a delta, and a load returns one. *)
LEMMA OnTheWayIsStoredStep ==
  TypeOK /\ RequestHasKey /\ OnTheWayIsStored /\ [Next]_vars => OnTheWayIsStored'
<1> SUFFICES ASSUME TypeOK, RequestHasKey, OnTheWayIsStored, [Next]_vars,
                    NEW l \in Keys, placed'[l] # Lost, stored'[l] = Absent
             PROVE  /\ \A p \in Requesters : ~(pc'[p] = "put" /\ key'[p] = l)
                    /\ \A c \in saves' : c.key # l
  BY DEF OnTheWayIsStored
<1>1. placed[l] # Lost /\ stored[l] = Absent
  BY PlacedGrows, StaysStored
<1>2. /\ \A p \in Requesters : ~(pc[p] = "put" /\ key[p] = l)
      /\ \A c \in saves : c.key # l
  BY <1>1 DEF OnTheWayIsStored
<1>3. ASSUME NEW p \in Requesters, pc'[p] = "put", key'[p] = l PROVE FALSE
  <2>1. CASE UNCHANGED <<pc, key>>
    BY <1>2, <1>3, <2>1
  <2>2. ASSUME NEW q \in Requesters, LoadFinds(q) PROVE FALSE
    BY <1>1, <1>2, <1>3, <2>2 DEF LoadFinds, TypeOK
  <2>3. ASSUME NEW q \in Requesters,
               \/ LoadNotFound(q) \/ PutLoaded(q) \/ LoadBlocks(q) \/ GenerateFindsChunk(q)
               \/ GenerateChunk(q) \/ GenerateDeadlocks(q)
               \/ \E k \in Keys : GetOrGenerateMisses(q, k)
        PROVE  FALSE
    BY <1>2, <1>3, <2>3 DEF LoadNotFound, PutLoaded, LoadBlocks, GenerateFindsChunk,
       GenerateChunk, GenerateDeadlocks, GetOrGenerateMisses, Return, TypeOK
  <2>4. QED
    BY <2>1, <2>2, <2>3, EveryStep
       DEF LoadFromStorage, Started, SetBlock, StorageLoses, CellSaved, FirstSaveBegins,
           SaverTicks, SaverDone, SaveNext, SaverCancelled, Stop, StopSaved, CloseWrites,
           CloseReturns, WalkUnchanged, CollectUnused, RemoveUnused, ClearBlockCache,
           CleanUnchanged, reqVars, vars
<1>4. ASSUME NEW c \in saves', c.key = l PROVE FALSE
  <2>1. ASSUME NEW f \in firsts, FirstSaveBegins(f), f.key = l PROVE FALSE
    BY <1>4, <2>1, SaveBeginning DEF FirstSaveBegins, TypeOK
  <2>2. ASSUME NEW w \in Walkers, SaveNext(w, l) PROVE FALSE
    <3>1. SaveBegins(w, l, chunks[l]) /\ chunks[l] \in Objects
      BY <2>2 DEF SaveNext, TypeOK, CachedKeys, Cached
    <3>2. QED
      BY <3>1, SaveBeginning
  <2>3. QED
    BY <1>2, <1>4, <2>1, <2>2, CallInProgress
<1>5. QED
  BY <1>3, <1>4

(* Nothing but generateChunk leads to a first save, and it does it for a *)
(* chunk that is lost, or was not stored.                                *)
LEMMA FirstSaveStarts ==
  ASSUME TypeOK, RequestHasKey, [Next]_vars, NEW l \in Keys, FirstSaveOf(l)'
  PROVE  FirstSaveOf(l) \/ stored[l] = Absent \/ placed'[l] = Lost
<1>1. ASSUME NEW f \in firsts', f.key = l
      PROVE  FirstSaveOf(l) \/ stored[l] = Absent \/ placed'[l] = Lost
  <2>1. CASE f \in firsts
    BY <1>1, <2>1 DEF FirstSaveOf
  <2>2. ASSUME NEW p \in Requesters, GenerateChunk(p), f \notin firsts
        PROVE  stored[l] = Absent \/ placed'[l] = Lost
    <3>1. key[p] = l
      BY <1>1, <2>2 DEF GenerateChunk
    <3>2. PICK t, live, cache : Generated(p, t, live, cache)
      BY <2>2, <3>1, GeneratedChunk
    <3>3. QED
      BY <3>1, <3>2 DEF Generated
  <2>3. QED
    BY <1>1, <2>1, <2>2, EveryStep
       DEF LoadFromStorage, Started, GetOrGenerateMisses, LoadFinds, LoadNotFound, PutLoaded,
           LoadBlocks, GenerateFindsChunk, GenerateDeadlocks, SetBlock, StorageLoses, CellSaved,
           FirstSaveBegins, SaverTicks, SaverDone, SaveNext, SaverCancelled, Stop, StopSaved,
           CloseWrites, CloseReturns, WalkUnchanged, CollectUnused, RemoveUnused,
           ClearBlockCache, CleanUnchanged, saveVars, vars
<1>2. ASSUME NEW c \in CallOf("first")', c.key = l PROVE FirstSaveOf(l)
  <2>1. c \in saves' /\ c.by = "first" /\ "first" \notin Walkers
    BY <1>2 DEF CallOf, Walkers
  <2>2. QED
    BY <1>2, <2>1, CallInProgress DEF FirstSaveOf, CallOf
<1>3. QED
  BY <1>1, <1>2 DEF FirstSaveOf

LEMMA OnlyPlacedStep ==
  TypeOK /\ RequestHasKey /\ OwnObject /\ OnlyPlaced /\ [Next]_vars => OnlyPlaced'
<1> SUFFICES ASSUME TypeOK, RequestHasKey, OwnObject, OnlyPlaced, [Next]_vars,
                    NEW l \in Keys, placed'[l] # Lost
             PROVE  /\ Cached(l)' => heap'[chunks'[l]] \subseteq placed'[l]
                    /\ Held(l)' \subseteq placed'[l]
                    /\ \A p \in Requesters : pc'[p] = "put" /\ key'[p] = l =>
                         got'[p] \subseteq placed'[l]
                    /\ \A f \in firsts' \cup saves' : f.key = l => heap'[f.obj] \subseteq placed'[l]
  BY DEF OnlyPlaced
<1> DEFINE InMemory == Cached(l)' => heap'[chunks'[l]] \subseteq placed'[l]
           OnTheWay == \A p \in Requesters : pc'[p] = "put" /\ key'[p] = l =>
                         got'[p] \subseteq placed'[l]
           Called == \A f \in firsts \cup saves : f.key = l => heap'[f.obj] \subseteq placed'[l]
           NewFirst == \A f \in firsts' : f \notin firsts /\ f.key = l =>
                         heap'[f.obj] \subseteq placed'[l]
           Goal == InMemory /\ Held(l)' \subseteq placed'[l] /\ OnTheWay /\ Called /\ NewFirst
<1>1. /\ placed[l] # Lost /\ placed[l] \subseteq placed'[l]
      /\ Cached(l) => heap[chunks[l]] \subseteq placed[l]
      /\ Held(l) \subseteq placed[l]
      /\ \A p \in Requesters : pc[p] = "put" /\ key[p] = l => got[p] \subseteq placed[l]
      /\ \A f \in firsts \cup saves : f.key = l => heap[f.obj] \subseteq placed[l]
  <2>1. placed[l] # Lost /\ placed[l] \subseteq placed'[l]
    BY PlacedGrows
  <2>2. QED
    BY <2>1 DEF OnlyPlaced
<1>2. ASSUME \A p \in Requesters : pc'[p] = "put" => pc[p] = "put" /\ UNCHANGED <<key[p], got[p]>>
      PROVE  OnTheWay
  BY <1>1, <1>2
<1>3. ASSUME NEW k \in Keys, NEW content \in Contents, MayAllocate,
             heap' = Allocated(content), chunks' = [chunks EXCEPT ![k] = NewObject],
             k = l => content \subseteq placed'[l]
      PROVE  InMemory /\ Called
  <2>1. \A f \in firsts \cup saves : heap'[f.obj] = heap[f.obj]
    BY <1>3, NewChunk
  <2>2. CASE l = k
    <3>1. heap'[chunks'[l]] = content
      BY <1>3, <2>2, NewChunk
    <3>2. QED
      BY <1>1, <1>3, <2>1, <2>2, <3>1
  <2>3. CASE l # k
    <3>1. chunks'[l] = chunks[l]
      BY <1>3, <2>3 DEF TypeOK
    <3>2. Cached(l) => heap'[chunks[l]] = heap[chunks[l]]
      BY <1>3, AllocatedObject
    <3>3. QED
      BY <1>1, <2>1, <3>1, <3>2 DEF Cached
  <2>4. QED
    BY <2>2, <2>3
<1>4. ASSUME UNCHANGED <<heap, chunks, stored, reqVars>>, firsts' \subseteq firsts PROVE Goal
  BY <1>1, <1>4 DEF Cached, Held, reqVars
<1>5. ASSUME NEW k \in Keys, LoadFromStorage(k) PROVE Goal
  <2>1. UNCHANGED <<stored, reqVars, firsts>>
    BY <1>5 DEF LoadFromStorage, saveVars
  <2>2. CASE UNCHANGED <<heap, chunks>>
    BY <1>4, <2>1, <2>2
  <2>3. CASE /\ MayWrite /\ MayAllocate /\ stored[k] # Absent
             /\ heap' = Allocated(stored[k])
             /\ chunks' = [chunks EXCEPT ![k] = NewObject]
    <3>1. stored[k] \in Contents /\ (k = l => stored[k] \subseteq placed'[l])
      BY <1>1, <2>3 DEF TypeOK, Held
    <3>2. QED
      BY <1>1, <1>2, <1>3, <2>1, <2>3, <3>1 DEF reqVars, Held
  <2>4. QED
    BY <1>5, <2>2, <2>3 DEF LoadFromStorage
<1>6. ASSUME NEW p \in Requesters, LoadFinds(p) PROVE Goal
  <2>1. /\ UNCHANGED <<heap, chunks, stored, firsts, key>>
        /\ got'[p] = Held(key[p])
        /\ \A q \in Requesters : q # p => pc'[q] = pc[q] /\ got'[q] = got[q]
    BY <1>6 DEF LoadFinds, TypeOK, saveVars, Held
  <2>2. QED
    BY <1>1, <2>1 DEF Cached, Held
<1>7. ASSUME NEW p \in Requesters, PutLoaded(p) PROVE Goal
  <2>1. key[p] \in Keys /\ got[p] \in Contents /\ (key[p] = l => got[p] \subseteq placed'[l])
    BY <1>1, <1>7 DEF PutLoaded, RequestHasKey, TypeOK
  <2>2. /\ \A q \in Requesters : pc'[q] = "put" => pc[q] = "put" /\ UNCHANGED <<key[q], got[q]>>
        /\ UNCHANGED <<stored, firsts>>
    BY <1>7 DEF PutLoaded, TypeOK, saveVars
  <2>3. QED
    BY <1>1, <1>2, <1>3, <1>7, <2>1, <2>2 DEF PutLoaded, Held
<1>8. ASSUME NEW p \in Requesters, GenerateChunk(p) PROVE Goal
  <2>1. key[p] \in Keys
    BY <1>8 DEF GenerateChunk, RequestHasKey
  <2>2. PICK t, live, cache : Generated(p, t, live, cache)
    BY <1>8, <2>1, GeneratedChunk
  <2>3. PICK given : given = {t} \cup live
    OBVIOUS
  <2>4. /\ given \in Contents /\ heap' = Allocated(given)
        /\ key[p] = l => given \subseteq placed'[l]
    BY <2>2, <2>3 DEF Generated
  <2>5. /\ \A q \in Requesters : pc'[q] = "put" => pc[q] = "put" /\ UNCHANGED <<key[q], got[q]>>
        /\ UNCHANGED stored
        /\ firsts' = firsts \cup {[key |-> key[p], obj |-> NewObject]}
        /\ MayAllocate /\ chunks' = [chunks EXCEPT ![key[p]] = NewObject]
    BY <1>8 DEF GenerateChunk, Return, TypeOK
  <2>6. key[p] = l => heap'[NewObject] \subseteq placed'[l]
    BY <2>4, <2>5, AllocatedObject
  <2>7. InMemory /\ Called
    BY <1>3, <2>1, <2>4, <2>5
  <2>8. NewFirst
    BY <2>5, <2>6
  <2>9. QED
    BY <1>1, <1>2, <2>5, <2>7, <2>8 DEF Held
<1>9. ASSUME NEW p \in Requesters,
             \/ LoadNotFound(p) \/ LoadBlocks(p) \/ GenerateFindsChunk(p) \/ GenerateDeadlocks(p)
             \/ \E k \in Keys : GetOrGenerateMisses(p, k)
      PROVE  Goal
  <2>1. UNCHANGED <<heap, chunks, stored, firsts>>
    BY <1>9 DEF LoadNotFound, LoadBlocks, GenerateFindsChunk, GenerateDeadlocks,
                GetOrGenerateMisses, saveVars
  <2>2. \A q \in Requesters : pc'[q] = "put" => pc[q] = "put" /\ UNCHANGED <<key[q], got[q]>>
    BY <1>9 DEF LoadNotFound, LoadBlocks, GenerateFindsChunk, GenerateDeadlocks,
                GetOrGenerateMisses, Return, TypeOK
  <2>3. QED
    BY <1>1, <1>2, <2>1, <2>2 DEF Cached, Held
<1>10. ASSUME NEW k \in Keys, NEW e \in Edits, SetBlock(k, e) PROVE Goal
  <2>1. /\ Cached(k) /\ heap' = [heap EXCEPT ![chunks[k]] = @ \cup {e}]
        /\ UNCHANGED <<chunks, stored, reqVars, firsts>>
    BY <1>10 DEF SetBlock, saveVars
  <2>2. l = k => e \in placed'[l]
    <3>1. PICK E : E = {e}
      OBVIOUS
    <3>2. placed' = Give(placed, k, E) /\ E \in Contents
      BY <1>10, <3>1 DEF SetBlock, Contents
    <3>3. Give(placed, k, E)[l] # Lost
      BY <3>2
    <3>4. Give(placed, k, E)[l] = IF l = k THEN placed[l] \cup E ELSE placed[l]
      BY <3>2, <3>3, GiveOnly
    <3>5. QED
      BY <3>1, <3>2, <3>4
  <2>3. \A o \in Objects : heap'[o] = IF o = chunks[k] THEN heap[o] \cup {e} ELSE heap[o]
    BY <2>1 DEF TypeOK
  <2>4. Cached(l) => chunks[l] \in Objects /\ (chunks[l] = chunks[k] => l = k)
    BY DEF OwnObject, TypeOK, Cached
  <2>5. \A f \in firsts \cup saves : f.obj \in Objects /\ (f.obj = chunks[k] => f.key = k)
    BY DEF OwnObject, TypeOK
  <2>6. InMemory
    BY <1>1, <2>1, <2>2, <2>3, <2>4 DEF Cached
  <2>7. Called
    BY <1>1, <2>1, <2>2, <2>3, <2>5
  <2>8. QED
    BY <1>1, <1>2, <2>1, <2>6, <2>7 DEF reqVars, Held
<1>11. ASSUME NEW k \in Keys, StorageLoses(k) PROVE Goal
  <2>1. UNCHANGED <<heap, chunks, reqVars, firsts>> /\ l # k
    BY <1>11, Losing DEF StorageLoses, saveVars
  <2>2. stored'[l] = stored[l]
    BY <1>11, <2>1 DEF StorageLoses, TypeOK
  <2>3. QED
    BY <1>1, <2>1, <2>2 DEF Cached, Held, reqVars
<1>12. ASSUME NEW c \in saves, NEW x \in c.left, CellSaved(c, x) PROVE Goal
  <2>1. PICK new \in Contents :
          /\ \A k \in Keys : stored'[k] = (IF k = c.key THEN new ELSE stored[k])
          /\ new \subseteq Held(c.key) \cup heap[c.obj]
    BY <1>12, SavingCell
  <2>2. UNCHANGED <<heap, chunks, reqVars, firsts>>
    BY <1>12 DEF CellSaved
  <2>3. Held(l)' \subseteq IF l = c.key THEN new ELSE Held(l)
    BY <2>1 DEF Held
  <2>4. l = c.key => new \subseteq placed[l]
    BY <1>1, <2>1
  <2>5. QED
    BY <1>1, <2>2, <2>3, <2>4 DEF Cached, reqVars
<1>13. ASSUME \/ \E f \in firsts : FirstSaveBegins(f)
              \/ \E w \in Walkers, k \in Keys : SaveNext(w, k)
       PROVE  Goal
  <2>1. Held(l)' = Held(l)
    <3>1. ASSUME NEW f \in firsts, FirstSaveBegins(f) PROVE Held(l)' = Held(l)
      BY <3>1, SaveBeginning DEF FirstSaveBegins, TypeOK
    <3>2. ASSUME NEW w \in Walkers, NEW k \in Keys, SaveNext(w, k) PROVE Held(l)' = Held(l)
      <4>1. SaveBegins(w, k, chunks[k]) /\ chunks[k] \in Objects
        BY <3>2 DEF SaveNext, TypeOK, CachedKeys, Cached
      <4>2. QED
        BY <4>1, SaveBeginning
    <3>3. QED
      BY <1>13, <3>1, <3>2
  <2>2. UNCHANGED <<heap, chunks, reqVars>> /\ firsts' \subseteq firsts
    BY <1>13 DEF FirstSaveBegins, SaveNext, WalkUnchanged
  <2>3. QED
    BY <1>1, <2>1, <2>2 DEF Cached, reqVars
<1>14. ASSUME RemoveUnused PROVE Goal
  <2>1. /\ UNCHANGED <<heap, stored, reqVars, firsts>>
        /\ chunks'[l] \in {NoObject, chunks[l]}
    BY <1>14 DEF RemoveUnused, CleanUnchanged, saveVars
  <2>2. QED
    BY <1>1, <2>1 DEF Cached, Held, reqVars
<1> HIDE DEF Goal
<1>15. Goal
  BY <1>4, <1>5, <1>6, <1>7, <1>8, <1>9, <1>10, <1>11, <1>12, <1>13, <1>14, EveryStep
     DEF Started, SaverTicks, SaverDone, SaverCancelled, Stop, StopSaved, BeginWalk, EndWalk,
         CloseWrites, CloseReturns, WalkUnchanged, CollectUnused, ClearBlockCache,
         CleanUnchanged, saveVars, vars
<1> USE DEF Goal
<1>16. ASSUME NEW c \in saves', c.key = l PROVE heap'[c.obj] \subseteq placed'[l]
  <2>1. ASSUME NEW f \in firsts \cup saves, c.key = f.key, c.obj = f.obj
        PROVE  heap'[c.obj] \subseteq placed'[l]
    BY <1>15, <1>16, <2>1
  <2>2. ASSUME NEW w \in Walkers, NEW k \in Keys, SaveNext(w, k), c.key = k, c.obj = chunks[k]
        PROVE  heap'[c.obj] \subseteq placed'[l]
    BY <1>1, <1>16, <2>2 DEF SaveNext, WalkUnchanged, CachedKeys, TypeOK
  <2>3. QED
    BY <2>1, <2>2, CallInProgress
<1>17. QED
  BY <1>15, <1>16

(* A second generation repeats the terrain: the cache still had it. *)
LEMMA OneTerrainStep ==
  TypeOK /\ RequestHasKey /\ PlacedIsShown /\ OneTerrain /\ [Next]_vars => OneTerrain'
<1> SUFFICES ASSUME TypeOK, RequestHasKey, PlacedIsShown, OneTerrain, [Next]_vars,
                    NEW l \in Keys, placed'[l] # Lost,
                    NEW t \in placed'[l] \cap Terrains, NEW u \in placed'[l] \cap Terrains
             PROVE  t = u
  BY DEF OneTerrain
<1>1. placed[l] # Lost
  BY PlacedGrows
<1>2. CASE placed'[l] \cap Terrains \subseteq placed[l]
  BY <1>1, <1>2 DEF OneTerrain
<1>3. ASSUME NEW p \in Requesters, GenerateChunk(p), key[p] = l PROVE t = u
  <2>1. PICK s, live, cache : Generated(p, s, live, cache)
    BY <1>3, GeneratedChunk
  <2>2. /\ s \in TerrainOf(l) /\ stored[l] = Absent /\ live \cap Terrains = {}
        /\ placed'[l] = placed[l] \cup ({s} \cup live)
    BY <1>3, <2>1, KeysAssumption DEF Generated
  <2>3. ~Cached(l)
    BY <1>3 DEF GenerateChunk, ExistsByNow
  <2>4. placed[l] \subseteq {s}
    BY <1>1, <2>2, <2>3, ShownByCache
  <2>5. QED
    BY <2>2, <2>4
<1>4. placed'[l] \cap Terrains \subseteq placed[l] \/ \E p \in Requesters : GenerateChunk(p) /\ key[p] = l
  BY PlacedTerrain
<1>5. QED
  BY <1>2, <1>3, <1>4

(* What enters placed: a terrain that is not dynamic, what the block manager *)
(* has, or an edit, and a dynamic edit marks the chunk.                      *)
LEMMA PlacedDynamicIsActive ==
  ASSUME TypeOK, RequestHasKey, [Next]_vars, NEW l \in Keys, placed'[l] # Lost
  PROVE  /\ active \subseteq active' /\ entered[l] \subseteq entered'[l]
         /\ l \notin active' => placed'[l] \cap Dynamic \subseteq placed[l] \cup entered'[l]
<1>1. active \subseteq active' /\ entered[l] \subseteq entered'[l]
  <2>1. ASSUME NEW p \in Requesters, GenerateChunk(p)
        PROVE  active \subseteq active' /\ entered[l] \subseteq entered'[l]
    BY <2>1 DEF GenerateChunk, TypeOK
  <2>2. QED
    BY <2>1, EveryStep
       DEF LoadFromStorage, GetOrGenerateMisses, LoadFinds, LoadNotFound, PutLoaded, LoadBlocks,
           GenerateFindsChunk, GenerateDeadlocks, SetBlock, StorageLoses, CellSaved,
           FirstSaveBegins, Started, SaverTicks, SaverDone, SaveNext, SaverCancelled, Stop,
           StopSaved, CloseWrites, CloseReturns, WalkUnchanged, CollectUnused, RemoveUnused,
           ClearBlockCache, CleanUnchanged, history, vars
<1>2. CASE placed'[l] \subseteq placed[l]
  BY <1>1, <1>2
<1>3. ASSUME NEW p \in Requesters, GenerateChunk(p)
      PROVE  placed'[l] \cap Dynamic \subseteq placed[l] \cup entered'[l]
  <2>1. key[p] \in Keys
    BY <1>3 DEF GenerateChunk, RequestHasKey
  <2>2. PICK t, live, cache : Generated(p, t, live, cache)
    BY <1>3, <2>1, GeneratedChunk
  <2>3. /\ t \notin Dynamic
        /\ placed'[l] = IF l = key[p] THEN placed[l] \cup ({t} \cup live) ELSE placed[l]
        /\ live \subseteq entered'[key[p]]
    BY <2>1, <2>2 DEF Generated, TypeOK
  <2>4. QED
    BY <2>3
<1>4. ASSUME NEW k \in Keys, NEW e \in Edits, SetBlock(k, e), l \notin active'
      PROVE  placed'[l] \cap Dynamic \subseteq placed[l]
  <2>1. PICK E : E = {e}
    OBVIOUS
  <2>2. placed' = Give(placed, k, E) /\ E \in Contents /\ (e \in Dynamic => k \in active')
    BY <1>4, <2>1 DEF SetBlock, Contents
  <2>3. placed'[l] = IF l = k THEN placed[l] \cup E ELSE placed[l]
    BY <2>2, GiveOnly
  <2>4. QED
    BY <1>4, <2>1, <2>2, <2>3
<1>5. \/ placed'[l] \subseteq placed[l]
      \/ \E p \in Requesters : GenerateChunk(p)
      \/ \E k \in Keys, e \in Edits : SetBlock(k, e)
  BY PlacedSource
<1>6. QED
  BY <1>1, <1>2, <1>3, <1>4, <1>5

LEMMA UnstoredDynamicStep ==
  /\ TypeOK /\ RequestHasKey /\ UnstoredDynamicIsActive /\ [Next]_vars
  => UnstoredDynamicIsActive'
<1> SUFFICES ASSUME TypeOK, RequestHasKey, UnstoredDynamicIsActive, [Next]_vars,
                    NEW l \in Keys, placed'[l] # Lost, l \notin active',
                    stored'[l] = Absent \/ FirstSaveOf(l)'
             PROVE  placed'[l] \cap Dynamic \subseteq entered'[l]
  BY DEF UnstoredDynamicIsActive
<1>1. /\ placed[l] # Lost /\ l \notin active /\ entered[l] \subseteq entered'[l]
      /\ placed'[l] \cap Dynamic \subseteq placed[l] \cup entered'[l]
  BY PlacedGrows, PlacedDynamicIsActive
<1>2. stored[l] = Absent \/ FirstSaveOf(l)
  BY StaysStored, FirstSaveStarts
<1>3. placed[l] \cap Dynamic \subseteq entered[l]
  BY <1>1, <1>2 DEF UnstoredDynamicIsActive
<1>4. QED
  BY <1>1, <1>3

(* A dynamic block that neither marked its chunk nor can be replaced by a   *)
(* first save is in what the storage has, and who saves under the lock sets *)
(* what is shown.                                                           *)
LEMMA UnsavedDynamicStep ==
  /\ TypeOK /\ RequestHasKey /\ OwnObject /\ SavedUnderLock /\ PlacedIsShown /\ OnlyPlaced
  /\ OneTerrain /\ UnstoredDynamicIsActive /\ UnsavedDynamicIsActive /\ [Next]_vars
  => UnsavedDynamicIsActive'
<1> SUFFICES ASSUME TypeOK, RequestHasKey, OwnObject, SavedUnderLock, PlacedIsShown, OnlyPlaced,
                    OneTerrain, UnstoredDynamicIsActive, UnsavedDynamicIsActive, [Next]_vars,
                    NEW l \in Keys, NEW e \in Dynamic,
                    placed'[l] # Lost, Cached(l)', e \in heap'[chunks'[l]],
                    e \notin Held(l)', e \notin entered'[l], l \notin active'
             PROVE  FALSE
  BY DEF UnsavedDynamicIsActive
<1>1. placed[l] # Lost /\ l \notin active /\ e \notin entered[l]
  BY PlacedGrows, PlacedDynamicIsActive
<1>2. e \in placed[l]
  <2>1. OnlyPlaced'
    BY OnlyPlacedStep
  <2>2. e \in placed'[l]
    BY <2>1 DEF OnlyPlaced
  <2>3. QED
    BY <2>2, PlacedDynamicIsActive
<1>3. stored[l] # Absent /\ ~FirstSaveOf(l)
  BY <1>1, <1>2 DEF UnstoredDynamicIsActive
<1>4. Cached(l) => e \in heap[chunks[l]]
  BY <1>1, <1>2 DEF PlacedIsShown, Shown
<1>5. e \in Held(l)
  <2>1. CASE Cached(l)
    BY <1>1, <1>4, <2>1 DEF UnsavedDynamicIsActive
  <2>2. CASE ~Cached(l)
    BY <1>1, <1>2, <1>3, <2>2 DEF PlacedIsShown, Shown, Held
  <2>3. QED
    BY <2>1, <2>2
<1>6. stored'[l] # stored[l]
  BY <1>5 DEF Held
<1>7. ASSUME NEW c \in saves, NEW x \in c.left, CellSaved(c, x) PROVE FALSE
  <2>1. PICK new \in Contents :
          /\ \A k \in Keys : stored'[k] = (IF k = c.key THEN new ELSE stored[k])
          /\ \A d \in Edits \cap Held(c.key) : d \in c.seen => d \in new
          /\ \A d \in Terrains \cap Held(c.key) :
               d \in new \/ \E t \in Terrains \cap heap[c.obj] : t \in new
    BY <1>7, SavingCell
  <2>2. c.key = l /\ Held(l)' = new
    BY <1>6, <2>1, KeysAssumption DEF Held
  <2>3. c.by \in Walkers
    BY <1>3, <2>2 DEF FirstSaveOf, CallOf, TypeOK
  <2>4. Cached(l) /\ c.obj = chunks[l] /\ c.seen = heap[chunks[l]]
    BY <2>2, <2>3 DEF SavedUnderLock
  <2>5. CASE e \in Edits
    BY <1>4, <1>5, <2>1, <2>2, <2>4, <2>5
  <2>6. CASE e \in Terrains
    <3>1. PICK t \in Terrains \cap heap[chunks[l]] : t \in new
      BY <1>5, <2>1, <2>2, <2>4, <2>6
    <3>2. t \in placed[l]
      BY <1>1, <2>4, <3>1 DEF OnlyPlaced
    <3>3. t = e
      BY <1>1, <1>2, <2>6, <3>1, <3>2 DEF OneTerrain
    <3>4. QED
      BY <2>2, <3>1, <3>3
  <2>7. QED
    BY <2>5, <2>6, KeysAssumption
<1>8. ASSUME \/ \E f \in firsts : FirstSaveBegins(f)
             \/ \E w \in Walkers, k \in Keys : SaveNext(w, k)
      PROVE  FALSE
  <2>1. ASSUME NEW f \in firsts, FirstSaveBegins(f) PROVE Held(l)' = Held(l)
    BY <2>1, SaveBeginning DEF FirstSaveBegins, TypeOK
  <2>2. ASSUME NEW w \in Walkers, NEW k \in Keys, SaveNext(w, k) PROVE Held(l)' = Held(l)
    <3>1. SaveBegins(w, k, chunks[k]) /\ chunks[k] \in Objects
      BY <2>2 DEF SaveNext, TypeOK, CachedKeys, Cached
    <3>2. QED
      BY <3>1, SaveBeginning
  <2>3. QED
    BY <1>5, <1>8, <2>1, <2>2
<1>9. ASSUME NEW k \in Keys, StorageLoses(k) PROVE FALSE
  <2>1. l # k
    BY <1>9, Losing DEF StorageLoses
  <2>2. QED
    BY <1>6, <1>9, <2>1 DEF StorageLoses, TypeOK
<1>10. QED
  BY <1>6, <1>7, <1>8, <1>9, EveryStep
     DEF LoadFromStorage, GetOrGenerateMisses, LoadFinds, LoadNotFound, PutLoaded, LoadBlocks,
         GenerateFindsChunk, GenerateChunk, GenerateDeadlocks, SetBlock, Started, SaverTicks,
         SaverDone, SaverCancelled, Stop, StopSaved, BeginWalk, EndWalk, CloseWrites,
         CloseReturns, WalkUnchanged, CollectUnused, RemoveUnused, ClearBlockCache,
         CleanUnchanged, vars

(* What a chunk shows when Stop begins is in memory, and then the walk saves *)
(* it, or it is stored already: the block cache repeats no edit.             *)
LEMMA ShownEdits ==
  ASSUME TypeOK, PlacedIsShown, NEW l \in Keys, placed[l] # Lost, ~Cached(l)
  PROVE  placed[l] \cap Edits \subseteq Held(l)
<1>1. blockCache[l] \notin Edits
  BY KeysAssumption DEF TypeOK
<1>2. QED
  BY <1>1 DEF PlacedIsShown, Shown, Held

(* When Stop holds no RLock it has no call in progress. *)
LEMMA NoCallLeft ==
  ASSUME SavedUnderLock, "stop" \notin walking, NEW l \in Keys
  PROVE  StopLeft(l) = {}
BY DEF SavedUnderLock, StopLeft, CallOf, Walkers

(* A cell that Stop's own call sets stays set or is what the chunk holds. *)
LEMMA StopCell ==
  ASSUME TypeOK, SavedUnderLock, PlacedIsShown, NEW c \in saves, NEW x \in c.left,
         CellSaved(c, x), NEW l \in Keys, placed'[l] # Lost,
         phase \in {"stopping", "saved"}, l \in closing,
         NEW e \in placed[l] \cap Edits, e \in Held(l) \cup StopLeft(l)
  PROVE  e \in Held(l)' \cup StopLeft(l)'
<1>1. PICK new \in Contents :
        /\ \A k \in Keys : stored'[k] = (IF k = c.key THEN new ELSE stored[k])
        /\ x \in Edits \cap c.seen => x \in new
        /\ placed[l] # Lost /\ placed'[l] = placed[l]
        /\ l = c.key /\ (~Cached(l) \/ (phase # "running" /\ l \in closing)) =>
             placed[l] \cap Held(l) \subseteq new
  BY SavingCell
<1>2. Held(l)' = IF l = c.key THEN new ELSE Held(l)
  BY <1>1, KeysAssumption DEF Held
<1>3. CASE e \in Held(l)
  BY <1>1, <1>2, <1>3
<1>4. ASSUME NEW d \in saves, d.by = "stop", d.key = l, e \in d.left, d # c
      PROVE  e \in StopLeft(l)'
  <2>1. d \in saves'
    BY <1>4 DEF CellSaved
  <2>2. QED
    BY <1>4, <2>1 DEF StopLeft, CallOf
<1>5. CASE c.by = "stop" /\ c.key = l /\ e \in c.left /\ e # x
  <2>1. PICK d : d = [c EXCEPT !.left = @ \ {x}]
    OBVIOUS
  <2>2. d.by = "stop" /\ d.key = l /\ e \in d.left
    BY <1>5, <2>1 DEF TypeOK
  <2>3. d \in saves'
    BY <2>1, <2>2 DEF CellSaved, Going
  <2>4. QED
    BY <2>2, <2>3 DEF StopLeft, CallOf
<1>6. CASE c.by = "stop" /\ c.key = l /\ e = x
  <2>1. Cached(l) /\ c.obj = chunks[l] /\ c.seen = heap[chunks[l]]
    BY <1>6 DEF SavedUnderLock, Walkers
  <2>2. x \in c.seen
    BY <1>1, <1>6, <2>1 DEF PlacedIsShown, Shown
  <2>3. QED
    BY <1>1, <1>2, <1>6, <2>2
<1>7. CASE e \in StopLeft(l)
  BY <1>4, <1>5, <1>6, <1>7 DEF StopLeft, CallOf
<1>8. QED
  BY <1>3, <1>7

LEMMA StopProgressStep ==
  /\ TypeOK /\ RequestHasKey /\ SavedUnderLock /\ PlacedIsShown /\ StopProgress /\ [Next]_vars
  => StopProgress'
<1> SUFFICES ASSUME TypeOK, RequestHasKey, SavedUnderLock, PlacedIsShown, StopProgress,
                    [Next]_vars
             PROVE  StopProgress'
  OBVIOUS
<1>1. /\ "stop" \in walking => phase = "stopping"
      /\ phase = "saved" => todo["stop"] = {}
      /\ phase \in {"loading", "running", "stopping"} => closing = Keys
  BY DEF StopProgress
<1>2. ASSUME NEW l \in Keys, placed'[l] # Lost, phase \in {"stopping", "saved"}
      PROVE  /\ placed[l] # Lost /\ placed[l] \subseteq placed'[l]
             /\ placedAtStop[l] # Lost /\ placedAtStop[l] \subseteq placed[l]
             /\ \/ l \in todo["stop"]
                \/ placedAtStop[l] \cap Edits \subseteq
                     (IF l \in closing THEN Held(l) \cup StopLeft(l) ELSE KeptOf(l))
  <2>1. placed[l] # Lost /\ placed[l] \subseteq placed'[l]
    BY <1>2, PlacedGrows
  <2>2. QED
    BY <1>2, <2>1 DEF StopProgress
<1>3. ASSUME phase' = phase, placedAtStop' = placedAtStop, closing' = closing, kept' = kept,
             "stop" \in walking' <=> "stop" \in walking,
             todo'["stop"] = todo["stop"],
             \A l \in Keys :
               placed'[l] # Lost /\ phase \in {"stopping", "saved"} /\ l \in closing =>
                 \A e \in placed[l] \cap Edits :
                   e \in Held(l) \cup StopLeft(l) => e \in Held(l)' \cup StopLeft(l)'
      PROVE  StopProgress'
  <2>1. ASSUME NEW l \in Keys, placed'[l] # Lost, phase \in {"stopping", "saved"}
        PROVE  /\ placedAtStop'[l] # Lost /\ placedAtStop'[l] \subseteq placed'[l]
               /\ \/ l \in todo'["stop"]
                  \/ placedAtStop'[l] \cap Edits \subseteq
                       (IF l \in closing' THEN Held(l)' \cup StopLeft(l)' ELSE KeptOf(l)')
    <3>1. KeptOf(l)' = KeptOf(l)
      BY <1>3 DEF KeptOf
    <3>2. CASE l \in closing
      BY <1>2, <1>3, <2>1, <3>2
    <3>3. CASE l \notin closing
      BY <1>2, <1>3, <2>1, <3>1, <3>3
    <3>4. QED
      BY <3>2, <3>3
  <2>2. QED
    BY <1>1, <1>3, <2>1 DEF StopProgress
<1>4. ASSUME UNCHANGED <<phase, placedAtStop, closing, kept, stored, saves>>,
             "stop" \in walking' <=> "stop" \in walking, todo'["stop"] = todo["stop"]
      PROVE  StopProgress'
  <2>1. \A l \in Keys : Held(l)' = Held(l) /\ StopLeft(l)' = StopLeft(l)
    BY <1>4 DEF Held, StopLeft, CallOf
  <2>2. QED
    BY <1>3, <1>4, <2>1
<1>5. CASE Started
  BY <1>1, <1>5 DEF Started, StopProgress, saveVars
<1>6. ASSUME NEW c \in saves, NEW x \in c.left, CellSaved(c, x) PROVE StopProgress'
  <2>1. UNCHANGED <<walking, todo, phase, placedAtStop, closing, kept>>
    BY <1>6 DEF CellSaved, lifeVars
  <2>2. QED
    BY <1>3, <1>6, <2>1, StopCell
<1>7. ASSUME NEW by \in Walkers \cup {"first"}, NEW k \in Keys, NEW o \in Objects,
             SaveBegins(by, k, o), NEW l \in Keys
      PROVE  Held(l)' = Held(l) /\ StopLeft(l) \subseteq StopLeft(l)'
  <2>1. Held(l)' = Held(l)
    BY <1>7, SaveBeginning
  <2>2. saves \subseteq saves'
    BY <1>7 DEF SaveBegins
  <2>3. QED
    BY <2>1, <2>2 DEF StopLeft, CallOf
<1>8. ASSUME NEW f \in firsts, FirstSaveBegins(f) PROVE StopProgress'
  <2>1. /\ UNCHANGED <<walking, todo, phase, placedAtStop, closing, kept>>
        /\ SaveBegins("first", f.key, f.obj) /\ f.key \in Keys /\ f.obj \in Objects
    BY <1>8 DEF FirstSaveBegins, lifeVars, TypeOK
  <2>2. \A l \in Keys : Held(l)' = Held(l) /\ StopLeft(l) \subseteq StopLeft(l)'
    BY <1>7, <2>1
  <2>3. QED
    BY <1>3, <2>1, <2>2
<1>9. ASSUME NEW w \in Walkers, NEW k \in Keys, SaveNext(w, k) PROVE StopProgress'
  <2>1. /\ w \in walking /\ SaveBegins(w, k, chunks[k]) /\ chunks[k] \in Objects
        /\ todo' = [todo EXCEPT ![w] = @ \ {k}]
        /\ UNCHANGED <<walking, phase, placedAtStop, closing, kept>>
    BY <1>9 DEF SaveNext, TypeOK, CachedKeys, Cached
  <2>2. \A l \in Keys : Held(l)' = Held(l) /\ StopLeft(l) \subseteq StopLeft(l)'
    BY <1>7, <2>1
  <2>3. CASE w # "stop"
    <3>1. todo'["stop"] = todo["stop"]
      BY <2>1, <2>3 DEF TypeOK, Walkers
    <3>2. QED
      BY <1>3, <2>1, <2>2, <3>1
  <2>4. CASE w = "stop"
    <3>1. phase = "stopping" /\ closing = Keys
      BY <1>1, <2>1, <2>4
    <3>2. Edits \subseteq StopLeft(k)'
      <4>1. PICK c : c = [by |-> "stop", key |-> k, obj |-> chunks[k], seen |-> heap[chunks[k]],
                          left |-> Edits \cup (heap[chunks[k]] \cap Terrains)]
        OBVIOUS
      <4>2. saves' = saves \cup Going(c)
        BY <2>1, <2>4, <4>1 DEF SaveBegins
      <4>3. c.by = "stop" /\ c.key = k /\ Edits \subseteq c.left
        BY <4>1
      <4>4. ASSUME NEW e \in Edits PROVE e \in StopLeft(k)'
        <5>1. c \in saves'
          BY <4>2, <4>3, <4>4 DEF Going
        <5>2. QED
          BY <4>3, <4>4, <5>1 DEF StopLeft, CallOf
      <4>5. QED
        BY <4>4
    <3>3. \A l \in Keys : l # k /\ l \in todo["stop"] => l \in todo'["stop"]
      BY <2>1, <2>4 DEF TypeOK, Walkers
    <3>4. ASSUME NEW l \in Keys, placed'[l] # Lost
          PROVE  /\ placedAtStop[l] # Lost /\ placedAtStop[l] \subseteq placed'[l]
                 /\ \/ l \in todo'["stop"]
                    \/ placedAtStop[l] \cap Edits \subseteq Held(l)' \cup StopLeft(l)'
      <4>1. CASE l = k
        BY <1>2, <3>1, <3>2, <3>4, <4>1
      <4>2. CASE l # k
        BY <1>2, <2>2, <3>1, <3>3, <3>4, <4>2
      <4>3. QED
        BY <4>1, <4>2
    <3>5. QED
      BY <2>1, <3>1, <3>4 DEF StopProgress
  <2>5. QED
    BY <2>3, <2>4
<1>10. ASSUME NEW k \in Keys, StorageLoses(k) PROVE StopProgress'
  <2>1. UNCHANGED <<walking, todo, saves, phase, placedAtStop, closing, kept>>
    BY <1>10 DEF StorageLoses, saveVars, lifeVars
  <2>2. \A l \in Keys : placed'[l] # Lost => l # k
    BY <1>10, Losing DEF StorageLoses
  <2>3. \A l \in Keys : l # k => stored'[l] = stored[l]
    BY <1>10 DEF StorageLoses, TypeOK
  <2>4. \A l \in Keys : placed'[l] # Lost => Held(l)' = Held(l) /\ StopLeft(l)' = StopLeft(l)
    BY <2>1, <2>2, <2>3 DEF Held, StopLeft, CallOf
  <2>5. QED
    BY <1>3, <2>1, <2>4
<1>11. CASE SaverTicks \/ SaverCancelled \/ SaverDone
  <2>1. /\ "stop" \in walking' <=> "stop" \in walking
        /\ todo'["stop"] = todo["stop"]
        /\ UNCHANGED <<phase, placedAtStop, closing, kept, stored, saves>>
    BY <1>11 DEF SaverTicks, SaverCancelled, SaverDone, BeginWalk, EndWalk, TypeOK, Walkers
  <2>2. QED
    BY <1>4, <2>1
<1>12. CASE Stop
  <2>1. /\ todo'["stop"] = CachedKeys /\ phase' = "stopping" /\ closing' = Keys
        /\ placedAtStop' = placed /\ UNCHANGED <<stored, placed>>
    BY <1>1, <1>12 DEF Stop, BeginWalk, ChunksToSave, TypeOK, Walkers
  <2>2. ASSUME NEW l \in Keys, placed[l] # Lost, l \notin CachedKeys
        PROVE  placed[l] \cap Edits \subseteq Held(l)'
    <3>1. Held(l)' = Held(l)
      BY <2>1 DEF Held
    <3>2. QED
      BY <2>2, <3>1, ShownEdits DEF CachedKeys
  <2>3. QED
    BY <2>1, <2>2 DEF StopProgress
<1>13. CASE StopSaved
  <2>1. /\ "stop" \notin walking' /\ todo["stop"] = {} /\ todo' = todo
        /\ phase = "stopping" /\ phase' = "saved"
        /\ UNCHANGED <<placedAtStop, stored, placed, saves, closing, kept>>
    BY <1>1, <1>13 DEF StopSaved, EndWalk
  <2>2. \A l \in Keys : /\ Held(l)' = Held(l) /\ StopLeft(l)' = StopLeft(l)
                        /\ KeptOf(l)' = KeptOf(l)
    BY <2>1 DEF Held, StopLeft, CallOf, KeptOf
  <2>3. QED
    BY <1>2, <2>1, <2>2 DEF StopProgress
<1>14. ASSUME NEW k \in Keys, CloseWrites(k) PROVE StopProgress'
  <2>1. /\ phase = "saved" /\ k \in closing /\ todo["stop"] = {}
        /\ closing' = closing \ {k} /\ kept' = [kept EXCEPT ![k] = stored[k]]
        /\ UNCHANGED <<walking, todo, phase, placedAtStop, stored, saves, placed>>
    BY <1>1, <1>14 DEF CloseWrites
  <2>2. \A l \in Keys : StopLeft(l) = {}
    BY <1>1, <2>1, NoCallLeft
  <2>3. /\ KeptOf(k)' = Held(k)
        /\ \A l \in Keys : l # k => KeptOf(l)' = KeptOf(l)
        /\ \A l \in Keys : Held(l)' = Held(l)
    BY <2>1 DEF KeptOf, Held, TypeOK
  <2>4. ASSUME NEW l \in Keys, placed'[l] # Lost
        PROVE  /\ placedAtStop[l] # Lost /\ placedAtStop[l] \subseteq placed'[l]
               /\ placedAtStop[l] \cap Edits \subseteq
                    (IF l \in closing' THEN Held(l)' \cup StopLeft(l)' ELSE KeptOf(l)')
    <3>1. CASE l = k
      BY <1>2, <2>1, <2>2, <2>3, <2>4, <3>1
    <3>2. CASE l # k
      BY <1>2, <2>1, <2>2, <2>3, <2>4, <3>2
    <3>3. QED
      BY <3>1, <3>2
  <2>5. QED
    BY <1>1, <2>1, <2>4 DEF StopProgress
<1>15. CASE CloseReturns
  BY <1>1, <1>15 DEF CloseReturns, StopProgress
<1>16. QED
  BY <1>4, <1>5, <1>6, <1>8, <1>9, <1>10, <1>11, <1>12, <1>13, <1>14, <1>15, EveryStep
     DEF LoadFromStorage, GetOrGenerateMisses, LoadFinds, LoadNotFound, PutLoaded, LoadBlocks,
         GenerateFindsChunk, GenerateChunk, GenerateDeadlocks, SetBlock, CollectUnused,
         RemoveUnused, ClearBlockCache, CleanUnchanged, saveVars, lifeVars, history, vars

LEMMA StopSavesStep ==
  TypeOK /\ StopProgress /\ StopSaves /\ [Next]_vars => StopSaves'
<1> SUFFICES ASSUME TypeOK, StopProgress, StopSaves, [Next]_vars PROVE StopSaves'
  OBVIOUS
<1>1. CASE UNCHANGED vars
  BY <1>1 DEF StopSaves, vars, history, lifeVars
<1>2. CASE CloseReturns
  <2>1. phase = "saved" /\ closing = {} /\ UNCHANGED <<placed, placedAtStop, kept>>
    BY <1>2 DEF CloseReturns
  <2>2. \A k \in Keys : placed[k] # Lost => placedAtStop[k] \cap Edits \subseteq KeptOf(k)
    BY <2>1 DEF StopProgress
  <2>3. QED
    BY <2>1, <2>2 DEF StopSaves, KeptOf
<1>3. CASE phase' # "closed"
  BY <1>3 DEF StopSaves
<1>4. CASE Next /\ phase' = phase
  BY <1>3, <1>4 DEF Next
<1>5. QED
  BY <1>1, <1>2, <1>3, <1>4, EveryStep
     DEF LoadFromStorage, GetOrGenerateMisses, LoadFinds, LoadNotFound, PutLoaded, LoadBlocks,
         GenerateFindsChunk, GenerateChunk, GenerateDeadlocks, SetBlock, StorageLoses, CellSaved,
         FirstSaveBegins, Started, SaverTicks, SaverDone, SaveNext, SaverCancelled, Stop,
         StopSaved, CloseWrites, CollectUnused, RemoveUnused, ClearBlockCache, CleanUnchanged,
         lifeVars

-----------------------------------------------------------------------------
(* The theorems.                                                           *)

LEMMA InitIInv == Init => IInv
<1> SUFFICES ASSUME Init PROVE IInv
  OBVIOUS
<1> USE KeysAssumption DEF Init, Storable
<1>1. TypeOK
  <2>1. stored \in [Keys -> Contents \cup {Absent}] /\ {} \in Contents
    BY DEF Contents
  <2>2. placed \in [Keys -> Contents \cup {Lost}]
    BY <2>1 DEF Held
  <2>3. QED
    BY <2>1, <2>2 DEF TypeOK
<1>2. \A k \in Keys : ~Cached(k) /\ placed[k] = Held(k)
  BY DEF Cached
<1>3. RequestHasKey /\ LoadedFirst
  BY <1>2 DEF RequestHasKey, LoadedFirst
<1>4. OwnObject /\ SavedUnderLock /\ OnTheWayIsStored /\ OnlyPlaced
  BY <1>2 DEF OwnObject, SavedUnderLock, OnTheWayIsStored, OnlyPlaced
<1>5. PlacedIsShown
  BY <1>2 DEF PlacedIsShown, Shown, Held
<1>6. OneTerrain
  BY <1>2 DEF OneTerrain, Held
<1>7. UnstoredDynamicIsActive /\ UnsavedDynamicIsActive
  BY <1>2 DEF UnstoredDynamicIsActive, UnsavedDynamicIsActive, FirstSaveOf, CallOf, Held
<1>8. StopProgress /\ StopSaves
  BY DEF StopProgress, StopSaves
<1>9. QED
  BY <1>1, <1>3, <1>4, <1>5, <1>6, <1>7, <1>8 DEF IInv

(* The inductive invariant of the chunks in memory, of which the theorems *)
(* below are parts.                                                       *)
THEOREM Invariance == Spec => []IInv
<1>1. IInv /\ [Next]_vars => IInv'
  BY TypeStep, RequestHasKeyStep, LoadedFirstStep, OwnObjectStep, SavedUnderLockStep,
     OnTheWayIsStoredStep, PlacedIsShownStep, OnlyPlacedStep, OneTerrainStep,
     UnstoredDynamicStep, UnsavedDynamicStep, StopProgressStep, StopSavesStep
     DEF IInv
<1>2. QED
  BY InitIInv, <1>1, PTL DEF Spec

(* Every variable has its type, and whoever walks over the chunks finds all *)
(* that it has yet to save in the map.                                      *)
THEOREM TypeCorrect == Spec => []TypeOK
<1>1. IInv => TypeOK
  BY DEF IInv
<1>2. QED
  BY Invariance, <1>1, PTL

(* What was placed is shown (GetOrGenerateChunk, generateChunk, the eviction *)
(* and the block cache), for any number of chunks, requests and blocks.      *)
THEOREM PlacedShown == Spec => []PlacedIsShown
<1>1. IInv => PlacedIsShown
  BY DEF IInv
<1>2. QED
  BY Invariance, <1>1, PTL

(* Nothing appears that nobody placed: as long as a chunk is not lost,      *)
(* memory, storage, a copy that GetOrGenerateChunk read and the object of a *)
(* first save hold only terrain and edits that the chunk was given.         *)
THEOREM NothingAppears == Spec => []OnlyPlaced
<1>1. IInv => OnlyPlaced
  BY DEF IInv
<1>2. QED
  BY Invariance, <1>1, PTL

(* No two positions of the map chunks ever share a *game.Chunk, so SetBlock *)
(* on one chunk changes no other, nor what the other's first save writes.   *)
THEOREM ObjectsAreOwned == Spec => []OwnObject
<1>1. IInv => OwnObject
  BY DEF IInv
<1>2. QED
  BY Invariance, <1>1, PTL

(* Stop saves every edit that was placed before it began, beside requests,  *)
(* first saves and the saver's last save.                                   *)
THEOREM StopKeepsEdits == Spec => []StopSaves
<1>1. IInv => StopSaves
  BY DEF IInv
<1>2. QED
  BY Invariance, <1>1, PTL

(* A dynamic block that the storage has not is in an active chunk, which the *)
(* cleanup routine passes over.                                              *)
THEOREM UnsavedDynamicStays == Spec => []UnsavedDynamicIsActive
<1>1. IInv => UnsavedDynamicIsActive
  BY DEF IInv
<1>2. QED
  BY Invariance, <1>1, PTL

(* No step takes an active chunk out of the map (cleanupUnusedChunks looks  *)
(* again under the lock).                                                   *)
THEOREM ActiveNeverEvicted == Spec => ActiveStays
<1>1. TypeOK /\ [Next]_vars =>
        [\A k \in active : Cached(k) => chunks'[k] # NoObject]_vars
  <2> SUFFICES ASSUME TypeOK, [Next]_vars, NEW k \in active, Cached(k)
               PROVE  chunks'[k] # NoObject
    OBVIOUS
  <2> USE DEF Cached
  <2>1. CASE UNCHANGED chunks
    BY <2>1
  <2>2. ASSUME NEW l, chunks' = [chunks EXCEPT ![l] = NewObject], MayAllocate
        PROVE  chunks'[k] # NoObject
    <3>1. NewObject # NoObject
      BY <2>2, KeysAssumption DEF MayAllocate, NewObject
    <3>2. QED
      BY <2>2, <3>1 DEF TypeOK
  <2>3. CASE RemoveUnused
    BY <2>3 DEF RemoveUnused, UnusedNow, TypeOK
  <2>4. QED
    BY <2>1, <2>2, <2>3, EveryStep
       DEF LoadFromStorage, Started, GetOrGenerateMisses, LoadFinds, LoadNotFound, PutLoaded,
           LoadBlocks, GenerateFindsChunk, GenerateChunk, GenerateDeadlocks, SetBlock,
           StorageLoses, CellSaved, FirstSaveBegins, SaverTicks, SaverDone, SaveNext,
           SaverCancelled, Stop, StopSaved, CloseWrites, CloseReturns, WalkUnchanged,
           CollectUnused, ClearBlockCache, CleanUnchanged, vars
<1>2. QED
  BY TypeCorrect, <1>1, PTL DEF ActiveStays, Spec
=============================================================================
