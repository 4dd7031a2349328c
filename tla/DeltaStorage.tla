---------------------------- MODULE DeltaStorage ----------------------------
(***************************************************************************)
(* The write-back delta cache of internal/storage/binary_storage.go:       *)
(* BinaryStorage keeps one ChunkDelta per chunk in deltaCache, remembers   *)
(* the unsaved ones in dirtyDeltas, and hands their positions to the       *)
(* goroutine saveWorker through the bounded channel saveQueue.  SaveChunk  *)
(* and LoadChunk are called by any number of goroutines at once (the       *)
(* periodic saver, the saver of a generated chunk, the gRPC handlers);     *)
(* cleanupWorker evicts clean deltas, and Close stops both workers and     *)
(* saves what is still dirty.                                              *)
(*                                                                         *)
(* Every section under cacheMutex is one step, and so is every call made   *)
(* outside of it.  A delta is a shared object: callers keep a pointer to   *)
(* it after the lock is released, so deltas live in `heap' and the cache   *)
(* holds references.  A chunk's content is the set of the block values     *)
(* written to it; the region files are one durable content per chunk, {}   *)
(* when the file has no entry, or one that cannot be decoded (a delta is   *)
(* saved only after a change, so an entry is never empty).  Deltas are     *)
(* those a region can hold; RegionChunks says which.                       *)
(***************************************************************************)
EXTENDS Integers, Sequences, FiniteSets

CONSTANTS
  Chunks,        \* chunk positions (the keys of deltaCache)
  Blocks,        \* block values a chunk may hold
  Savers,        \* goroutines calling SaveChunk
  Loaders,       \* goroutines calling LoadChunk
  Deltas,        \* identities of *ChunkDelta objects; unreachable ones are reused
  NoDelta,       \* the nil pointer
  NoChunk,       \* no call, or no save, in progress
  QueueCap,      \* capacity of saveQueue (100 in the code)
  MaxCache,      \* MaxDeltaCacheSize
  CleanupBatch,  \* DeltaCacheCleanupBatch
  MaxCalls       \* bound of the model: number of calls started

ASSUME ConstantsAssumption ==
  /\ NoDelta \notin Deltas
  /\ NoChunk \notin Chunks
  /\ Savers \cap Loaders = {}
  /\ QueueCap \in Nat /\ MaxCache \in Nat /\ CleanupBatch \in Nat /\ MaxCalls \in Nat

VARIABLES
  heap,      \* content of each delta object (BlockChanges)
  cache,     \* deltaCache
  dirty,     \* keys of dirtyDeltas
  queue,     \* saveQueue
  older,     \* <<c, d>>: the AccessTime of c is before that of d
  disk,      \* content of each chunk in the region files
  torn,      \* chunks whose stored data a write that failed midway has overwritten in part
  phase,     \* progress of Close
  pc, chunk, arg, todo, changed, got, ref,  \* locals of a call in progress
  flPc, flChunk, flRef, flSnap,             \* locals of saveDelta (worker or Close)
  closing    \* keys saveAllDirtyDeltas still has to visit

(***************************************************************************)
(* History variables; no step of the code depends on them.                 *)
(***************************************************************************)
VARIABLES
  acked,         \* blocks whose SaveChunk has returned nil
  ackedAtClose,  \* acked, when Close was called, of the chunks no SaveChunk was changing
  lossy,         \* chunks where two delta objects were alive, see DoubleMiss, InUse
  skipped,       \* chunks with a dropped queue entry or a failed write since the last save began
  remarked,      \* chunks marked dirty while saveDelta was saving them
  calls          \* number of calls started

callVars  == <<pc, chunk, arg, todo, changed, got, ref>>
flushVars == <<flPc, flChunk, flRef, flSnap>>
vars == <<heap, cache, dirty, queue, older, disk, torn, phase, callVars, flushVars,
          closing, acked, ackedAtClose, lossy, skipped, remarked, calls>>

Procs == Savers \cup Loaders

Cached(c) == cache[c] # NoDelta
CachedChunks == {c \in Chunks : Cached(c)}

(* What LoadChunk returns for c at this moment. *)
Visible(c) == IF Cached(c) THEN heap[cache[c]] ELSE disk[c]

Queued(c) == \E i \in 1..Len(queue) : queue[i] = c

(* A call has looked c up, found nothing, and will put a delta of its own. *)
InMissWindow(p, c) == chunk[p] = c /\ pc[p] \in {"read", "put"}
(* A SaveChunk holds a pointer to a delta of c that it is still changing.  *)
Holding(p, c) == chunk[p] = c /\ pc[p] \in {"set", "marked"}
(* saveDelta has taken c from the queue and has not written it yet.        *)
Flushing(c) == flChunk = c /\ flPc \in {"lookup", "write"}
(* Someone relies on the cached delta of c staying the cached one. *)
InUse(c) == Queued(c) \/ Flushing(c) \/ \E p \in Savers : Holding(p, c)

(* delta.Touch: c becomes the most recently accessed of the cached deltas. *)
Touched(c) == {pr \in older : pr[1] # c} \cup ((CachedChunks \ {c}) \X {c})

Unreachable(d) ==
  /\ \A c \in Chunks : cache[c] # d
  /\ \A p \in Procs : ref[p] # d
  /\ flRef # d

(* A newly allocated object; the garbage collector has taken the other ones. *)
NewDelta == CHOOSE d \in Deltas : Unreachable(d)

Goto(p, label) == pc' = [pc EXCEPT ![p] = label]

(* The call ends and its locals are gone. *)
Return(p) ==
  /\ Goto(p, "idle")
  /\ chunk' = [chunk EXCEPT ![p] = NoChunk]
  /\ ref' = [ref EXCEPT ![p] = NoDelta]
  /\ arg' = [arg EXCEPT ![p] = {}]
  /\ todo' = [todo EXCEPT ![p] = {}]
  /\ changed' = [changed EXCEPT ![p] = FALSE]

(***************************************************************************)
(* Definitions whose name starts with Faulty are variants with a plausible *)
(* bug; no other definition uses them.  Each shows that some property      *)
(* would catch the bug.                                                    *)
(***************************************************************************)

(***************************************************************************)
(* Calls.  GetOrCreateDelta and GetDelta start with a lookup under RLock;  *)
(* on a hit the pointer is used after the lock is released.                *)
(***************************************************************************)
Lookup(p, c) ==
  /\ pc[p] = "idle"
  /\ calls < MaxCalls
  /\ calls' = calls + 1
  /\ chunk' = [chunk EXCEPT ![p] = c]
  /\ IF Cached(c)
     THEN /\ Goto(p, IF p \in Savers THEN "set" ELSE "copy")
          /\ ref' = [ref EXCEPT ![p] = cache[c]]
          /\ older' = Touched(c)
     ELSE /\ Goto(p, "read")
          /\ UNCHANGED <<ref, older>>
  /\ UNCHANGED <<heap, cache, dirty, queue, disk, torn, phase, got, flushVars, closing,
                 acked, ackedAtClose, lossy, skipped, remarked>>

(* SaveChunk(chunk) with the blocks B. *)
SaveChunk(p, c, B) ==
  /\ Lookup(p, c)
  /\ arg' = [arg EXCEPT ![p] = B]
  /\ todo' = [todo EXCEPT ![p] = B]
  /\ changed' = [changed EXCEPT ![p] = FALSE]

LoadChunk(p, c) ==
  /\ Lookup(p, c)
  /\ UNCHANGED <<arg, todo, changed>>

(* Forgets to take over the stored delta. *)
FaultyReadRegion(p) ==
  /\ pc[p] = "read"
  /\ p \in Savers \/ disk[chunk[p]] # {}
  /\ Goto(p, "put")
  /\ UNCHANGED <<heap, cache, dirty, queue, older, disk, torn, phase, chunk, arg, todo, changed,
                 got, ref, flushVars, closing, acked, ackedAtClose, lossy, skipped,
                 remarked, calls>>

(* regionManager.GetChunkDelta finds the entry, or SaveChunk finds none and *)
(* starts from an empty delta.                                              *)
ReadRegion(p) ==
  /\ pc[p] = "read"
  /\ p \in Savers \/ disk[chunk[p]] # {}
  /\ got' = [got EXCEPT ![p] = disk[chunk[p]]]
  /\ Goto(p, "put")
  /\ UNCHANGED <<heap, cache, dirty, queue, older, disk, torn, phase, chunk, arg, todo, changed,
                 ref, flushVars, closing, acked, ackedAtClose, lossy, skipped,
                 remarked, calls>>

(* The read fails although the region has an entry: GetOrCreateDelta goes on *)
(* with an empty delta.                                                      *)
ReadRegionFails(p) ==
  /\ pc[p] = "read"
  /\ p \in Savers
  /\ disk[chunk[p]] # {}
  /\ got' = [got EXCEPT ![p] = {}]
  /\ lossy' = lossy \cup {chunk[p]}
  /\ Goto(p, "put")
  /\ UNCHANGED <<heap, cache, dirty, queue, older, disk, torn, phase, chunk, arg, todo, changed,
                 ref, flushVars, closing, acked, ackedAtClose, skipped, remarked, calls>>

(* LoadChunk turns a missing entry and a failed read alike into ErrChunkNotFound. *)
LoadNotFound(p) ==
  /\ pc[p] = "read"
  /\ p \in Loaders
  /\ Return(p)
  /\ UNCHANGED <<heap, cache, dirty, queue, older, disk, torn, phase, got, flushVars, closing,
                 acked, ackedAtClose, lossy, skipped, remarked, calls>>

(* The new delta object enters the cache, whatever the cache holds by now. *)
DoubleMiss(p) == \E q \in Procs \ {p} : InMissWindow(q, chunk[p])

PutDelta(p) ==
  /\ pc[p] = "put"
  /\ \E d \in Deltas : Unreachable(d)     \* memory never runs out: Deltas is large enough
  /\ heap' = [d \in Deltas |-> IF d = NewDelta THEN got[p]
                              ELSE IF Unreachable(d) THEN {} ELSE heap[d]]
  /\ cache' = [cache EXCEPT ![chunk[p]] = NewDelta]
  /\ ref' = [ref EXCEPT ![p] = NewDelta]
  /\ older' = Touched(chunk[p])
  /\ lossy' = IF DoubleMiss(p) THEN lossy \cup {chunk[p]} ELSE lossy
  /\ got' = [got EXCEPT ![p] = {}]
  /\ Goto(p, IF p \in Savers THEN "set" ELSE "copy")
  /\ UNCHANGED <<dirty, queue, disk, torn, phase, chunk, arg, todo, changed, flushVars,
                 closing, acked, ackedAtClose, skipped, remarked, calls>>

(* LoadChunk copies the blocks out of the delta and returns. *)
LoadReturns(p) ==
  /\ pc[p] = "copy"
  /\ Return(p)
  /\ UNCHANGED <<heap, cache, dirty, queue, older, disk, torn, phase, got, flushVars, closing,
                 acked, ackedAtClose, lossy, skipped, remarked, calls>>

(* One turn of SaveChunk's loop: delta.SetBlock, under no lock at all. *)
SetBlock(p, b) ==
  /\ pc[p] = "set"
  /\ b \in todo[p]
  /\ heap' = [heap EXCEPT ![ref[p]] = @ \cup {b}]
  /\ changed' = [changed EXCEPT ![p] = @ \/ b \notin heap[ref[p]]]
  /\ todo' = [todo EXCEPT ![p] = @ \ {b}]
  /\ UNCHANGED <<cache, dirty, queue, older, disk, torn, phase, pc, chunk, arg, got, ref,
                 flushVars, closing, acked, ackedAtClose, lossy, skipped, remarked, calls>>

Acknowledge(p) ==
  /\ acked' = [acked EXCEPT ![chunk[p]] = @ \cup arg[p]]
  /\ Return(p)

(* No block differed: SaveChunk returns and marks nothing. *)
SaveUnchanged(p) ==
  /\ pc[p] = "set"
  /\ todo[p] = {}
  /\ ~changed[p]
  /\ Acknowledge(p)
  /\ UNCHANGED <<heap, cache, dirty, queue, older, disk, torn, phase, got, flushVars, closing,
                 ackedAtClose, lossy, skipped, remarked, calls>>

(* Leaves a chunk that is dirty already to the queue entry it must have. *)
FaultyMarkDeltaAsDirty(p) ==
  /\ pc[p] = "set"
  /\ todo[p] = {}
  /\ changed[p]
  /\ dirty' = dirty \cup {chunk[p]}
  /\ IF chunk[p] \in dirty
     THEN Acknowledge(p)
     ELSE /\ Goto(p, "marked")
          /\ UNCHANGED <<chunk, ref, arg, todo, changed, acked>>
  /\ UNCHANGED <<heap, cache, queue, older, disk, torn, phase, got, flushVars, closing,
                 ackedAtClose, lossy, skipped, remarked, calls>>

(* markDeltaAsDirty. *)
MarkDeltaAsDirty(p) ==
  /\ pc[p] = "set"
  /\ todo[p] = {}
  /\ changed[p]
  /\ dirty' = dirty \cup {chunk[p]}
  /\ remarked' = IF flChunk = chunk[p] /\ flPc \in {"write", "clear"}
                 THEN remarked \cup {chunk[p]} ELSE remarked
  /\ Goto(p, "marked")
  /\ UNCHANGED <<heap, cache, queue, older, disk, torn, phase, chunk, arg, todo, changed, got,
                 ref, flushVars, closing, acked, ackedAtClose, lossy, skipped, calls>>

(* Off by one: sends to a full queue. *)
FaultyQueueForSaving(p) ==
  /\ pc[p] = "marked"
  /\ IF Len(queue) <= QueueCap
     THEN /\ queue' = Append(queue, chunk[p])
          /\ UNCHANGED skipped
     ELSE /\ skipped' = skipped \cup {chunk[p]}
          /\ UNCHANGED queue
  /\ Acknowledge(p)
  /\ UNCHANGED <<heap, cache, dirty, older, disk, torn, phase, got, flushVars, closing,
                 ackedAtClose, lossy, remarked, calls>>

(* queueForSaving: the send never blocks, a full queue drops the position. *)
QueueForSaving(p) ==
  /\ pc[p] = "marked"
  /\ IF Len(queue) < QueueCap
     THEN /\ queue' = Append(queue, chunk[p])
          /\ UNCHANGED skipped
     ELSE /\ skipped' = skipped \cup {chunk[p]}
          /\ UNCHANGED queue
  /\ Acknowledge(p)
  /\ UNCHANGED <<heap, cache, dirty, older, disk, torn, phase, got, flushVars, closing,
                 ackedAtClose, lossy, remarked, calls>>

(***************************************************************************)
(* saveDelta, run by saveWorker for each queue entry and, with the same    *)
(* steps, by saveAllDirtyDeltas for each key it collected.                 *)
(***************************************************************************)
WorkerUnchanged ==
  UNCHANGED <<heap, cache, older, callVars, acked, ackedAtClose, lossy, calls>>

SaveDeltaReturns ==
  /\ flPc' = "idle"
  /\ flChunk' = NoChunk
  /\ flRef' = NoDelta
  /\ flSnap' = {}

(* saveWorker's select prefers neither channel: an entry may still be taken *)
(* after stopChan is closed.                                                *)
TakeFromQueue ==
  /\ flPc = "idle"
  /\ phase \in {"running", "stopping"}
  /\ queue # <<>>
  /\ flChunk' = Head(queue)
  /\ queue' = Tail(queue)
  /\ flPc' = "lookup"
  /\ UNCHANGED <<dirty, disk, torn, phase, flRef, flSnap, closing, skipped, remarked>>
  /\ WorkerUnchanged

TakeDirtyKey ==
  /\ flPc = "idle"
  /\ phase = "saving"
  /\ \E c \in closing : /\ flChunk' = c
                        /\ closing' = closing \ {c}
  /\ flPc' = "lookup"
  /\ UNCHANGED <<dirty, queue, disk, torn, phase, flRef, flSnap, skipped, remarked>>
  /\ WorkerUnchanged

(* The delta is not cached any more: nothing is saved, dirtyDeltas keeps its key. *)
SaveDeltaMisses ==
  /\ flPc = "lookup"
  /\ ~Cached(flChunk)
  /\ SaveDeltaReturns
  /\ UNCHANGED <<dirty, queue, disk, torn, phase, closing, skipped, remarked>>
  /\ WorkerUnchanged

(* Clears the dirty key before the write instead of after it. *)
FaultySaveDeltaBegins ==
  /\ flPc = "lookup"
  /\ Cached(flChunk)
  /\ flRef' = cache[flChunk]
  /\ flSnap' = heap[cache[flChunk]]
  /\ flPc' = "write"
  /\ dirty' = dirty \ {flChunk}
  /\ skipped' = skipped \ {flChunk}
  /\ UNCHANGED <<queue, disk, torn, phase, flChunk, closing, remarked>>
  /\ WorkerUnchanged

(* SaveChunkDelta starts to serialise the delta, which callers may still change. *)
SaveDeltaBegins ==
  /\ flPc = "lookup"
  /\ Cached(flChunk)
  /\ flRef' = cache[flChunk]
  /\ flSnap' = heap[cache[flChunk]]
  /\ flPc' = "write"
  /\ skipped' = skipped \ {flChunk}
  /\ UNCHANGED <<dirty, queue, disk, torn, phase, flChunk, closing, remarked>>
  /\ WorkerUnchanged

(* A block set during the iteration over BlockChanges is seen by it or not. *)
RegionWritten ==
  \E content \in SUBSET heap[flRef] :
    /\ flSnap \subseteq content
    /\ disk' = [disk EXCEPT ![flChunk] = content]

WriteDelta ==
  /\ flPc = "write"
  /\ RegionWritten
  /\ torn' = torn \ {flChunk}
  /\ flPc' = "clear"
  /\ flRef' = NoDelta
  /\ flSnap' = {}
  /\ UNCHANGED <<dirty, queue, phase, flChunk, closing, skipped, remarked>>
  /\ WorkerUnchanged

(* A delta that fits the slot of the stored one is written over it: a write  *)
(* that stops midway leaves data that decode to anything, or not at all.     *)
Torn ==
  /\ disk[flChunk] # {}
  /\ \E content \in SUBSET Blocks : disk' = [disk EXCEPT ![flChunk] = content]
  /\ torn' = torn \cup {flChunk}

(* The region could not be opened or written, or was written and not synced: *)
(* the error is logged and the save is not tried again.                      *)
WriteFails ==
  /\ flPc = "write"
  /\ \/ (UNCHANGED disk \/ RegionWritten) /\ UNCHANGED torn
     \/ Torn
  /\ SaveDeltaReturns
  /\ skipped' = skipped \cup {flChunk}
  /\ UNCHANGED <<dirty, queue, phase, closing, remarked>>
  /\ WorkerUnchanged

(* dirtyDeltas loses the key, even if a caller has put it there since the write. *)
ClearDirty ==
  /\ flPc = "clear"
  /\ dirty' = dirty \ {flChunk}
  /\ SaveDeltaReturns
  /\ UNCHANGED <<queue, disk, torn, phase, closing, skipped, remarked>>
  /\ WorkerUnchanged

(***************************************************************************)
(* cleanupUnusedDeltas, under one lock: the batch of clean deltas accessed *)
(* least recently leaves the cache when the cache is over its size.        *)
(***************************************************************************)
(* Evicts by age alone. *)
FaultyCleanDeltas == CachedChunks

CleanDeltas == CachedChunks \ dirty

CleanupUnusedDeltas(E) ==
  /\ phase \in {"running", "stopping"}   \* a tick may still be taken after stopChan closes
  /\ Cardinality(CachedChunks) > MaxCache
  /\ E \subseteq CleanDeltas
  /\ \/ E = CleanDeltas /\ Cardinality(E) <= CleanupBatch
     \/ /\ Cardinality(E) = CleanupBatch
        /\ \A c \in E, d \in CleanDeltas \ E : <<d, c>> \notin older
  /\ cache' = [c \in Chunks |-> IF c \in E THEN NoDelta ELSE cache[c]]
  /\ older' = {pr \in older : pr[1] \notin E /\ pr[2] \notin E}
  /\ lossy' = lossy \cup {c \in E : InUse(c) \/ c \in torn \/ c \in skipped \cap remarked}
  /\ UNCHANGED <<heap, dirty, queue, disk, torn, phase, callVars, flushVars, closing, acked,
                 ackedAtClose, skipped, remarked, calls>>

(***************************************************************************)
(* Close: close(stopChan), wait for the workers, saveAllDirtyDeltas over a *)
(* copy of the dirty keys, close the regions.  Callers are not stopped.    *)
(***************************************************************************)
CloseUnchanged ==
  UNCHANGED <<heap, cache, dirty, queue, older, disk, torn, callVars, flushVars, acked, lossy,
              skipped, remarked, calls>>

Close ==
  /\ phase = "running"
  /\ phase' = "stopping"
  /\ ackedAtClose' = [c \in Chunks |->
                        IF \E p \in Savers : Holding(p, c) THEN {} ELSE acked[c]]
  /\ UNCHANGED closing
  /\ CloseUnchanged

(* Leaves out the keys that the worker had queued. *)
FaultyWorkerStops ==
  /\ phase = "stopping"
  /\ flPc = "idle"
  /\ phase' = "saving"
  /\ closing' = {c \in dirty : ~Queued(c)}
  /\ UNCHANGED ackedAtClose
  /\ CloseUnchanged

(* saveWorker takes the stopChan branch, even with entries left in the queue. *)
WorkerStops ==
  /\ phase = "stopping"
  /\ flPc = "idle"
  /\ phase' = "saving"
  /\ closing' = dirty
  /\ UNCHANGED ackedAtClose
  /\ CloseUnchanged

CloseEnds ==
  /\ phase = "saving"
  /\ flPc = "idle"
  /\ closing = {}
  /\ phase' = "closed"
  /\ UNCHANGED <<closing, ackedAtClose>>
  /\ CloseUnchanged

(***************************************************************************)
(* Two unsynchronised accesses to one BlockChanges map, one of them a      *)
(* write: the runtime may stop the process ("concurrent map writes",       *)
(* "concurrent map iteration and map write").  The accesses it lets pass   *)
(* are the interleavings of the other actions.                             *)
(***************************************************************************)
MapRaceAbort ==
  /\ \E p \in Savers :
       /\ pc[p] = "set" /\ todo[p] # {}
       /\ \/ flPc = "write" /\ flRef = ref[p]
          \/ \E q \in Savers \ {p} : pc[q] = "set" /\ todo[q] # {} /\ ref[q] = ref[p]
          \/ \E q \in Loaders : pc[q] = "copy" /\ ref[q] = ref[p]
  /\ phase' = "aborted"
  /\ UNCHANGED <<closing, ackedAtClose>>
  /\ CloseUnchanged

Init ==
  /\ heap = [d \in Deltas |-> {}]
  /\ cache = [c \in Chunks |-> NoDelta]
  /\ dirty = {}
  /\ queue = <<>>
  /\ older = {}
  /\ disk \in [Chunks -> SUBSET Blocks]      \* whatever earlier runs have saved
  /\ phase = "running"
  /\ pc = [p \in Procs |-> "idle"]
  /\ chunk = [p \in Procs |-> NoChunk]
  /\ arg = [p \in Procs |-> {}]
  /\ todo = [p \in Procs |-> {}]
  /\ changed = [p \in Procs |-> FALSE]
  /\ got = [p \in Procs |-> {}]
  /\ ref = [p \in Procs |-> NoDelta]
  /\ flPc = "idle"
  /\ flChunk = NoChunk
  /\ flRef = NoDelta
  /\ flSnap = {}
  /\ closing = {}
  /\ torn = {}
  /\ acked = disk
  /\ ackedAtClose = [c \in Chunks |-> {}]
  /\ lossy = {}
  /\ skipped = {}
  /\ remarked = {}
  /\ calls = 0

(* Steps of a SaveChunk already in progress. *)
SaverStep(p) ==
  \/ ReadRegion(p) \/ ReadRegionFails(p)
  \/ PutDelta(p)
  \/ \E b \in Blocks : SetBlock(p, b)
  \/ SaveUnchanged(p) \/ MarkDeltaAsDirty(p) \/ QueueForSaving(p)

LoaderStep(p) ==
  \/ ReadRegion(p) \/ LoadNotFound(p)
  \/ PutDelta(p)
  \/ LoadReturns(p)

Call ==
  \/ \E p \in Savers, c \in Chunks, B \in SUBSET Blocks \ {{}} : SaveChunk(p, c, B)
  \/ \E p \in Loaders, c \in Chunks : LoadChunk(p, c)

SaveDelta ==
  \/ SaveDeltaMisses \/ SaveDeltaBegins \/ WriteDelta \/ WriteFails \/ ClearDirty

Next ==
  /\ phase # "aborted"
  /\ \/ Call
     \/ \E p \in Savers : SaverStep(p)
     \/ \E p \in Loaders : LoaderStep(p)
     \/ TakeFromQueue \/ TakeDirtyKey \/ SaveDelta
     \/ \E E \in SUBSET Chunks : CleanupUnusedDeltas(E)
     \/ Close \/ WorkerStops \/ CloseEnds
     \/ MapRaceAbort

Spec == Init /\ [][Next]_vars

(***************************************************************************)
(* Calls in progress and the save worker are goroutines that run until     *)
(* they call the region manager; new calls, Close and cleanup need not     *)
(* happen.  A region call waits for the manager's and the file's locks,    *)
(* which a compaction may hold for ever (RegionManager, CompactionEnds):   *)
(* no fairness is assumed of a read or a write.                            *)
(***************************************************************************)
Fairness ==
  /\ \A p \in Savers :
       /\ WF_vars(phase # "aborted" /\ (PutDelta(p) \/ \E b \in Blocks : SetBlock(p, b)))
       /\ WF_vars(phase # "aborted" /\
                  (SaveUnchanged(p) \/ MarkDeltaAsDirty(p) \/ QueueForSaving(p)))
  /\ WF_vars(phase # "aborted" /\
             (TakeFromQueue \/ SaveDeltaMisses \/ SaveDeltaBegins \/ ClearDirty))

FairSpec == Spec /\ Fairness

-----------------------------------------------------------------------------

TypeOK ==
  /\ heap \in [Deltas -> SUBSET Blocks]
  /\ cache \in [Chunks -> Deltas \cup {NoDelta}]
  /\ dirty \subseteq Chunks
  /\ queue \in Seq(Chunks) /\ Len(queue) <= QueueCap
  /\ older \subseteq Chunks \X Chunks
  /\ disk \in [Chunks -> SUBSET Blocks]
  /\ torn \subseteq Chunks
  /\ phase \in {"running", "stopping", "saving", "closed", "aborted"}
  /\ pc \in [Procs -> {"idle", "read", "put", "set", "marked", "copy"}]
  /\ chunk \in [Procs -> Chunks \cup {NoChunk}]
  /\ arg \in [Procs -> SUBSET Blocks]
  /\ todo \in [Procs -> SUBSET Blocks]
  /\ changed \in [Procs -> BOOLEAN]
  /\ got \in [Procs -> SUBSET Blocks]
  /\ ref \in [Procs -> Deltas \cup {NoDelta}]
  /\ flPc \in {"idle", "lookup", "write", "clear"}
  /\ flChunk \in Chunks \cup {NoChunk}
  /\ flRef \in Deltas \cup {NoDelta}
  /\ flSnap \subseteq Blocks
  /\ closing \subseteq Chunks
  /\ acked \in [Chunks -> SUBSET Blocks]
  /\ ackedAtClose \in [Chunks -> SUBSET Blocks]
  /\ lossy \subseteq Chunks
  /\ skipped \subseteq Chunks
  /\ remarked \subseteq Chunks
  /\ calls \in 0..MaxCalls
  /\ \A p \in Procs : /\ pc[p] # "idle" => chunk[p] # NoChunk
                      /\ pc[p] \in {"set", "marked", "copy"} => ref[p] # NoDelta
  /\ flPc # "idle" => flChunk # NoChunk
  /\ flPc = "write" => flRef # NoDelta

(* What the region file holds for certain. *)
Stored(c) == IF c \in torn THEN {} ELSE disk[c]

(* Blocks of the cached delta that are not in the region file. *)
Unsaved(c) == IF Cached(c) THEN heap[cache[c]] \ Stored(c) ELSE {}

(***************************************************************************)
(* Read your writes: unless the chunk lost its only delta object (calls    *)
(* that missed the cache together, a failed region read, an eviction of a  *)
(* delta still in use, no longer covered, or of which a failed write tore  *)
(* the stored data), every block of a SaveChunk that returned is in what a *)
(* LoadChunk would return now, wherever eviction, reloading and background *)
(* saving have left the chunk (GetOrCreateDelta, GetDelta,                 *)
(* cleanupUnusedDeltas, saveDelta).                                        *)
(***************************************************************************)
ReadYourWrites == \A c \in Chunks \ lossy : acked[c] \subseteq Visible(c)

(***************************************************************************)
(* The queue covers what is unsaved: unless its queue entry was dropped or *)
(* its write failed, a block missing on disk belongs to a SaveChunk still  *)
(* running, to a queued position or to the save in progress.  This is the  *)
(* promise of queueForSaving and saveWorker while the server runs.         *)
(***************************************************************************)
Covered(c, b) ==
  \/ Queued(c)
  \/ flPc = "lookup" /\ flChunk = c
  \/ flPc = "write" /\ flChunk = c /\ b \in flSnap
  \/ \E p \in Savers : Holding(p, c) /\ changed[p]

QueueCoversUnsaved ==
  \A c \in Chunks \ (lossy \cup skipped) : \A b \in Unsaved(c) : Covered(c, b)

(***************************************************************************)
(* dirtyDeltas covers what is unsaved, dropped entries and failed writes   *)
(* included: unless a SaveChunk marked the chunk while saveDelta was       *)
(* saving it, or a failed write tore its data, a chunk with a block        *)
(* missing on disk is dirty or about to be marked.  This is what           *)
(* cleanupUnusedDeltas and Close rely on.                                  *)
(***************************************************************************)
AboutToMark(c) == \E p \in Savers : chunk[p] = c /\ pc[p] = "set" /\ changed[p]

DirtyCoversUnsaved ==
  \A c \in Chunks \ (lossy \cup remarked \cup torn) :
    Unsaved(c) # {} => c \in dirty \/ AboutToMark(c)

(***************************************************************************)
(* Close is durable: what was acknowledged before Close was called is on   *)
(* disk when Close has returned ("saveAllDirtyDeltas"), if no write failed *)
(* and no SaveChunk marked the chunk while saveDelta was saving it.        *)
(***************************************************************************)
ClosePersists ==
  phase = "closed" => \A c \in Chunks \ (lossy \cup skipped \cup remarked) :
                        ackedAtClose[c] \subseteq disk[c]

(***************************************************************************)
(* Background saving: an acknowledged block reaches the region file, or    *)
(* the chunk lost its queue entry or its only delta, or Close took over.   *)
(* It is promised only while the region calls of the worker end.           *)
(***************************************************************************)
RegionsAnswer == []<>(flPc # "write")

EventuallySaved ==
  RegionsAnswer =>
    \A c \in Chunks : \A b \in Blocks :
      b \in acked[c] ~> (b \in disk[c] \/ c \in lossy \cup skipped \/ phase # "running")

(***************************************************************************)
(* "Stop saves all player and chunk data" (service/shutdown.go:12) and     *)
(* "save all changed deltas" (binary_storage.go:239): what was             *)
(* acknowledged before Close is on disk after it, when no region call      *)
(* failed and no chunk ever had two delta objects.                         *)
(***************************************************************************)
CloseSavesAll ==
  phase = "closed" => \A c \in Chunks \ (lossy \cup skipped) :
                        ackedAtClose[c] \subseteq disk[c]

(***************************************************************************)
(* The region file never loses a block it had, unless the chunk lost its   *)
(* only delta or a failed write tore its data: no save writes an object    *)
(* older than what is on disk (saveDelta's pointer taken under RLock and   *)
(* used after it).                                                         *)
(***************************************************************************)
DiskNeverShrinks ==
  [][\A c \in Chunks \ (lossy \cup torn \cup torn') : disk[c] \subseteq disk'[c]]_vars

(***************************************************************************)
(* The cache, its queue, its worker and its evictions are a DurableStore:  *)
(* eviction, reloading and queueing are invisible, a save moves the disk   *)
(* only towards the memory, and Close ends only with its debt paid.  A     *)
(* lossy chunk is a lost one, and of a torn one the disk holds nothing.    *)
(***************************************************************************)
UnlessLossy(f) == [c \in Chunks |-> IF c \in lossy THEN {} ELSE f[c]]

Kept == UnlessLossy([c \in Chunks |-> Stored(c)])
Mem == UnlessLossy([c \in Chunks |-> Visible(c)])
Busy == {c \in Chunks \ lossy : \E p \in Savers : Holding(p, c)}
Late == (skipped \cup remarked) \ lossy
State ==
  CASE phase = "running" -> "open"
    [] phase \in {"stopping", "saving"} -> "closing"
    [] OTHER -> phase

Store == INSTANCE DurableStore WITH
  mem <- Mem, disk <- Kept, acked <- UnlessLossy(acked),
  promised <- UnlessLossy(ackedAtClose), busy <- Busy, late <- Late, lost <- lossy,
  state <- State

ImplementsStore == Store!Spec

-----------------------------------------------------------------------------
(***************************************************************************)
(* The inductive invariant behind the properties, in named parts.          *)
(***************************************************************************)

(* A delta object belongs to one chunk: to the chunk that caches it and to *)
(* the calls on that chunk.                                                *)
ObjectsApart ==
  /\ \A c, e \in Chunks : Cached(c) /\ cache[c] = cache[e] => c = e
  /\ \A c \in Chunks, p \in Procs :
       pc[p] \in {"set", "marked", "copy"} /\ ref[p] = cache[c] => chunk[p] = c

(* Blocks a call has gone through are in the object it holds. *)
BlocksSet ==
  \A p \in Savers :
    /\ pc[p] \in {"set", "marked"} => arg[p] \ todo[p] \subseteq heap[ref[p]]
    /\ pc[p] = "marked" => todo[p] = {}
    /\ pc[p] \in {"read", "put"} => todo[p] = arg[p]
    /\ pc[p] \in {"idle", "read", "put"} => ~changed[p]

(* While the chunk is not lossy, whoever changes or saves a delta of it    *)
(* works on the cached one, and a call about to put its own finds no other. *)
OneObject ==
  \A c \in Chunks \ lossy :
    /\ \A p \in Savers : Holding(p, c) => Cached(c) /\ ref[p] = cache[c]
    /\ flPc = "write" /\ flChunk = c => Cached(c) /\ flRef = cache[c]
    /\ \A p \in Procs : InMissWindow(p, c) => ~Cached(c)
    /\ \A p \in Procs : pc[p] = "put" /\ chunk[p] = c => got[p] = disk[c]

(* Nothing on disk is missing in memory, nor in the save in progress. *)
MemoryAhead ==
  \A c \in Chunks \ lossy :
    /\ Cached(c) => Stored(c) \subseteq heap[cache[c]]
    /\ flPc = "write" /\ flChunk = c => Stored(c) \subseteq flSnap

(* Torn data are behind a delta in the cache, and behind a failed write    *)
(* that is being tried again or was given up.                              *)
TornIsCovered ==
  \A c \in torn \ lossy :
    /\ Cached(c)
    /\ c \in skipped \/ (flChunk = c /\ flPc = "write")

(* What the save in progress misses has a caller that has yet to mark it. *)
SaveCovers ==
  \A c \in Chunks \ (lossy \cup remarked) :
    flChunk = c /\ flPc \in {"write", "clear"} =>
      \A b \in Unsaved(c) :
        (flPc = "write" /\ b \in flSnap) \/ AboutToMark(c)

(* What Close owes to the disk, and where it stands. *)
Owed(c) == ackedAtClose[c] \ Stored(c)

CloseCovers ==
  /\ \A c \in Chunks : ackedAtClose[c] \subseteq acked[c]
  /\ phase = "running" => \A c \in Chunks : ackedAtClose[c] = {}
  /\ phase = "closed" => flPc = "idle" /\ closing = {}
  /\ \A c \in Chunks \ (lossy \cup remarked) :
       /\ phase = "stopping" /\ c \notin torn /\ Owed(c) # {} => c \in dirty
       /\ flChunk = c /\ flPc = "clear" => Owed(c) = {}
       /\ flChunk = c /\ flPc = "write" => Owed(c) \subseteq flSnap
       /\ phase \in {"saving", "closed"} /\ c \notin skipped /\ Owed(c) # {} =>
            c \in closing \/ (flChunk = c /\ flPc \in {"lookup", "write"})

IndInv ==
  /\ TypeOK
  /\ ObjectsApart
  /\ BlocksSet
  /\ OneObject
  /\ MemoryAhead
  /\ TornIsCovered
  /\ ReadYourWrites
  /\ QueueCoversUnsaved
  /\ DirtyCoversUnsaved
  /\ SaveCovers
  /\ CloseCovers
=============================================================================
