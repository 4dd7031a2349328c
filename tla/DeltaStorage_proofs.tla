-------------------------- MODULE DeltaStorage_proofs -----------------------
(***************************************************************************)
(* Proofs about DeltaStorage, for every value of its constants.            *)
(***************************************************************************)
EXTENDS DeltaStorage, TLAPS

(* Sending on saveQueue puts one more position behind the others. *)
LEMMA AppendQueue ==
  ASSUME NEW q \in Seq(Chunks), NEW c \in Chunks
  PROVE  /\ Append(q, c) \in Seq(Chunks)
         /\ Len(Append(q, c)) = Len(q) + 1
         /\ Append(q, c)[Len(q) + 1] = c
         /\ \A i \in 1..Len(q) : Append(q, c)[i] = q[i]
OBVIOUS

(* Receiving takes the first position, the others move up. *)
LEMMA TailQueue ==
  ASSUME NEW q \in Seq(Chunks), q # <<>>
  PROVE  /\ Head(q) \in Chunks /\ Head(q) = q[1]
         /\ Tail(q) \in Seq(Chunks)
         /\ Len(Tail(q)) = Len(q) - 1
         /\ \A i \in 2..Len(q) : i - 1 \in 1..Len(Tail(q)) /\ Tail(q)[i - 1] = q[i]
OBVIOUS

(* Every variable has its type, and a pointer is there when a step uses it. *)
LEMMA TypeStep == TypeOK /\ [Next]_vars => TypeOK'
<1> SUFFICES ASSUME TypeOK, [Next]_vars PROVE TypeOK'
  OBVIOUS
<1> USE ConstantsAssumption DEF TypeOK, Procs
<1>1. ASSUME NEW p \in Savers, NEW c \in Chunks, NEW B \in SUBSET Blocks, SaveChunk(p, c, B)
      PROVE  TypeOK'
  <2>1. CASE Cached(c)
    <3>1. older' \subseteq Chunks \X Chunks /\ cache[c] \in Deltas
      BY <1>1, <2>1 DEF SaveChunk, Lookup, Touched, CachedChunks, Cached
    <3>2. /\ pc' = [pc EXCEPT ![p] = "set"] /\ chunk' = [chunk EXCEPT ![p] = c]
          /\ ref' = [ref EXCEPT ![p] = cache[c]]
          /\ arg' = [arg EXCEPT ![p] = B] /\ todo' = [todo EXCEPT ![p] = B]
          /\ changed' = [changed EXCEPT ![p] = FALSE]
          /\ calls < MaxCalls /\ calls' = calls + 1
          /\ UNCHANGED <<heap, cache, dirty, queue, disk, torn, phase, got, flPc, flChunk, flRef,
                         flSnap, closing, acked, ackedAtClose, lossy, skipped, remarked>>
      BY <1>1, <2>1 DEF SaveChunk, Lookup, Goto, flushVars
    <3>3. QED
      BY <3>1, <3>2
  <2>2. CASE ~Cached(c)
    BY <1>1, <2>2 DEF SaveChunk, Lookup, Goto, Cached, flushVars
  <2>3. QED
    BY <2>1, <2>2
<1>2. ASSUME NEW p \in Loaders, NEW c \in Chunks, LoadChunk(p, c)
      PROVE  TypeOK'
  BY <1>2 DEF LoadChunk, Lookup, Goto, Touched, CachedChunks, Cached, flushVars
<1>3. ASSUME NEW p \in Procs, ReadRegion(p) PROVE TypeOK'
  BY <1>3 DEF ReadRegion, Goto, flushVars
<1>4. ASSUME NEW p \in Savers, ReadRegionFails(p) PROVE TypeOK'
  BY <1>4 DEF ReadRegionFails, Goto, flushVars
<1>5. ASSUME NEW p \in Procs, PutDelta(p) PROVE TypeOK'
  <2>1. NewDelta \in Deltas
    BY <1>5 DEF PutDelta, NewDelta
  <2>2. QED
    BY <1>5, <2>1 DEF PutDelta, Goto, Touched, CachedChunks, Cached, flushVars
<1>6. ASSUME NEW p \in Savers, NEW b \in Blocks, SetBlock(p, b) PROVE TypeOK'
  BY <1>6 DEF SetBlock, Goto, flushVars
<1>7. ASSUME NEW p \in Savers, SaveUnchanged(p) PROVE TypeOK'
  BY <1>7 DEF SaveUnchanged, Acknowledge, Return, Goto, flushVars
<1>8. ASSUME NEW p \in Savers, MarkDeltaAsDirty(p) PROVE TypeOK'
  BY <1>8 DEF MarkDeltaAsDirty, Goto, flushVars
<1>9. ASSUME NEW p \in Savers, QueueForSaving(p) PROVE TypeOK'
  <2>1. chunk[p] \in Chunks
    BY <1>9 DEF QueueForSaving
  <2>2. queue' \in Seq(Chunks) /\ Len(queue') <= QueueCap
    <3>1. CASE Len(queue) < QueueCap
      <4>1. queue' = Append(queue, chunk[p])
        BY <1>9, <3>1 DEF QueueForSaving
      <4>2. Append(queue, chunk[p]) \in Seq(Chunks) /\ Len(Append(queue, chunk[p])) = Len(queue) + 1
        BY <2>1, AppendQueue
      <4>3. QED
        BY <3>1, <4>1, <4>2
    <3>2. CASE ~(Len(queue) < QueueCap)
      BY <1>9, <3>2 DEF QueueForSaving
    <3>3. QED
      BY <3>1, <3>2
  <2>3. skipped' \subseteq Chunks
    BY <1>9, <2>1 DEF QueueForSaving
  <2>4. acked' \in [Chunks -> SUBSET Blocks]
    BY <1>9, <2>1 DEF QueueForSaving, Acknowledge
  <2>5. QED
    BY <1>9, <2>2, <2>3, <2>4 DEF QueueForSaving, Acknowledge, Return, Goto, flushVars
<1>10. ASSUME NEW p \in Loaders, LoadNotFound(p) PROVE TypeOK'
  BY <1>10 DEF LoadNotFound, Return, Goto, flushVars
<1>11. ASSUME NEW p \in Loaders, LoadReturns(p) PROVE TypeOK'
  BY <1>11 DEF LoadReturns, Return, Goto, flushVars
<1>12. ASSUME TakeFromQueue PROVE TypeOK'
  BY <1>12 DEF TakeFromQueue, WorkerUnchanged, callVars
<1>13. ASSUME TakeDirtyKey PROVE TypeOK'
  BY <1>13 DEF TakeDirtyKey, WorkerUnchanged, callVars
<1>14. ASSUME SaveDelta PROVE TypeOK'
  BY <1>14 DEF SaveDelta, SaveDeltaMisses, SaveDeltaBegins, WriteDelta, WriteFails, Torn,
     RegionWritten, ClearDirty,
     SaveDeltaReturns, WorkerUnchanged, callVars, Cached
<1>15. ASSUME NEW E \in SUBSET Chunks, CleanupUnusedDeltas(E) PROVE TypeOK'
  BY <1>15 DEF CleanupUnusedDeltas, callVars, flushVars
<1>16. ASSUME Close \/ WorkerStops \/ CloseEnds \/ MapRaceAbort PROVE TypeOK'
  BY <1>16 DEF Close, WorkerStops, CloseEnds, MapRaceAbort, CloseUnchanged, callVars, flushVars
<1>17. CASE UNCHANGED vars
  BY <1>17 DEF vars, callVars, flushVars
<1>18. QED
  BY <1>1, <1>2, <1>3, <1>4, <1>5, <1>6, <1>7, <1>8, <1>9, <1>10, <1>11, <1>12, <1>13,
     <1>14, <1>15, <1>16, <1>17
     DEF Next, Call, SaverStep, LoaderStep

(* The object PutDelta allocates is nobody else's, and the objects in use  *)
(* keep their content.                                                     *)
LEMMA PutFacts ==
  ASSUME TypeOK, NEW p \in Procs, PutDelta(p)
  PROVE  /\ NewDelta \in Deltas /\ chunk[p] \in Chunks
         /\ \A c \in Chunks : cache[c] # NewDelta
         /\ \A q \in Procs : ref[q] # NewDelta
         /\ flRef # NewDelta
         /\ heap'[NewDelta] = got[p]
         /\ \A c \in Chunks : Cached(c) => heap'[cache[c]] = heap[cache[c]]
         /\ \A q \in Procs : ref[q] # NoDelta => heap'[ref[q]] = heap[ref[q]]
<1>1. Unreachable(NewDelta) /\ NewDelta \in Deltas
  BY DEF PutDelta, NewDelta
<1>2. \A d \in Deltas : ~Unreachable(d) => heap'[d] = heap[d]
  BY <1>1 DEF PutDelta
<1>3. chunk[p] \in Chunks
  BY DEF PutDelta, TypeOK
<1>4. heap'[NewDelta] = got[p]
  BY <1>1 DEF PutDelta
<1>5. \A c \in Chunks : Cached(c) => cache[c] \in Deltas /\ ~Unreachable(cache[c])
  BY DEF TypeOK, Cached, Unreachable
<1>6. \A q \in Procs : ref[q] # NoDelta => ref[q] \in Deltas /\ ~Unreachable(ref[q])
  BY DEF TypeOK, Unreachable
<1>7. QED
  BY <1>1, <1>2, <1>3, <1>4, <1>5, <1>6 DEF Unreachable

(* Filling the cache changes neither what is visible nor what is unsaved,  *)
(* for a chunk that is not lossy after it.                                 *)
LEMMA PutEffect ==
  ASSUME TypeOK, OneObject, TornIsCovered, NEW p \in Procs, PutDelta(p),
         NEW c \in Chunks \ lossy'
  PROVE  /\ c \notin lossy
         /\ Visible(c)' = Visible(c)
         /\ Unsaved(c)' = Unsaved(c)
         /\ c = chunk[p] =>
              /\ ~Cached(c) /\ Cached(c)' /\ cache'[c] = NewDelta
              /\ heap'[NewDelta] = disk[c]
              /\ \A q \in Procs : ~InMissWindow(q, c)'
         /\ c # chunk[p] => cache'[c] = cache[c]
<1>1. c \notin lossy /\ disk' = disk /\ torn' = torn
  BY DEF PutDelta
<1>2. CASE c = chunk[p]
  <2>1. InMissWindow(p, c) /\ pc[p] = "put"
    BY <1>2 DEF PutDelta, InMissWindow
  <2>2. ~Cached(c) /\ got[p] = disk[c] /\ Stored(c) = disk[c] /\ Stored(c)' = disk[c]
    BY <1>1, <1>2, <2>1 DEF OneObject, TornIsCovered, Stored
  <2>3. cache'[c] = NewDelta /\ NewDelta # NoDelta
    BY <1>2, PutFacts, ConstantsAssumption DEF PutDelta, TypeOK
  <2>4. heap'[NewDelta] = disk[c]
    BY <2>2, PutFacts
  <2>5. \A q \in Procs \ {p} : ~InMissWindow(q, c)
    BY <1>2 DEF PutDelta, DoubleMiss
  <2>6. \A q \in Procs : ~InMissWindow(q, c)'
    BY <2>5 DEF PutDelta, InMissWindow, Goto, TypeOK
  <2>7. QED
    BY <1>1, <1>2, <2>2, <2>3, <2>4, <2>6 DEF Cached, Visible, Unsaved, Stored
<1>3. CASE c # chunk[p]
  <2>1. cache'[c] = cache[c]
    BY <1>3 DEF PutDelta, TypeOK
  <2>2. Cached(c) => heap'[cache[c]] = heap[cache[c]]
    BY PutFacts
  <2>3. QED
    BY <1>1, <1>3, <2>1, <2>2 DEF Cached, Visible, Unsaved, Stored
<1>4. QED
  BY <1>2, <1>3

(* A block set without a lock lands in the cached delta of its chunk, or   *)
(* changes nothing there; its caller knows that it has to mark the chunk.  *)
LEMMA SetEffect ==
  ASSUME TypeOK, ObjectsApart, OneObject, NEW p \in Savers, NEW b \in Blocks,
         SetBlock(p, b), NEW c \in Chunks \ lossy
  PROVE  /\ Unsaved(c)' = Unsaved(c) \/ (chunk'[p] = c /\ pc'[p] = "set" /\ changed'[p])
         /\ Visible(c) \subseteq Visible(c)'
         /\ \A q \in Savers : changed[q] => changed'[q]
<1> USE DEF Procs
<1>1. /\ ref[p] \in Deltas /\ chunk[p] \in Chunks
      /\ heap'[ref[p]] = heap[ref[p]] \cup {b}
      /\ \A d \in Deltas : d # ref[p] => heap'[d] = heap[d]
      /\ UNCHANGED <<cache, disk, torn, pc, chunk, ref>>
  BY DEF SetBlock, TypeOK
<1>2. changed'[p] = (changed[p] \/ b \notin heap[ref[p]])
  BY DEF SetBlock, TypeOK
<1>3. \A q \in Savers : changed[q] => changed'[q]
  BY <1>2 DEF SetBlock, TypeOK
<1>4. Cached(c)' = Cached(c) /\ (Cached(c) => cache[c] \in Deltas)
  BY <1>1 DEF Cached, TypeOK
<1>5. CASE Cached(c) /\ cache[c] = ref[p]
  <2>1. chunk[p] = c /\ pc[p] = "set"
    BY <1>1, <1>5 DEF ObjectsApart, SetBlock
  <2>2. CASE b \in heap[ref[p]]
    BY <1>1, <1>3, <1>4, <1>5, <2>2 DEF Unsaved, Stored, Visible
  <2>3. CASE b \notin heap[ref[p]]
    BY <1>1, <1>2, <1>3, <1>4, <1>5, <2>1, <2>3 DEF Visible, TypeOK
  <2>4. QED
    BY <2>2, <2>3
<1>6. CASE ~Cached(c) \/ cache[c] # ref[p]
  BY <1>1, <1>3, <1>4, <1>6 DEF Unsaved, Stored, Visible, Cached
<1>7. QED
  BY <1>5, <1>6

(* A save of a chunk that is not lossy only adds blocks to what is stored  *)
(* of it, or tears that and is given up; when it succeeds, among them all  *)
(* that the delta held when the save began.                                *)
LEMMA WriteEffect ==
  ASSUME TypeOK, OneObject, MemoryAhead, WriteDelta \/ WriteFails, NEW c \in Chunks \ lossy
  PROVE  /\ c \notin torn' => Stored(c) \subseteq Stored(c)' /\ Unsaved(c)' \subseteq Unsaved(c)
         /\ Visible(c)' = Visible(c)
         /\ Cached(c) => Stored(c)' \subseteq heap[cache[c]]
         /\ c # flChunk => Stored(c)' = Stored(c) /\ Unsaved(c)' = Unsaved(c)
         /\ c = flChunk /\ WriteDelta => /\ flSnap \subseteq Stored(c)'
                                         /\ Unsaved(c)' \subseteq Unsaved(c)
                                         /\ Unsaved(c)' \cap flSnap = {}
<1>1. UNCHANGED <<heap, cache>> /\ flPc = "write" /\ Cached(c)' = Cached(c)
  BY DEF WriteDelta, WriteFails, WorkerUnchanged, Cached
<1>2. CASE c # flChunk
  <2>1. disk'[c] = disk[c] /\ (c \in torn' <=> c \in torn)
    BY <1>2 DEF WriteDelta, WriteFails, Torn, RegionWritten, TypeOK
  <2>2. QED
    BY <1>1, <1>2, <2>1 DEF Unsaved, Stored, Visible, MemoryAhead
<1>3. CASE c = flChunk
  <2>1. Cached(c) /\ flRef = cache[c] /\ Stored(c) \subseteq flSnap
    BY <1>1, <1>3 DEF OneObject, MemoryAhead
  <2>2. Visible(c)' = Visible(c)
    BY <1>1, <2>1 DEF Visible
  <2>3. CASE WriteDelta
    <3>1. c \notin torn' /\ flSnap \subseteq disk'[c] /\ disk'[c] \subseteq heap[cache[c]]
      BY <1>3, <2>1, <2>3 DEF WriteDelta, RegionWritten, TypeOK
    <3>2. Stored(c)' = disk'[c]
      BY <3>1 DEF Stored
    <3>3. QED
      BY <1>1, <1>3, <2>1, <2>2, <3>1, <3>2 DEF Unsaved
  <2>4. CASE WriteFails /\ ~WriteDelta
    <3>1. CASE Torn
      <4>1. c \in torn' /\ Stored(c)' = {}
        BY <1>3, <3>1 DEF Torn, Stored
      <4>2. QED
        BY <1>3, <2>2, <2>4, <4>1
    <3>2. CASE disk' = disk /\ torn' = torn
      BY <1>1, <1>3, <2>2, <2>4, <3>2 DEF Unsaved, Stored, MemoryAhead
    <3>3. CASE RegionWritten /\ torn' = torn
      <4>1. flSnap \subseteq disk'[c] /\ disk'[c] \subseteq heap[cache[c]]
        BY <1>3, <2>1, <3>3 DEF RegionWritten, TypeOK
      <4>2. QED
        BY <1>1, <1>3, <2>1, <2>2, <2>4, <3>3, <4>1 DEF Unsaved, Stored
    <3>4. QED
      BY <2>4, <3>1, <3>2, <3>3 DEF WriteFails
  <2>5. QED
    BY <2>3, <2>4
<1>4. QED
  BY <1>2, <1>3

(* ObjectsApart: only a lookup hands out a cached object, and PutDelta     *)
(* caches a new one.                                                       *)
LEMMA ObjectsApartStep ==
  ASSUME TypeOK, ObjectsApart, [Next]_vars
  PROVE  ObjectsApart'
<1> USE ConstantsAssumption DEF TypeOK, ObjectsApart, Cached, Procs
<1>1. ASSUME NEW p \in Savers, NEW c \in Chunks, NEW B \in SUBSET Blocks, SaveChunk(p, c, B)
      PROVE  ObjectsApart'
  BY <1>1 DEF SaveChunk, Lookup, Goto, Touched, CachedChunks, flushVars
<1>2. ASSUME NEW p \in Loaders, NEW c \in Chunks, LoadChunk(p, c)
      PROVE  ObjectsApart'
  BY <1>2 DEF LoadChunk, Lookup, Goto, flushVars
<1>3. ASSUME NEW p \in Procs, ReadRegion(p)
      PROVE  ObjectsApart'
  BY <1>3 DEF ReadRegion, Goto, flushVars
<1>4. ASSUME NEW p \in Savers, ReadRegionFails(p)
      PROVE  ObjectsApart'
  BY <1>4 DEF ReadRegionFails, Goto, flushVars
<1>5. ASSUME NEW p \in Procs, PutDelta(p)
      PROVE  ObjectsApart'
  <2>1. cache' = [cache EXCEPT ![chunk[p]] = NewDelta] /\ ref' = [ref EXCEPT ![p] = NewDelta]
    BY <1>5 DEF PutDelta
  <2>2. /\ NewDelta \in Deltas
        /\ \A c \in Chunks : cache[c] # NewDelta
        /\ \A q \in Procs : ref[q] # NewDelta
    BY <1>5, PutFacts
  <2>3. chunk' = chunk /\ \A q \in Procs \ {p} : pc'[q] = pc[q]
    BY <1>5 DEF PutDelta, Goto
  <2>4. QED
    BY <2>1, <2>2, <2>3
<1>6. ASSUME NEW p \in Savers, NEW b \in Blocks, SetBlock(p, b)
      PROVE  ObjectsApart'
  BY <1>6 DEF SetBlock, flushVars
<1>7. ASSUME NEW p \in Savers, SaveUnchanged(p)
      PROVE  ObjectsApart'
  BY <1>7 DEF SaveUnchanged, Acknowledge, Return, Goto, flushVars
<1>8. ASSUME NEW p \in Savers, MarkDeltaAsDirty(p)
      PROVE  ObjectsApart'
  BY <1>8 DEF MarkDeltaAsDirty, Goto, flushVars
<1>9. ASSUME NEW p \in Savers, QueueForSaving(p)
      PROVE  ObjectsApart'
  BY <1>9 DEF QueueForSaving, Acknowledge, Return, Goto, flushVars
<1>10. ASSUME NEW p \in Loaders, LoadNotFound(p)
      PROVE  ObjectsApart'
  BY <1>10 DEF LoadNotFound, Return, Goto, flushVars
<1>11. ASSUME NEW p \in Loaders, LoadReturns(p)
      PROVE  ObjectsApart'
  BY <1>11 DEF LoadReturns, Return, Goto, flushVars
<1>12. ASSUME TakeFromQueue \/ TakeDirtyKey \/ SaveDelta
      PROVE  ObjectsApart'
  BY <1>12 DEF TakeFromQueue, WorkerUnchanged, callVars, TakeDirtyKey,
     SaveDelta, SaveDeltaMisses, SaveDeltaReturns, SaveDeltaBegins, WriteDelta, WriteFails, Torn,
     RegionWritten, ClearDirty
<1>13. ASSUME NEW E \in SUBSET Chunks, CleanupUnusedDeltas(E)
      PROVE  ObjectsApart'
  BY <1>13 DEF CleanupUnusedDeltas, callVars, flushVars
<1>14. ASSUME Close \/ WorkerStops \/ CloseEnds \/ MapRaceAbort
      PROVE  ObjectsApart'
  BY <1>14 DEF Close, CloseUnchanged, callVars, flushVars, WorkerStops, CloseEnds,
     MapRaceAbort
<1>15. CASE UNCHANGED vars
  BY <1>15 DEF vars, callVars, flushVars
<1>16. QED
  BY <1>1, <1>2, <1>3, <1>4, <1>5, <1>6, <1>7, <1>8, <1>9, <1>10, <1>11, <1>12,
     <1>13, <1>14, <1>15
     DEF Next, Call, SaverStep, LoaderStep, SaveDelta, Procs

(* BlocksSet: SetBlock moves one block from todo to the object.            *)
LEMMA BlocksSetStep ==
  ASSUME TypeOK, BlocksSet, [Next]_vars
  PROVE  BlocksSet'
<1> USE ConstantsAssumption DEF TypeOK, BlocksSet, Procs
<1>1. ASSUME NEW p \in Savers, NEW c \in Chunks, NEW B \in SUBSET Blocks, SaveChunk(p, c, B)
      PROVE  BlocksSet'
  BY <1>1 DEF SaveChunk, Lookup, Goto, Touched, CachedChunks, flushVars
<1>2. ASSUME NEW p \in Loaders, NEW c \in Chunks, LoadChunk(p, c)
      PROVE  BlocksSet'
  BY <1>2 DEF LoadChunk, Lookup, Goto, flushVars
<1>3. ASSUME NEW p \in Procs, ReadRegion(p)
      PROVE  BlocksSet'
  BY <1>3 DEF ReadRegion, Goto, flushVars
<1>4. ASSUME NEW p \in Savers, ReadRegionFails(p)
      PROVE  BlocksSet'
  BY <1>4 DEF ReadRegionFails, Goto, flushVars
<1>5. ASSUME NEW p \in Procs, PutDelta(p)
      PROVE  BlocksSet'
  <2>1. pc[p] = "put" /\ UNCHANGED <<arg, todo, changed>>
    BY <1>5 DEF PutDelta
  <2>2. \A q \in Procs \ {p} : pc'[q] = pc[q] /\ ref'[q] = ref[q]
    BY <1>5 DEF PutDelta, Goto
  <2>3. pc'[p] \in {"set", "copy"}
    BY <1>5 DEF PutDelta, Goto
  <2>4. \A q \in Procs : ref[q] # NoDelta => heap'[ref[q]] = heap[ref[q]]
    BY <1>5, PutFacts
  <2>5. QED
    BY <2>1, <2>2, <2>3, <2>4
<1>6. ASSUME NEW p \in Savers, NEW b \in Blocks, SetBlock(p, b)
      PROVE  BlocksSet'
  BY <1>6 DEF SetBlock, flushVars
<1>7. ASSUME NEW p \in Savers, SaveUnchanged(p)
      PROVE  BlocksSet'
  BY <1>7 DEF SaveUnchanged, Acknowledge, Return, Goto, flushVars
<1>8. ASSUME NEW p \in Savers, MarkDeltaAsDirty(p)
      PROVE  BlocksSet'
  BY <1>8 DEF MarkDeltaAsDirty, Goto, flushVars
<1>9. ASSUME NEW p \in Savers, QueueForSaving(p)
      PROVE  BlocksSet'
  BY <1>9 DEF QueueForSaving, Acknowledge, Return, Goto, flushVars
<1>10. ASSUME NEW p \in Loaders, LoadNotFound(p)
      PROVE  BlocksSet'
  BY <1>10 DEF LoadNotFound, Return, Goto, flushVars
<1>11. ASSUME NEW p \in Loaders, LoadReturns(p)
      PROVE  BlocksSet'
  BY <1>11 DEF LoadReturns, Return, Goto, flushVars
<1>12. ASSUME TakeFromQueue \/ TakeDirtyKey \/ SaveDelta
      PROVE  BlocksSet'
  BY <1>12 DEF TakeFromQueue, WorkerUnchanged, callVars, TakeDirtyKey,
     SaveDelta, SaveDeltaMisses, SaveDeltaReturns, SaveDeltaBegins, WriteDelta, WriteFails, Torn,
     RegionWritten, ClearDirty
<1>13. ASSUME NEW E \in SUBSET Chunks, CleanupUnusedDeltas(E)
      PROVE  BlocksSet'
  BY <1>13 DEF CleanupUnusedDeltas, callVars, flushVars
<1>14. ASSUME Close \/ WorkerStops \/ CloseEnds \/ MapRaceAbort
      PROVE  BlocksSet'
  BY <1>14 DEF Close, CloseUnchanged, callVars, flushVars, WorkerStops, CloseEnds,
     MapRaceAbort
<1>15. CASE UNCHANGED vars
  BY <1>15 DEF vars, callVars, flushVars
<1>16. QED
  BY <1>1, <1>2, <1>3, <1>4, <1>5, <1>6, <1>7, <1>8, <1>9, <1>10, <1>11, <1>12,
     <1>13, <1>14, <1>15
     DEF Next, Call, SaverStep, LoaderStep, SaveDelta, Procs

(* OneObject: a second object needs a double miss or an eviction in use,   *)
(* and both make the chunk lossy.                                          *)
LEMMA OneObjectStep ==
  ASSUME TypeOK, TornIsCovered, ObjectsApart, BlocksSet, OneObject, [Next]_vars
  PROVE  OneObject'
<1> USE ConstantsAssumption DEF TypeOK, OneObject, Holding, InMissWindow, Cached, Procs
<1>1. ASSUME NEW p \in Savers, NEW c \in Chunks, NEW B \in SUBSET Blocks, SaveChunk(p, c, B)
      PROVE  OneObject'
  BY <1>1 DEF SaveChunk, Lookup, Goto, Touched, CachedChunks, flushVars
<1>2. ASSUME NEW p \in Loaders, NEW c \in Chunks, LoadChunk(p, c)
      PROVE  OneObject'
  BY <1>2 DEF LoadChunk, Lookup, Goto, flushVars
<1>3. ASSUME NEW p \in Procs, ReadRegion(p)
      PROVE  OneObject'
  BY <1>3 DEF ReadRegion, Goto, flushVars
<1>4. ASSUME NEW p \in Savers, ReadRegionFails(p)
      PROVE  OneObject'
  BY <1>4 DEF ReadRegionFails, Goto, flushVars
<1>5. ASSUME NEW p \in Procs, PutDelta(p)
      PROVE  OneObject'
  <2> SUFFICES ASSUME NEW c \in Chunks \ lossy'
               PROVE  /\ \A q \in Savers : Holding(q, c)' => Cached(c)' /\ ref'[q] = cache'[c]
                      /\ flPc' = "write" /\ flChunk' = c => Cached(c)' /\ flRef' = cache'[c]
                      /\ \A q \in Procs : InMissWindow(q, c)' => ~Cached(c)'
                      /\ \A q \in Procs : pc'[q] = "put" /\ chunk'[q] = c => got'[q] = disk'[c]
    OBVIOUS
  <2>1. /\ UNCHANGED <<disk, torn, chunk, flPc, flChunk, flRef>>
        /\ c \notin lossy
        /\ ref'[p] = NewDelta
        /\ \A q \in Procs \ {p} : pc'[q] = pc[q] /\ ref'[q] = ref[q] /\ got'[q] = got[q]
        /\ pc'[p] \in {"set", "copy"}
    BY <1>5 DEF PutDelta, Goto, flushVars
  <2>2. CASE c = chunk[p]
    <3>1. /\ ~Cached(c) /\ Cached(c)' /\ cache'[c] = NewDelta
          /\ \A q \in Procs : ~InMissWindow(q, c)'
      BY <1>5, <2>2, PutEffect
    <3>2. QED
      BY <2>1, <2>2, <3>1
  <2>3. CASE c # chunk[p]
    <3>1. cache'[c] = cache[c]
      BY <1>5, <2>3, PutEffect
    <3>2. QED
      BY <2>1, <2>3, <3>1
  <2>4. QED
    BY <2>2, <2>3
<1>6. ASSUME NEW p \in Savers, NEW b \in Blocks, SetBlock(p, b)
      PROVE  OneObject'
  BY <1>6 DEF SetBlock, flushVars
<1>7. ASSUME NEW p \in Savers, SaveUnchanged(p)
      PROVE  OneObject'
  BY <1>7 DEF SaveUnchanged, Acknowledge, Return, Goto, flushVars
<1>8. ASSUME NEW p \in Savers, MarkDeltaAsDirty(p)
      PROVE  OneObject'
  BY <1>8 DEF MarkDeltaAsDirty, Goto, flushVars
<1>9. ASSUME NEW p \in Savers, QueueForSaving(p)
      PROVE  OneObject'
  BY <1>9 DEF QueueForSaving, Acknowledge, Return, Goto, flushVars
<1>10. ASSUME NEW p \in Loaders, LoadNotFound(p)
      PROVE  OneObject'
  BY <1>10 DEF LoadNotFound, Return, Goto, flushVars
<1>11. ASSUME NEW p \in Loaders, LoadReturns(p)
      PROVE  OneObject'
  BY <1>11 DEF LoadReturns, Return, Goto, flushVars
<1>12. ASSUME TakeFromQueue \/ TakeDirtyKey \/ SaveDelta
      PROVE  OneObject'
  <2>1. CASE WriteDelta \/ WriteFails
    <3>1. /\ UNCHANGED <<heap, cache, pc, chunk, got, ref, lossy>>
          /\ flPc = "write" /\ flPc' # "write"
      BY <2>1 DEF WriteDelta, WriteFails, SaveDeltaReturns, WorkerUnchanged, callVars
    <3>2. \A c \in Chunks \ {flChunk} : disk'[c] = disk[c]
      BY <2>1 DEF WriteDelta, WriteFails, Torn, RegionWritten
    <3>3. QED
      BY <3>1, <3>2
  <2>2. CASE ~(WriteDelta \/ WriteFails)
    BY <1>12, <2>2 DEF TakeFromQueue, WorkerUnchanged, callVars, TakeDirtyKey, SaveDelta,
       SaveDeltaMisses, SaveDeltaReturns, SaveDeltaBegins, ClearDirty
  <2>3. QED
    BY <2>1, <2>2
<1>13. ASSUME NEW E \in SUBSET Chunks, CleanupUnusedDeltas(E)
      PROVE  OneObject'
  <2> SUFFICES ASSUME NEW c \in Chunks \ lossy'
               PROVE  /\ \A q \in Savers : Holding(q, c) => Cached(c)' /\ ref[q] = cache'[c]
                      /\ flPc = "write" /\ flChunk = c => Cached(c)' /\ flRef = cache'[c]
                      /\ \A q \in Procs : InMissWindow(q, c) => ~Cached(c)'
                      /\ \A q \in Procs : pc[q] = "put" /\ chunk[q] = c => got[q] = disk[c]
    BY <1>13 DEF CleanupUnusedDeltas, callVars, flushVars
  <2>1. c \notin lossy /\ (c \in E => ~InUse(c))
    BY <1>13 DEF CleanupUnusedDeltas
  <2>2. cache'[c] = IF c \in E THEN NoDelta ELSE cache[c]
    BY <1>13 DEF CleanupUnusedDeltas
  <2>3. CASE c \in E
    BY <2>1, <2>2, <2>3 DEF InUse, Flushing
  <2>4. CASE c \notin E
    BY <2>1, <2>2, <2>4
  <2>5. QED
    BY <2>3, <2>4
<1>14. ASSUME Close \/ WorkerStops \/ CloseEnds \/ MapRaceAbort
      PROVE  OneObject'
  BY <1>14 DEF Close, CloseUnchanged, callVars, flushVars, WorkerStops, CloseEnds,
     MapRaceAbort
<1>15. CASE UNCHANGED vars
  BY <1>15 DEF vars, callVars, flushVars
<1>16. QED
  BY <1>1, <1>2, <1>3, <1>4, <1>5, <1>6, <1>7, <1>8, <1>9, <1>10, <1>11, <1>12,
     <1>13, <1>14, <1>15
     DEF Next, Call, SaverStep, LoaderStep, SaveDelta, Procs

(* MemoryAhead: the disk only ever receives what the cached delta holds.   *)
LEMMA MemoryAheadStep ==
  ASSUME TypeOK, ObjectsApart, OneObject, MemoryAhead, TornIsCovered, [Next]_vars
  PROVE  MemoryAhead'
<1> USE ConstantsAssumption DEF TypeOK, MemoryAhead, Stored, Cached, Procs
<1>1. ASSUME NEW p \in Savers, NEW c \in Chunks, NEW B \in SUBSET Blocks, SaveChunk(p, c, B)
      PROVE  MemoryAhead'
  BY <1>1 DEF SaveChunk, Lookup, Goto, Touched, CachedChunks, flushVars
<1>2. ASSUME NEW p \in Loaders, NEW c \in Chunks, LoadChunk(p, c)
      PROVE  MemoryAhead'
  BY <1>2 DEF LoadChunk, Lookup, Goto, flushVars
<1>3. ASSUME NEW p \in Procs, ReadRegion(p)
      PROVE  MemoryAhead'
  BY <1>3 DEF ReadRegion, Goto, flushVars
<1>4. ASSUME NEW p \in Savers, ReadRegionFails(p)
      PROVE  MemoryAhead'
  BY <1>4 DEF ReadRegionFails, Goto, flushVars
<1>5. ASSUME NEW p \in Procs, PutDelta(p)
      PROVE  MemoryAhead'
  <2>1. UNCHANGED <<disk, torn, flPc, flChunk, flSnap>>
    BY <1>5 DEF PutDelta, flushVars
  <2>2. ASSUME NEW c \in Chunks \ lossy', Cached(c)'
        PROVE  Stored(c) \subseteq heap'[cache'[c]]
    <3>1. c \notin lossy /\ Visible(c)' = Visible(c)
      BY <1>5, <2>2, PutEffect
    <3>2. Stored(c) \subseteq Visible(c)
      BY <3>1 DEF Visible
    <3>3. QED
      BY <2>2, <3>1, <3>2 DEF Visible
  <2>3. lossy \subseteq lossy'
    BY <1>5 DEF PutDelta
  <2>4. QED
    BY <2>1, <2>2, <2>3
<1>6. ASSUME NEW p \in Savers, NEW b \in Blocks, SetBlock(p, b)
      PROVE  MemoryAhead'
  BY <1>6 DEF SetBlock, flushVars
<1>7. ASSUME NEW p \in Savers, SaveUnchanged(p)
      PROVE  MemoryAhead'
  BY <1>7 DEF SaveUnchanged, Acknowledge, Return, Goto, flushVars
<1>8. ASSUME NEW p \in Savers, MarkDeltaAsDirty(p)
      PROVE  MemoryAhead'
  BY <1>8 DEF MarkDeltaAsDirty, Goto, flushVars
<1>9. ASSUME NEW p \in Savers, QueueForSaving(p)
      PROVE  MemoryAhead'
  BY <1>9 DEF QueueForSaving, Acknowledge, Return, Goto, flushVars
<1>10. ASSUME NEW p \in Loaders, LoadNotFound(p)
      PROVE  MemoryAhead'
  BY <1>10 DEF LoadNotFound, Return, Goto, flushVars
<1>11. ASSUME NEW p \in Loaders, LoadReturns(p)
      PROVE  MemoryAhead'
  BY <1>11 DEF LoadReturns, Return, Goto, flushVars
<1>12. ASSUME TakeFromQueue \/ TakeDirtyKey \/ SaveDeltaMisses \/ SaveDeltaBegins
      PROVE  MemoryAhead'
  BY <1>12 DEF TakeFromQueue, WorkerUnchanged, callVars, TakeDirtyKey,
     SaveDeltaMisses, SaveDeltaReturns, SaveDeltaBegins
<1>13. ASSUME WriteDelta \/ WriteFails PROVE MemoryAhead'
  <2>1. UNCHANGED <<heap, cache, lossy>> /\ flPc' # "write"
    BY <1>13 DEF WriteDelta, WriteFails, Torn, SaveDeltaReturns, WorkerUnchanged
  <2>2. ASSUME NEW c \in Chunks \ lossy, Cached(c) PROVE Stored(c)' \subseteq heap[cache[c]]
    BY <1>13, <2>2, WriteEffect
  <2>3. QED
    BY <2>1, <2>2
<1>14. ASSUME ClearDirty PROVE MemoryAhead'
  BY <1>14 DEF SaveDeltaReturns, WorkerUnchanged, callVars, ClearDirty
<1>15. ASSUME NEW E \in SUBSET Chunks, CleanupUnusedDeltas(E)
      PROVE  MemoryAhead'
  BY <1>15 DEF CleanupUnusedDeltas, callVars, flushVars
<1>16. ASSUME Close \/ WorkerStops \/ CloseEnds \/ MapRaceAbort
      PROVE  MemoryAhead'
  BY <1>16 DEF Close, CloseUnchanged, callVars, flushVars, WorkerStops, CloseEnds,
     MapRaceAbort
<1>17. CASE UNCHANGED vars
  BY <1>17 DEF vars, callVars, flushVars
<1>18. QED
  BY <1>1, <1>2, <1>3, <1>4, <1>5, <1>6, <1>7, <1>8, <1>9, <1>10, <1>11, <1>12,
     <1>13, <1>14, <1>15, <1>16, <1>17
     DEF Next, Call, SaverStep, LoaderStep, SaveDelta, Procs

(* TornIsCovered: only a write that fails tears, of a cached delta, and no *)
(* eviction of a torn chunk leaves it among those not lossy.               *)
LEMMA TornIsCoveredStep ==
  ASSUME TypeOK, OneObject, TornIsCovered, [Next]_vars
  PROVE  TornIsCovered'
<1> USE DEF TypeOK, TornIsCovered, Cached
<1>1. ASSUME NEW p \in Procs, PutDelta(p) PROVE TornIsCovered'
  <2>1. /\ UNCHANGED <<torn, skipped, flPc, flChunk>> /\ lossy \subseteq lossy'
        /\ cache' = [cache EXCEPT ![chunk[p]] = NewDelta]
    BY <1>1 DEF PutDelta, flushVars
  <2>2. NewDelta \in Deltas
    BY <1>1, PutFacts
  <2>3. QED
    BY <2>1, <2>2, ConstantsAssumption
<1>2. ASSUME NEW p \in Savers, QueueForSaving(p) PROVE TornIsCovered'
  BY <1>2 DEF QueueForSaving, flushVars
<1>3. ASSUME TakeFromQueue \/ TakeDirtyKey PROVE TornIsCovered'
  BY <1>3 DEF TakeFromQueue, TakeDirtyKey, WorkerUnchanged
<1>4. ASSUME SaveDeltaMisses \/ SaveDeltaBegins \/ ClearDirty PROVE TornIsCovered'
  BY <1>4 DEF SaveDeltaMisses, SaveDeltaBegins, ClearDirty, SaveDeltaReturns, WorkerUnchanged
<1>5. ASSUME WriteDelta PROVE TornIsCovered'
  BY <1>5 DEF WriteDelta, WorkerUnchanged
<1>6. ASSUME WriteFails PROVE TornIsCovered'
  <2>1. /\ UNCHANGED <<cache, lossy>> /\ skipped' = skipped \cup {flChunk} /\ flPc = "write"
        /\ torn' \subseteq torn \cup {flChunk}
    BY <1>6 DEF WriteFails, Torn, WorkerUnchanged
  <2>2. flChunk \in Chunks \ lossy => Cached(flChunk)
    BY <2>1 DEF OneObject
  <2>3. QED
    BY <2>1, <2>2
<1>7. ASSUME NEW E \in SUBSET Chunks, CleanupUnusedDeltas(E) PROVE TornIsCovered'
  BY <1>7 DEF CleanupUnusedDeltas, flushVars
<1>8. ASSUME Close \/ WorkerStops \/ CloseEnds \/ MapRaceAbort PROVE TornIsCovered'
  BY <1>8 DEF Close, WorkerStops, CloseEnds, MapRaceAbort, CloseUnchanged, flushVars
<1>9. ASSUME NEW p \in Procs,
             \/ \E c \in Chunks, B \in SUBSET Blocks : SaveChunk(p, c, B)
             \/ \E c \in Chunks : LoadChunk(p, c)
             \/ ReadRegion(p) \/ ReadRegionFails(p) \/ LoadNotFound(p) \/ LoadReturns(p)
             \/ \E b \in Blocks : SetBlock(p, b)
             \/ SaveUnchanged(p) \/ MarkDeltaAsDirty(p)
      PROVE  TornIsCovered'
  BY <1>9 DEF SaveChunk, LoadChunk, Lookup, ReadRegion, ReadRegionFails, LoadNotFound,
     LoadReturns, SetBlock, SaveUnchanged, MarkDeltaAsDirty, flushVars
<1>10. CASE UNCHANGED vars
  BY <1>10 DEF vars, flushVars
<1>11. QED
  BY <1>1, <1>2, <1>3, <1>4, <1>5, <1>6, <1>7, <1>8, <1>9, <1>10
     DEF Next, Call, SaverStep, LoaderStep, SaveDelta, Procs

(* ReadYourWrites: a call is acknowledged when its blocks are in the object *)
(* it holds, which is the cached one; an eviction needs a clean delta out   *)
(* of use, whose blocks are on disk by the two covering invariants.         *)
LEMMA ReadYourWritesStep ==
  ASSUME TypeOK, ObjectsApart, BlocksSet, OneObject, MemoryAhead, TornIsCovered,
         QueueCoversUnsaved, DirtyCoversUnsaved, ReadYourWrites, [Next]_vars
  PROVE  ReadYourWrites'
<1> USE ConstantsAssumption DEF TypeOK, ReadYourWrites, Visible, Cached, Procs
<1>1. ASSUME NEW p \in Savers, NEW c \in Chunks, NEW B \in SUBSET Blocks, SaveChunk(p, c, B)
      PROVE  ReadYourWrites'
  BY <1>1 DEF SaveChunk, Lookup, Goto, Touched, CachedChunks, flushVars
<1>2. ASSUME NEW p \in Loaders, NEW c \in Chunks, LoadChunk(p, c)
      PROVE  ReadYourWrites'
  BY <1>2 DEF LoadChunk, Lookup, Goto, flushVars
<1>3. ASSUME NEW p \in Procs, ReadRegion(p)
      PROVE  ReadYourWrites'
  BY <1>3 DEF ReadRegion, Goto, flushVars
<1>4. ASSUME NEW p \in Savers, ReadRegionFails(p)
      PROVE  ReadYourWrites'
  BY <1>4 DEF ReadRegionFails, Goto, flushVars
<1>5. ASSUME NEW p \in Procs, PutDelta(p)
      PROVE  ReadYourWrites'
  <2>1. ASSUME NEW c \in Chunks \ lossy' PROVE acked'[c] \subseteq Visible(c)'
    <3>1. c \notin lossy /\ Visible(c)' = Visible(c)
      BY <1>5, PutEffect
    <3>2. acked' = acked
      BY <1>5 DEF PutDelta
    <3>3. acked[c] \subseteq Visible(c)
      BY <3>1
    <3>4. QED
      BY <3>1, <3>2, <3>3
  <2>2. QED
    BY <2>1
<1>6. ASSUME NEW p \in Savers, NEW b \in Blocks, SetBlock(p, b)
      PROVE  ReadYourWrites'
  <2>1. UNCHANGED <<acked, lossy>>
    BY <1>6 DEF SetBlock
  <2>2. ASSUME NEW c \in Chunks \ lossy PROVE acked[c] \subseteq Visible(c)'
    <3>1. Visible(c) \subseteq Visible(c)'
      BY <1>6, SetEffect
    <3>2. acked[c] \subseteq Visible(c)
      OBVIOUS
    <3>3. QED
      BY <3>1, <3>2
  <2>3. QED
    BY <2>1, <2>2
<1>7. ASSUME NEW p \in Savers, SaveUnchanged(p)
      PROVE  ReadYourWrites'
  <2>1. UNCHANGED <<heap, cache, disk, torn, lossy>>
    BY <1>7 DEF SaveUnchanged
  <2>2. acked' = [acked EXCEPT ![chunk[p]] = @ \cup arg[p]] /\ chunk[p] \in Chunks
    BY <1>7 DEF SaveUnchanged, Acknowledge
  <2>3. arg[p] \subseteq heap[ref[p]] /\ Holding(p, chunk[p])
    BY <1>7 DEF SaveUnchanged, BlocksSet, Holding
  <2>4. chunk[p] \notin lossy => arg[p] \subseteq Visible(chunk[p])
    BY <2>2, <2>3 DEF OneObject
  <2>5. QED
    BY <2>1, <2>2, <2>4
<1>8. ASSUME NEW p \in Savers, MarkDeltaAsDirty(p)
      PROVE  ReadYourWrites'
  BY <1>8 DEF MarkDeltaAsDirty, Goto, flushVars
<1>9. ASSUME NEW p \in Savers, QueueForSaving(p)
      PROVE  ReadYourWrites'
  <2>1. UNCHANGED <<heap, cache, disk, torn, lossy>>
    BY <1>9 DEF QueueForSaving
  <2>2. acked' = [acked EXCEPT ![chunk[p]] = @ \cup arg[p]] /\ chunk[p] \in Chunks
    BY <1>9 DEF QueueForSaving, Acknowledge
  <2>3. arg[p] \subseteq heap[ref[p]] /\ Holding(p, chunk[p])
    BY <1>9 DEF QueueForSaving, BlocksSet, Holding
  <2>4. chunk[p] \notin lossy => arg[p] \subseteq Visible(chunk[p])
    BY <2>2, <2>3 DEF OneObject
  <2>5. QED
    BY <2>1, <2>2, <2>4
<1>10. ASSUME NEW p \in Loaders, LoadNotFound(p)
      PROVE  ReadYourWrites'
  BY <1>10 DEF LoadNotFound, Return, Goto, flushVars
<1>11. ASSUME NEW p \in Loaders, LoadReturns(p)
      PROVE  ReadYourWrites'
  BY <1>11 DEF LoadReturns, Return, Goto, flushVars
<1>12. ASSUME TakeFromQueue \/ TakeDirtyKey \/ SaveDeltaMisses \/ SaveDeltaBegins
      PROVE  ReadYourWrites'
  BY <1>12 DEF TakeFromQueue, WorkerUnchanged, callVars, TakeDirtyKey,
     SaveDeltaMisses, SaveDeltaReturns, SaveDeltaBegins
<1>13. ASSUME WriteDelta \/ WriteFails PROVE ReadYourWrites'
  <2>1. UNCHANGED <<acked, lossy>>
    BY <1>13 DEF WriteDelta, WriteFails, Torn, WorkerUnchanged
  <2>2. ASSUME NEW c \in Chunks \ lossy PROVE acked[c] \subseteq Visible(c)'
    <3>1. Visible(c)' = Visible(c)
      BY <1>13, WriteEffect
    <3>2. acked[c] \subseteq Visible(c)
      OBVIOUS
    <3>3. QED
      BY <3>1, <3>2
  <2>3. QED
    BY <2>1, <2>2
<1>14. ASSUME ClearDirty PROVE ReadYourWrites'
  BY <1>14 DEF SaveDeltaReturns, WorkerUnchanged, callVars, ClearDirty
<1>15. ASSUME NEW E \in SUBSET Chunks, CleanupUnusedDeltas(E)
      PROVE  ReadYourWrites'
  <2>1. UNCHANGED <<heap, disk, torn, acked>>
    BY <1>15 DEF CleanupUnusedDeltas
  <2>2. ASSUME NEW c \in Chunks \ lossy', c \in E PROVE acked[c] \subseteq disk[c]
    <3>1. /\ c \notin lossy /\ ~InUse(c) /\ c \notin skipped \cap remarked /\ c \notin torn
          /\ Cached(c) /\ c \notin dirty
      BY <1>15, <2>2 DEF CleanupUnusedDeltas, CleanDeltas, CachedChunks
    <3>2. c \notin skipped => Unsaved(c) = {}
      BY <3>1 DEF QueueCoversUnsaved, Covered, InUse, Flushing
    <3>3. c \notin remarked => Unsaved(c) = {}
      BY <3>1 DEF DirtyCoversUnsaved, AboutToMark, InUse, Holding
    <3>4. heap[cache[c]] \subseteq disk[c]
      BY <3>1, <3>2, <3>3 DEF Unsaved, Stored
    <3>5. QED
      BY <3>1, <3>4
  <2>3. ASSUME NEW c \in Chunks \ lossy', c \notin E PROVE acked[c] \subseteq Visible(c)'
    BY <1>15, <2>1, <2>3 DEF CleanupUnusedDeltas
  <2>4. \A c \in E : Visible(c)' = disk[c]
    BY <1>15, <2>1 DEF CleanupUnusedDeltas
  <2>5. QED
    BY <2>1, <2>2, <2>3, <2>4
<1>16. ASSUME Close \/ WorkerStops \/ CloseEnds \/ MapRaceAbort
      PROVE  ReadYourWrites'
  BY <1>16 DEF Close, CloseUnchanged, callVars, flushVars, WorkerStops, CloseEnds,
     MapRaceAbort
<1>17. CASE UNCHANGED vars
  BY <1>17 DEF vars, callVars, flushVars
<1>18. QED
  BY <1>1, <1>2, <1>3, <1>4, <1>5, <1>6, <1>7, <1>8, <1>9, <1>10, <1>11, <1>12,
     <1>13, <1>14, <1>15, <1>16, <1>17
     DEF Next, Call, SaverStep, LoaderStep, SaveDelta, Procs

(* QueueCoversUnsaved: a block set is covered by its caller, then by the    *)
(* queue entry, then by the save that takes the entry.                      *)
LEMMA QueueCoversStep ==
  ASSUME TypeOK, ObjectsApart, BlocksSet, OneObject, MemoryAhead, TornIsCovered, QueueCoversUnsaved, [Next]_vars
  PROVE  QueueCoversUnsaved'
<1> USE ConstantsAssumption
    DEF TypeOK, QueueCoversUnsaved, Covered, Unsaved, Stored, Queued, Holding, Cached, Procs
<1>1. ASSUME NEW p \in Savers, NEW c \in Chunks, NEW B \in SUBSET Blocks, SaveChunk(p, c, B)
      PROVE  QueueCoversUnsaved'
  <2>1. UNCHANGED <<heap, cache, disk, torn, queue, flPc, flChunk, flSnap, lossy, skipped>>
    BY <1>1 DEF SaveChunk, Lookup, flushVars
  <2>2. \A q \in Savers : pc[q] \in {"set", "marked"} =>
           /\ pc'[q] = pc[q] /\ chunk'[q] = chunk[q] /\ changed'[q] = changed[q]
    BY <1>1 DEF SaveChunk, Lookup, Goto
  <2>3. ASSUME NEW e \in Chunks, NEW b \in Blocks, Covered(e, b) PROVE Covered(e, b)'
    BY <2>1, <2>2, <2>3
  <2>4. \A e \in Chunks : Unsaved(e)' = Unsaved(e) /\ Unsaved(e) \subseteq Blocks
    BY <2>1
  <2>5. QED
    BY <2>1, <2>3, <2>4
<1>2. ASSUME NEW p \in Loaders, NEW c \in Chunks, LoadChunk(p, c)
      PROVE  QueueCoversUnsaved'
  BY <1>2 DEF LoadChunk, Lookup, Goto, flushVars
<1>3. ASSUME NEW p \in Procs, ReadRegion(p)
      PROVE  QueueCoversUnsaved'
  BY <1>3 DEF ReadRegion, Goto, flushVars
<1>4. ASSUME NEW p \in Savers, ReadRegionFails(p)
      PROVE  QueueCoversUnsaved'
  BY <1>4 DEF ReadRegionFails, Goto, flushVars
<1>5. ASSUME NEW p \in Procs, PutDelta(p)
      PROVE  QueueCoversUnsaved'
  <2>1. /\ UNCHANGED <<queue, chunk, changed, flPc, flChunk, flSnap, skipped>>
        /\ \A q \in Savers : pc[q] \in {"set", "marked"} => pc'[q] = pc[q]
    BY <1>5 DEF PutDelta, Goto, flushVars
  <2>2. \A c \in Chunks \ lossy' : c \notin lossy /\ Unsaved(c)' = Unsaved(c)
    BY <1>5, PutEffect
  <2>3. QED
    BY <2>1, <2>2
<1>6. ASSUME NEW p \in Savers, NEW b \in Blocks, SetBlock(p, b)
      PROVE  QueueCoversUnsaved'
  <2>1. UNCHANGED <<queue, pc, chunk, flPc, flChunk, flSnap, skipped, lossy>>
    BY <1>6 DEF SetBlock, flushVars
  <2>2. \A q \in Savers : changed[q] => changed'[q]
    BY <1>6 DEF SetBlock
  <2>3. \A c \in Chunks \ lossy :
           Unsaved(c)' = Unsaved(c) \/ (chunk'[p] = c /\ pc'[p] = "set" /\ changed'[p])
    BY <1>6, SetEffect
  <2>4. QED
    BY <2>1, <2>2, <2>3
<1>7. ASSUME NEW p \in Savers, SaveUnchanged(p)
      PROVE  QueueCoversUnsaved'
  <2>1. /\ UNCHANGED <<heap, cache, disk, torn, queue, flPc, flChunk, flSnap, lossy, skipped>>
        /\ ~changed[p]
        /\ \A q \in Savers \ {p} :
             pc'[q] = pc[q] /\ chunk'[q] = chunk[q] /\ changed'[q] = changed[q]
    BY <1>7 DEF SaveUnchanged, Acknowledge, Return, Goto, flushVars
  <2>2. ASSUME NEW c \in Chunks \ (lossy \cup skipped), NEW b0 \in Unsaved(c)
        PROVE  Covered(c, b0)'
    <3>1. Covered(c, b0)
      BY <2>2 DEF QueueCoversUnsaved
    <3>2. QED
      BY <2>1, <3>1
  <2>3. QED
    BY <2>1, <2>2
<1>8. ASSUME NEW p \in Savers, MarkDeltaAsDirty(p)
      PROVE  QueueCoversUnsaved'
  BY <1>8 DEF MarkDeltaAsDirty, Goto, flushVars
<1>9. ASSUME NEW p \in Savers, QueueForSaving(p)
      PROVE  QueueCoversUnsaved'
  <2>1. /\ UNCHANGED <<heap, cache, disk, torn, flPc, flChunk, flSnap, lossy>>
        /\ chunk[p] \in Chunks
        /\ \A q \in Savers \ {p} :
             pc'[q] = pc[q] /\ chunk'[q] = chunk[q] /\ changed'[q] = changed[q]
    BY <1>9 DEF QueueForSaving, Acknowledge, Return, Goto, flushVars
  <2>2. /\ skipped \subseteq skipped'
        /\ \A c \in Chunks : Queued(c) => Queued(c)'
        /\ \A c \in Chunks : c = chunk[p] => c \in skipped' \/ Queued(c)'
    <3>1. CASE Len(queue) < QueueCap
      <4>1. queue' = Append(queue, chunk[p]) /\ skipped' = skipped
        BY <1>9, <3>1 DEF QueueForSaving
      <4>2. /\ queue' \in Seq(Chunks) /\ Len(queue') = Len(queue) + 1
            /\ queue'[Len(queue) + 1] = chunk[p]
            /\ \A i \in 1..Len(queue) : queue'[i] = queue[i]
        BY <2>1, <4>1, AppendQueue
      <4>3. Len(queue) \in Nat
        OBVIOUS
      <4>4. ASSUME NEW c \in Chunks, Queued(c) PROVE Queued(c)'
        <5>1. PICK i \in 1..Len(queue) : queue[i] = c
          BY <4>4
        <5>2. i \in 1..Len(queue') /\ queue'[i] = c
          BY <4>2, <4>3, <5>1
        <5>3. QED
          BY <5>2
      <4>5. Len(queue) + 1 \in 1..Len(queue')
        BY <4>2, <4>3
      <4>6. QED
        BY <4>1, <4>2, <4>4, <4>5
    <3>2. CASE ~(Len(queue) < QueueCap)
      BY <1>9, <3>2 DEF QueueForSaving
    <3>3. QED
      BY <3>1, <3>2
  <2>3. ASSUME NEW c \in Chunks \ (lossy' \cup skipped'), NEW b0 \in Unsaved(c)'
        PROVE  Covered(c, b0)'
    <3>1. b0 \in Unsaved(c) /\ c \notin lossy \cup skipped
      BY <2>1, <2>2, <2>3
    <3>2. Covered(c, b0)
      BY <3>1 DEF Covered
    <3>3. CASE chunk[p] = c
      BY <2>2, <2>3, <3>3 DEF Covered
    <3>4. CASE chunk[p] # c
      BY <2>1, <2>2, <3>2, <3>4 DEF Covered
    <3>5. QED
      BY <3>3, <3>4
  <2>4. QED
    BY <2>3 DEF Covered
<1>10. ASSUME NEW p \in Loaders, LoadNotFound(p)
      PROVE  QueueCoversUnsaved'
  BY <1>10 DEF LoadNotFound, Return, Goto, flushVars
<1>11. ASSUME NEW p \in Loaders, LoadReturns(p)
      PROVE  QueueCoversUnsaved'
  BY <1>11 DEF LoadReturns, Return, Goto, flushVars
<1>12. ASSUME TakeFromQueue PROVE QueueCoversUnsaved'
  <2>1. /\ UNCHANGED <<heap, cache, disk, torn, pc, chunk, changed, lossy, skipped>>
        /\ flPc = "idle" /\ flPc' = "lookup" /\ flChunk' = Head(queue)
        /\ queue' = Tail(queue) /\ queue # <<>>
    BY <1>12 DEF TakeFromQueue, WorkerUnchanged, callVars
  <2>2. ASSUME NEW c \in Chunks, Queued(c) PROVE Queued(c)' \/ flChunk' = c
    <3>1. PICK i \in 1..Len(queue) : queue[i] = c
      BY <2>2 DEF Queued
    <3>2. CASE i = 1
      BY <2>1, <3>1, <3>2, TailQueue
    <3>3. CASE i # 1
      <4>1. i \in 2..Len(queue)
        BY <3>1, <3>3
      <4>2. i - 1 \in 1..Len(Tail(queue)) /\ Tail(queue)[i - 1] = c
        BY <2>1, <3>1, <4>1, TailQueue
      <4>3. QED
        BY <2>1, <4>2 DEF Queued
    <3>4. QED
      BY <3>2, <3>3
  <2>3. QED
    BY <2>1, <2>2
<1>13. ASSUME TakeDirtyKey PROVE QueueCoversUnsaved'
  BY <1>13 DEF TakeDirtyKey, WorkerUnchanged, callVars
<1>14. ASSUME SaveDeltaMisses PROVE QueueCoversUnsaved'
  BY <1>14 DEF SaveDeltaMisses, SaveDeltaReturns, WorkerUnchanged, callVars
<1>15. ASSUME SaveDeltaBegins PROVE QueueCoversUnsaved'
  BY <1>15 DEF SaveDeltaBegins, WorkerUnchanged, callVars
<1>16. ASSUME WriteDelta PROVE QueueCoversUnsaved'
  <2>1. UNCHANGED <<queue, pc, chunk, changed, lossy, skipped, flChunk>> /\ flPc = "write"
    BY <1>16 DEF WriteDelta, WorkerUnchanged, callVars
  <2>2. \A c \in Chunks \ lossy : /\ Unsaved(c)' \subseteq Unsaved(c)
                                  /\ c = flChunk => Unsaved(c)' \cap flSnap = {}
    <3>1. ASSUME NEW c \in Chunks \ lossy, c # flChunk PROVE Unsaved(c)' = Unsaved(c)
      BY <1>16, <3>1, WriteEffect
    <3>2. ASSUME NEW c \in Chunks \ lossy, c = flChunk
          PROVE  Unsaved(c)' \subseteq Unsaved(c) /\ Unsaved(c)' \cap flSnap = {}
      BY <1>16, <3>2, WriteEffect
    <3>3. QED
      BY <3>1, <3>2
  <2>3. ASSUME NEW c \in Chunks \ (lossy \cup skipped), NEW b0 \in Unsaved(c)'
        PROVE  Covered(c, b0)'
    <3>1. b0 \in Unsaved(c)
      BY <2>2
    <3>2. Covered(c, b0)
      BY <3>1 DEF Covered
    <3>3. ~(flPc = "write" /\ flChunk = c /\ b0 \in flSnap)
      BY <2>2
    <3>4. QED
      BY <2>1, <3>2, <3>3 DEF Covered
  <2>4. QED
    BY <2>1, <2>3 DEF Covered
<1>17. ASSUME WriteFails PROVE QueueCoversUnsaved'
  <2>1. /\ UNCHANGED <<queue, pc, chunk, changed, lossy>>
        /\ flPc = "write" /\ skipped' = skipped \cup {flChunk}
    BY <1>17 DEF WriteFails, Torn, WorkerUnchanged, callVars
  <2>2. \A c \in Chunks \ (lossy \cup {flChunk}) : Unsaved(c)' = Unsaved(c)
    BY <1>17, WriteEffect
  <2>3. QED
    BY <2>1, <2>2
<1>18. ASSUME ClearDirty PROVE QueueCoversUnsaved'
  BY <1>18 DEF ClearDirty, SaveDeltaReturns, WorkerUnchanged, callVars
<1>19. ASSUME NEW E \in SUBSET Chunks, CleanupUnusedDeltas(E)
      PROVE  QueueCoversUnsaved'
  BY <1>19 DEF CleanupUnusedDeltas, callVars, flushVars
<1>20. ASSUME Close \/ WorkerStops \/ CloseEnds \/ MapRaceAbort
      PROVE  QueueCoversUnsaved'
  BY <1>20 DEF Close, CloseUnchanged, callVars, flushVars, WorkerStops, CloseEnds,
     MapRaceAbort
<1>21. CASE UNCHANGED vars
  BY <1>21 DEF vars, callVars, flushVars
<1>22. QED
  BY <1>1, <1>2, <1>3, <1>4, <1>5, <1>6, <1>7, <1>8, <1>9, <1>10, <1>11, <1>12,
     <1>13, <1>14, <1>15, <1>16, <1>17, <1>18, <1>19, <1>20, <1>21
     DEF Next, Call, SaverStep, LoaderStep, SaveDelta, Procs

(* DirtyCoversUnsaved: the key is removed after a save, whose leftovers     *)
(* SaveCovers has assigned to a caller that will put the key back.          *)
LEMMA DirtyCoversStep ==
  ASSUME TypeOK, ObjectsApart, BlocksSet, OneObject, MemoryAhead, TornIsCovered, SaveCovers,
         DirtyCoversUnsaved, [Next]_vars
  PROVE  DirtyCoversUnsaved'
<1> USE ConstantsAssumption DEF TypeOK, DirtyCoversUnsaved, AboutToMark, Unsaved, Stored, Cached, Procs
<1>1. ASSUME NEW p \in Savers, NEW c \in Chunks, NEW B \in SUBSET Blocks, SaveChunk(p, c, B)
      PROVE  DirtyCoversUnsaved'
  <2>1. UNCHANGED <<heap, cache, disk, torn, dirty, lossy, remarked>>
    BY <1>1 DEF SaveChunk, Lookup
  <2>2. \A q \in Savers : pc[q] = "set" =>
           /\ pc'[q] = pc[q] /\ chunk'[q] = chunk[q] /\ changed'[q] = changed[q]
    BY <1>1 DEF SaveChunk, Lookup, Goto
  <2>3. ASSUME NEW e \in Chunks, AboutToMark(e) PROVE AboutToMark(e)'
    BY <2>2, <2>3
  <2>4. \A e \in Chunks : Unsaved(e)' = Unsaved(e)
    BY <2>1
  <2>5. QED
    BY <2>1, <2>3, <2>4
<1>2. ASSUME NEW p \in Loaders, NEW c \in Chunks, LoadChunk(p, c)
      PROVE  DirtyCoversUnsaved'
  BY <1>2 DEF LoadChunk, Lookup, Goto, flushVars
<1>3. ASSUME NEW p \in Procs, ReadRegion(p)
      PROVE  DirtyCoversUnsaved'
  BY <1>3 DEF ReadRegion, Goto, flushVars
<1>4. ASSUME NEW p \in Savers, ReadRegionFails(p)
      PROVE  DirtyCoversUnsaved'
  BY <1>4 DEF ReadRegionFails, Goto, flushVars
<1>5. ASSUME NEW p \in Procs, PutDelta(p)
      PROVE  DirtyCoversUnsaved'
  <2>1. /\ UNCHANGED <<dirty, torn, chunk, changed, remarked>>
        /\ \A q \in Savers : pc[q] = "set" => pc'[q] = pc[q]
    BY <1>5 DEF PutDelta, Goto
  <2>2. \A c \in Chunks \ lossy' : c \notin lossy /\ Unsaved(c)' = Unsaved(c)
    BY <1>5, PutEffect
  <2>3. QED
    BY <2>1, <2>2
<1>6. ASSUME NEW p \in Savers, NEW b \in Blocks, SetBlock(p, b)
      PROVE  DirtyCoversUnsaved'
  <2>1. UNCHANGED <<dirty, torn, pc, chunk, remarked, lossy>>
    BY <1>6 DEF SetBlock
  <2>2. \A q \in Savers : changed[q] => changed'[q]
    BY <1>6 DEF SetBlock
  <2>3. \A c \in Chunks \ lossy :
           Unsaved(c)' = Unsaved(c) \/ (chunk'[p] = c /\ pc'[p] = "set" /\ changed'[p])
    BY <1>6, SetEffect
  <2>4. QED
    BY <2>1, <2>2, <2>3
<1>7. ASSUME NEW p \in Savers, SaveUnchanged(p)
      PROVE  DirtyCoversUnsaved'
  <2>1. /\ UNCHANGED <<heap, cache, disk, torn, dirty, lossy, remarked>>
        /\ \A q \in Savers : pc[q] = "set" /\ changed[q] =>
             pc'[q] = pc[q] /\ chunk'[q] = chunk[q] /\ changed'[q] = changed[q]
    BY <1>7 DEF SaveUnchanged, Acknowledge, Return, Goto
  <2>2. \A c \in Chunks : Unsaved(c)' = Unsaved(c)
    BY <2>1
  <2>3. ASSUME NEW c \in Chunks, AboutToMark(c) PROVE AboutToMark(c)'
    BY <2>1, <2>3
  <2>4. QED
    BY <2>1, <2>2, <2>3
<1>8. ASSUME NEW p \in Savers, MarkDeltaAsDirty(p)
      PROVE  DirtyCoversUnsaved'
  BY <1>8 DEF MarkDeltaAsDirty, Goto, flushVars
<1>9. ASSUME NEW p \in Savers, QueueForSaving(p)
      PROVE  DirtyCoversUnsaved'
  BY <1>9 DEF QueueForSaving, Acknowledge, Return, Goto, flushVars
<1>10. ASSUME NEW p \in Loaders, LoadNotFound(p)
      PROVE  DirtyCoversUnsaved'
  BY <1>10 DEF LoadNotFound, Return, Goto, flushVars
<1>11. ASSUME NEW p \in Loaders, LoadReturns(p)
      PROVE  DirtyCoversUnsaved'
  BY <1>11 DEF LoadReturns, Return, Goto, flushVars
<1>12. ASSUME TakeFromQueue \/ TakeDirtyKey \/ SaveDeltaMisses \/ SaveDeltaBegins
      PROVE  DirtyCoversUnsaved'
  BY <1>12 DEF TakeFromQueue, WorkerUnchanged, callVars, TakeDirtyKey,
     SaveDeltaMisses, SaveDeltaReturns, SaveDeltaBegins
<1>13. ASSUME WriteDelta \/ WriteFails PROVE DirtyCoversUnsaved'
  <2>1. /\ UNCHANGED <<dirty, pc, chunk, changed, lossy, remarked>>
        /\ flPc = "write"
        /\ \A c \in torn : c \notin torn' => WriteDelta /\ c = flChunk
    BY <1>13 DEF WriteDelta, WriteFails, Torn, WorkerUnchanged, callVars
  <2>2. ASSUME NEW c \in Chunks \ (lossy \cup remarked \cup torn'), Unsaved(c)' # {}
        PROVE  c \in dirty \/ AboutToMark(c)
    <3>1. Unsaved(c)' \subseteq Unsaved(c)
      BY <1>13, <2>2, WriteEffect
    <3>2. CASE c \notin torn
      BY <2>2, <3>1, <3>2
    <3>3. CASE c \in torn
      <4>1. WriteDelta /\ c = flChunk
        BY <2>1, <2>2, <3>3
      <4>2. Unsaved(c)' \cap flSnap = {}
        BY <2>2, <4>1, WriteEffect
      <4>3. PICK b \in Unsaved(c) : b \notin flSnap
        BY <2>2, <3>1, <4>2
      <4>4. QED
        BY <2>1, <2>2, <4>1, <4>3 DEF SaveCovers
    <3>4. QED
      BY <3>2, <3>3
  <2>3. QED
    BY <2>1, <2>2
<1>15. ASSUME ClearDirty PROVE DirtyCoversUnsaved'
  <2>1. /\ UNCHANGED <<heap, cache, disk, torn, pc, chunk, changed, lossy, remarked>>
        /\ flPc = "clear" /\ dirty' = dirty \ {flChunk}
    BY <1>15 DEF ClearDirty, WorkerUnchanged, callVars
  <2>2. \A c \in Chunks \ (lossy \cup remarked) :
           c = flChunk /\ Unsaved(c) # {} =>
             \E q \in Savers : chunk[q] = c /\ pc[q] = "set" /\ changed[q]
    BY <2>1 DEF SaveCovers
  <2>3. QED
    BY <2>1, <2>2
<1>16. ASSUME NEW E \in SUBSET Chunks, CleanupUnusedDeltas(E)
      PROVE  DirtyCoversUnsaved'
  BY <1>16 DEF CleanupUnusedDeltas, callVars, flushVars
<1>17. ASSUME Close PROVE DirtyCoversUnsaved'
  BY <1>17 DEF Close, CloseUnchanged, callVars, flushVars
<1>18. ASSUME WorkerStops PROVE DirtyCoversUnsaved'
  BY <1>18 DEF WorkerStops, CloseUnchanged, callVars, flushVars
<1>19. ASSUME CloseEnds PROVE DirtyCoversUnsaved'
  BY <1>19 DEF CloseEnds, CloseUnchanged, callVars, flushVars
<1>20. ASSUME MapRaceAbort PROVE DirtyCoversUnsaved'
  BY <1>20 DEF MapRaceAbort, CloseUnchanged, callVars, flushVars
<1>21. CASE UNCHANGED vars
  BY <1>21 DEF vars, callVars, flushVars
<1>22. QED
  BY <1>1, <1>2, <1>3, <1>4, <1>5, <1>6, <1>7, <1>8, <1>9, <1>10, <1>11, <1>12,
     <1>13, <1>15, <1>16, <1>17, <1>18, <1>19, <1>20, <1>21
     DEF Next, Call, SaverStep, LoaderStep, SaveDelta, Procs

(* SaveCovers: what is set after a save began is marked after it ended, or  *)
(* the mark is seen and the chunk counts as remarked.                       *)
LEMMA SaveCoversStep ==
  ASSUME TypeOK, ObjectsApart, BlocksSet, OneObject, MemoryAhead, TornIsCovered, SaveCovers, [Next]_vars
  PROVE  SaveCovers'
<1> USE ConstantsAssumption DEF TypeOK, SaveCovers, AboutToMark, Unsaved, Stored, Cached, Procs
<1>1. ASSUME NEW p \in Savers, NEW c \in Chunks, NEW B \in SUBSET Blocks, SaveChunk(p, c, B)
      PROVE  SaveCovers'
  <2>1. UNCHANGED <<heap, cache, disk, torn, flPc, flChunk, flSnap, lossy, remarked>>
    BY <1>1 DEF SaveChunk, Lookup, flushVars
  <2>2. \A q \in Savers : pc[q] = "set" =>
           /\ pc'[q] = pc[q] /\ chunk'[q] = chunk[q] /\ changed'[q] = changed[q]
    BY <1>1 DEF SaveChunk, Lookup, Goto
  <2>3. QED
    BY <2>1, <2>2
<1>2. ASSUME NEW p \in Loaders, NEW c \in Chunks, LoadChunk(p, c)
      PROVE  SaveCovers'
  BY <1>2 DEF LoadChunk, Lookup, Goto, flushVars
<1>3. ASSUME NEW p \in Procs, ReadRegion(p)
      PROVE  SaveCovers'
  BY <1>3 DEF ReadRegion, Goto, flushVars
<1>4. ASSUME NEW p \in Savers, ReadRegionFails(p)
      PROVE  SaveCovers'
  BY <1>4 DEF ReadRegionFails, Goto, flushVars
<1>5. ASSUME NEW p \in Procs, PutDelta(p)
      PROVE  SaveCovers'
  <2>1. /\ UNCHANGED <<chunk, changed, flPc, flChunk, flSnap, remarked>>
        /\ \A q \in Savers : pc[q] = "set" => pc'[q] = pc[q]
    BY <1>5 DEF PutDelta, Goto, flushVars
  <2>2. \A c \in Chunks \ lossy' : c \notin lossy /\ Unsaved(c)' = Unsaved(c)
    BY <1>5, PutEffect
  <2>3. QED
    BY <2>1, <2>2
<1>6. ASSUME NEW p \in Savers, NEW b \in Blocks, SetBlock(p, b)
      PROVE  SaveCovers'
  <2>1. UNCHANGED <<pc, chunk, flPc, flChunk, flSnap, remarked, lossy>>
    BY <1>6 DEF SetBlock, flushVars
  <2>2. \A q \in Savers : changed[q] => changed'[q]
    BY <1>6 DEF SetBlock
  <2>3. \A c \in Chunks \ lossy :
           Unsaved(c)' = Unsaved(c) \/ (chunk'[p] = c /\ pc'[p] = "set" /\ changed'[p])
    BY <1>6, SetEffect
  <2>4. QED
    BY <2>1, <2>2, <2>3
<1>7. ASSUME NEW p \in Savers, SaveUnchanged(p)
      PROVE  SaveCovers'
  BY <1>7 DEF SaveUnchanged, Acknowledge, Return, Goto, flushVars
<1>8. ASSUME NEW p \in Savers, MarkDeltaAsDirty(p)
      PROVE  SaveCovers'
  BY <1>8 DEF MarkDeltaAsDirty, Goto, flushVars
<1>9. ASSUME NEW p \in Savers, QueueForSaving(p)
      PROVE  SaveCovers'
  BY <1>9 DEF QueueForSaving, Acknowledge, Return, Goto, flushVars
<1>10. ASSUME NEW p \in Loaders, LoadNotFound(p)
      PROVE  SaveCovers'
  BY <1>10 DEF LoadNotFound, Return, Goto, flushVars
<1>11. ASSUME NEW p \in Loaders, LoadReturns(p)
      PROVE  SaveCovers'
  BY <1>11 DEF LoadReturns, Return, Goto, flushVars
<1>12. ASSUME TakeFromQueue PROVE SaveCovers'
  BY <1>12 DEF TakeFromQueue, WorkerUnchanged, callVars
<1>13. ASSUME TakeDirtyKey PROVE SaveCovers'
  BY <1>13 DEF TakeDirtyKey, WorkerUnchanged, callVars
<1>14. ASSUME SaveDeltaMisses PROVE SaveCovers'
  BY <1>14 DEF SaveDeltaMisses, SaveDeltaReturns, WorkerUnchanged, callVars
<1>15. ASSUME SaveDeltaBegins PROVE SaveCovers'
  BY <1>15 DEF SaveDeltaBegins, WorkerUnchanged, callVars
<1>16. ASSUME WriteDelta PROVE SaveCovers'
  <2>1. UNCHANGED <<pc, chunk, changed, lossy, remarked, flChunk>> /\ flPc = "write"
    BY <1>16 DEF WriteDelta, WorkerUnchanged, callVars
  <2>2. \A c \in Chunks \ lossy : /\ c # flChunk => Unsaved(c)' = Unsaved(c)
                                  /\ c = flChunk => /\ Unsaved(c)' \subseteq Unsaved(c)
                                                    /\ Unsaved(c)' \cap flSnap = {}
    BY <1>16, WriteEffect
  <2>3. QED
    BY <2>1, <2>2
<1>17. ASSUME WriteFails PROVE SaveCovers'
  BY <1>17 DEF WriteFails, Torn, SaveDeltaReturns, WorkerUnchanged, callVars
<1>18. ASSUME ClearDirty PROVE SaveCovers'
  BY <1>18 DEF ClearDirty, SaveDeltaReturns, WorkerUnchanged, callVars
<1>19. ASSUME NEW E \in SUBSET Chunks, CleanupUnusedDeltas(E)
      PROVE  SaveCovers'
  BY <1>19 DEF CleanupUnusedDeltas, callVars, flushVars
<1>20. ASSUME Close \/ WorkerStops \/ CloseEnds \/ MapRaceAbort
      PROVE  SaveCovers'
  BY <1>20 DEF Close, CloseUnchanged, callVars, flushVars, WorkerStops, CloseEnds,
     MapRaceAbort
<1>21. CASE UNCHANGED vars
  BY <1>21 DEF vars, callVars, flushVars
<1>22. QED
  BY <1>1, <1>2, <1>3, <1>4, <1>5, <1>6, <1>7, <1>8, <1>9, <1>10, <1>11, <1>12,
     <1>13, <1>14, <1>15, <1>16, <1>17, <1>18, <1>19, <1>20, <1>21
     DEF Next, Call, SaverStep, LoaderStep, SaveDelta, Procs

(* CloseCovers: what Close owes is dirty until the keys are collected, then *)
(* among the keys, then in the save in progress, then on disk.              *)
LEMMA CloseCoversStep ==
  ASSUME TypeOK, OneObject, MemoryAhead, TornIsCovered, ReadYourWrites,
         DirtyCoversUnsaved, SaveCovers, CloseCovers, [Next]_vars
  PROVE  CloseCovers'
<1> USE ConstantsAssumption DEF TypeOK, CloseCovers, Owed, Stored
<1>1. ASSUME NEW p \in Savers, NEW c \in Chunks, NEW B \in SUBSET Blocks, SaveChunk(p, c, B)
      PROVE  CloseCovers'
  BY <1>1 DEF SaveChunk, Lookup, Goto, Touched, CachedChunks, flushVars
<1>2. ASSUME NEW p \in Loaders, NEW c \in Chunks, LoadChunk(p, c)
      PROVE  CloseCovers'
  BY <1>2 DEF LoadChunk, Lookup, Goto, flushVars
<1>3. ASSUME NEW p \in Procs, ReadRegion(p)
      PROVE  CloseCovers'
  BY <1>3 DEF ReadRegion, Goto, flushVars
<1>4. ASSUME NEW p \in Savers, ReadRegionFails(p)
      PROVE  CloseCovers'
  BY <1>4 DEF ReadRegionFails, Goto, flushVars
<1>5. ASSUME NEW p \in Procs, PutDelta(p)
      PROVE  CloseCovers'
  BY <1>5 DEF PutDelta, Goto, flushVars
<1>6. ASSUME NEW p \in Savers, NEW b \in Blocks, SetBlock(p, b)
      PROVE  CloseCovers'
  BY <1>6 DEF SetBlock, flushVars
<1>7. ASSUME NEW p \in Savers, SaveUnchanged(p)
      PROVE  CloseCovers'
  BY <1>7 DEF SaveUnchanged, Acknowledge, Return, Goto, flushVars
<1>8. ASSUME NEW p \in Savers, MarkDeltaAsDirty(p)
      PROVE  CloseCovers'
  BY <1>8 DEF MarkDeltaAsDirty, Goto, flushVars
<1>9. ASSUME NEW p \in Savers, QueueForSaving(p)
      PROVE  CloseCovers'
  BY <1>9 DEF QueueForSaving, Acknowledge, Return, Goto, flushVars
<1>10. ASSUME NEW p \in Loaders, LoadNotFound(p)
      PROVE  CloseCovers'
  BY <1>10 DEF LoadNotFound, Return, Goto, flushVars
<1>11. ASSUME NEW p \in Loaders, LoadReturns(p)
      PROVE  CloseCovers'
  BY <1>11 DEF LoadReturns, Return, Goto, flushVars
<1>12. ASSUME TakeFromQueue PROVE CloseCovers'
  BY <1>12 DEF TakeFromQueue, WorkerUnchanged, callVars
<1>13. ASSUME TakeDirtyKey PROVE CloseCovers'
  BY <1>13 DEF TakeDirtyKey, WorkerUnchanged, callVars
<1>14. ASSUME SaveDeltaMisses PROVE CloseCovers'
  <2>1. /\ UNCHANGED <<disk, torn, phase, dirty, closing, acked, ackedAtClose, lossy, skipped, remarked>>
        /\ flPc' = "idle" /\ phase' = phase /\ flPc = "lookup" /\ ~Cached(flChunk)
    BY <1>14 DEF SaveDeltaMisses, SaveDeltaReturns, WorkerUnchanged
  <2>2. \A c \in Chunks \ lossy : c = flChunk => Owed(c) = {}
    BY <2>1 DEF ReadYourWrites, Visible, TornIsCovered
  <2>3. QED
    BY <2>1, <2>2
<1>15. ASSUME SaveDeltaBegins PROVE CloseCovers'
  <2>1. /\ UNCHANGED <<disk, torn, phase, dirty, closing, acked, ackedAtClose, lossy, remarked, flChunk>>
        /\ flPc' = "write" /\ flPc = "lookup" /\ skipped' = skipped \ {flChunk}
        /\ flSnap' = heap[cache[flChunk]] /\ Cached(flChunk)
    BY <1>15 DEF SaveDeltaBegins, WorkerUnchanged
  <2>2. \A c \in Chunks \ lossy : c = flChunk => Owed(c) \subseteq flSnap'
    BY <2>1 DEF ReadYourWrites, Visible
  <2>3. QED
    BY <2>1, <2>2
<1>16. ASSUME WriteDelta PROVE CloseCovers'
  <2>1. /\ UNCHANGED <<phase, dirty, closing, acked, ackedAtClose>>
        /\ UNCHANGED <<lossy, skipped, remarked, flChunk>>
        /\ flPc' = "clear" /\ flPc = "write" /\ torn' = torn \ {flChunk}
    BY <1>16 DEF WriteDelta, WorkerUnchanged
  <2>2. \A c \in Chunks \ (lossy \cup {flChunk}) : Owed(c)' = Owed(c)
    BY <1>16, <2>1, WriteEffect
  <2>3. \A c \in Chunks \ (lossy \cup remarked) : c = flChunk => Owed(c)' = {}
    <3>1. ASSUME NEW c \in Chunks \ (lossy \cup remarked), c = flChunk PROVE Owed(c)' = {}
      <4>1. flSnap \subseteq Stored(c)' /\ Stored(c) \subseteq Stored(c)'
        BY <1>16, <2>1, <3>1, WriteEffect
      <4>2. CASE phase = "running"
        BY <2>1, <4>2
      <4>3. CASE phase # "running"
        BY <2>1, <3>1, <4>1, <4>3
      <4>4. QED
        BY <4>2, <4>3
    <3>2. QED
      BY <3>1
  <2>4. QED
    BY <2>1, <2>2, <2>3
<1>17. ASSUME WriteFails PROVE CloseCovers'
  <2>1. /\ UNCHANGED <<phase, dirty, closing, acked, ackedAtClose, lossy, remarked>>
        /\ flPc' = "idle" /\ flPc = "write" /\ skipped' = skipped \cup {flChunk}
        /\ flChunk' = NoChunk /\ torn \subseteq torn'
    BY <1>17 DEF WriteFails, Torn, SaveDeltaReturns, WorkerUnchanged
  <2>2. \A c \in Chunks \ (lossy \cup {flChunk}) : Owed(c)' = Owed(c)
    BY <1>17, <2>1, WriteEffect
  <2>3. ASSUME NEW c \in Chunks \ lossy, c \notin torn' PROVE Owed(c)' \subseteq Owed(c)
    <3>1. Stored(c) \subseteq Stored(c)'
      BY <1>17, <2>3, WriteEffect
    <3>2. QED
      BY <2>1, <3>1
  <2>4. QED
    BY <2>1, <2>2, <2>3
<1>18. ASSUME ClearDirty PROVE CloseCovers'
  BY <1>18 DEF ClearDirty, SaveDeltaReturns, WorkerUnchanged, callVars
<1>19. ASSUME NEW E \in SUBSET Chunks, CleanupUnusedDeltas(E)
      PROVE  CloseCovers'
  BY <1>19 DEF CleanupUnusedDeltas, callVars, flushVars
<1>20. ASSUME Close PROVE CloseCovers'
  <2>1. /\ UNCHANGED <<heap, cache, disk, torn, dirty, closing, acked, lossy, skipped, remarked,
                       flPc, flChunk, flSnap>>
        /\ phase = "running" /\ phase' = "stopping"
        /\ \A c \in Chunks : ackedAtClose'[c] =
                              IF \E p \in Savers : Holding(p, c) THEN {} ELSE acked[c]
    BY <1>20 DEF Close, CloseUnchanged, flushVars
  <2>2. ASSUME NEW c \in Chunks \ (lossy \cup remarked), ackedAtClose'[c] # {}
        PROVE  Owed(c)' \subseteq Unsaved(c) /\ ~AboutToMark(c)
    <3>1. ackedAtClose'[c] = acked[c] /\ ~ \E p \in Savers : Holding(p, c)
      BY <2>1, <2>2
    <3>2. ~AboutToMark(c)
      BY <3>1 DEF AboutToMark, Holding
    <3>3. acked[c] \subseteq Visible(c)
      BY DEF ReadYourWrites
    <3>4. acked[c] \ Stored(c) \subseteq Unsaved(c)
      BY <3>3 DEF Visible, Unsaved, Stored, TornIsCovered
    <3>5. QED
      BY <2>1, <3>1, <3>2, <3>4
  <2>3. ASSUME NEW c \in Chunks \ (lossy \cup remarked)
        PROVE  /\ c \notin torn /\ Owed(c)' # {} => c \in dirty
               /\ flChunk = c /\ flPc = "clear" => Owed(c)' = {}
               /\ flChunk = c /\ flPc = "write" => Owed(c)' \subseteq flSnap
    <3>1. CASE ackedAtClose'[c] = {}
      BY <3>1
    <3>2. CASE ackedAtClose'[c] # {}
      <4>1. Owed(c)' \subseteq Unsaved(c) /\ ~AboutToMark(c)
        BY <2>2, <3>2
      <4>2. c \notin torn /\ Unsaved(c) # {} => c \in dirty
        BY <4>1 DEF DirtyCoversUnsaved
      <4>3. flChunk = c /\ flPc = "clear" => Unsaved(c) = {}
        BY <4>1 DEF SaveCovers
      <4>4. flChunk = c /\ flPc = "write" => Unsaved(c) \subseteq flSnap
        BY <4>1 DEF SaveCovers
      <4>5. QED
        BY <4>1, <4>2, <4>3, <4>4
    <3>3. QED
      BY <3>1, <3>2
  <2>4. \A c \in Chunks : ackedAtClose'[c] \subseteq acked'[c]
    BY <2>1
  <2>5. QED
    BY <2>1, <2>3, <2>4
<1>21. ASSUME WorkerStops PROVE CloseCovers'
  BY <1>21 DEF WorkerStops, CloseUnchanged, callVars, flushVars, TornIsCovered
<1>22. ASSUME CloseEnds PROVE CloseCovers'
  BY <1>22 DEF CloseEnds, CloseUnchanged, callVars, flushVars
<1>23. ASSUME MapRaceAbort PROVE CloseCovers'
  BY <1>23 DEF MapRaceAbort, CloseUnchanged, callVars, flushVars
<1>24. CASE UNCHANGED vars
  BY <1>24 DEF vars, callVars, flushVars
<1>25. QED
  BY <1>1, <1>2, <1>3, <1>4, <1>5, <1>6, <1>7, <1>8, <1>9, <1>10, <1>11, <1>12,
     <1>13, <1>14, <1>15, <1>16, <1>17, <1>18, <1>19, <1>20, <1>21, <1>22, <1>23,
     <1>24
     DEF Next, Call, SaverStep, LoaderStep, SaveDelta, Procs

(* Nothing is cached or in progress at first, so the disk is all there is.  *)
LEMMA InitIndInv == Init => IndInv
<1> SUFFICES ASSUME Init PROVE IndInv
  OBVIOUS
<1>1. TypeOK
  BY ConstantsAssumption DEF Init, TypeOK, Procs
<1>2. ObjectsApart /\ BlocksSet
  BY ConstantsAssumption DEF Init, ObjectsApart, BlocksSet, Cached, Procs
<1>3. OneObject /\ MemoryAhead /\ TornIsCovered
  BY ConstantsAssumption DEF Init, TornIsCovered, OneObject, MemoryAhead, Stored, Cached, Holding, InMissWindow, Procs
<1>4. ReadYourWrites
  BY DEF Init, ReadYourWrites, Visible, Cached
<1>5. QueueCoversUnsaved /\ DirtyCoversUnsaved /\ SaveCovers
  BY DEF Init, QueueCoversUnsaved, DirtyCoversUnsaved, SaveCovers, Unsaved, Stored, Cached
<1>6. CloseCovers
  BY DEF Init, CloseCovers, Owed, Stored
<1>7. QED
  BY <1>1, <1>2, <1>3, <1>4, <1>5, <1>6 DEF IndInv

(* Each part of the invariant is preserved with the help of the others.     *)
LEMMA StepIndInv == IndInv /\ [Next]_vars => IndInv'
<1> SUFFICES ASSUME IndInv, [Next]_vars PROVE IndInv'
  OBVIOUS
<1> USE DEF IndInv
<1>1. TypeOK'
  BY TypeStep
<1>2. ObjectsApart' /\ BlocksSet' /\ OneObject' /\ MemoryAhead' /\ TornIsCovered'
  BY ObjectsApartStep, BlocksSetStep, OneObjectStep, MemoryAheadStep, TornIsCoveredStep
<1>3. ReadYourWrites' /\ QueueCoversUnsaved' /\ DirtyCoversUnsaved'
  BY ReadYourWritesStep, QueueCoversStep, DirtyCoversStep
<1>4. SaveCovers' /\ CloseCovers'
  BY SaveCoversStep, CloseCoversStep
<1>5. QED
  BY <1>1, <1>2, <1>3, <1>4

(* The inductive invariant holds in every reachable state. *)
THEOREM Invariance == Spec => []IndInv
<1>1. Init => IndInv
  BY InitIndInv
<1>2. IndInv /\ [Next]_vars => IndInv'
  BY StepIndInv
<1>3. QED
  BY <1>1, <1>2, PTL DEF Spec

(* Every variable of the delta cache keeps its type. *)
THEOREM TypeCorrect == Spec => []TypeOK
<1>1. IndInv => TypeOK
  BY DEF IndInv
<1>2. QED
  BY <1>1, Invariance, PTL

(* An acknowledged block is visible to the next LoadChunk, wherever        *)
(* eviction, reloading and saving have moved it (binary_storage.go).       *)
THEOREM SavedIsVisible == Spec => []ReadYourWrites
<1>1. IndInv => ReadYourWrites
  BY DEF IndInv
<1>2. QED
  BY <1>1, Invariance, PTL

(* No unsaved block is forgotten by queueForSaving and saveWorker.         *)
THEOREM UnsavedIsQueued == Spec => []QueueCoversUnsaved
<1>1. IndInv => QueueCoversUnsaved
  BY DEF IndInv
<1>2. QED
  BY <1>1, Invariance, PTL

(* No unsaved block is forgotten by dirtyDeltas.                           *)
THEOREM UnsavedIsDirty == Spec => []DirtyCoversUnsaved
<1>1. IndInv => DirtyCoversUnsaved
  BY DEF IndInv
<1>2. QED
  BY <1>1, Invariance, PTL

(* Close leaves what was acknowledged before it on disk, except for chunks *)
(* marked while they were being saved, failed writes and lossy chunks.     *)
THEOREM CloseIsDurable == Spec => []ClosePersists
<1>1. IndInv => ClosePersists
  BY DEF IndInv, CloseCovers, TornIsCovered, ClosePersists, Owed, Stored
<1>2. QED
  BY <1>1, Invariance, PTL

(* No save takes a block off the disk, but one that fails and tears it. *)
THEOREM DiskOnlyGrows == Spec => DiskNeverShrinks
<1> DEFINE Grows == \A c \in Chunks \ (lossy \cup torn \cup torn') : disk[c] \subseteq disk'[c]
<1>1. IndInv /\ [Next]_vars => [Grows]_vars
  <2> SUFFICES ASSUME IndInv, [Next]_vars PROVE Grows
    OBVIOUS
  <2>1. CASE WriteDelta \/ WriteFails
    BY <2>1, WriteEffect DEF IndInv, Stored
  <2>2. CASE ~(WriteDelta \/ WriteFails)
    <3>1. disk' = disk
      BY <2>2 DEF Next, Call, SaverStep, LoaderStep, SaveDelta, vars,
         SaveChunk, LoadChunk, Lookup, ReadRegion, ReadRegionFails, PutDelta, SetBlock,
         SaveUnchanged, MarkDeltaAsDirty, QueueForSaving, LoadNotFound, LoadReturns,
         TakeFromQueue, TakeDirtyKey, SaveDeltaMisses, SaveDeltaBegins, ClearDirty,
         CleanupUnusedDeltas, Close, WorkerStops, CloseEnds, MapRaceAbort, CloseUnchanged
    <3>2. QED
      BY <3>1
  <2>3. QED
    BY <2>1, <2>2
<1>2. QED
  BY <1>1, Invariance, PTL DEF Spec, DiskNeverShrinks

-----------------------------------------------------------------------------
(* The refinement: each step of the delta cache is one of the store, or    *)
(* none that the store knows of.                                           *)
StoreStep == [Store!Next]_(Store!vars)

(* What is visible outside of lossy chunks is all the store sees of it. *)
LEMMA MemUnchanged ==
  ASSUME lossy' = lossy, \A c \in Chunks \ lossy : Visible(c)' = Visible(c)
  PROVE  Mem' = Mem
BY DEF Mem, UnlessLossy, Kept, Stored

(* Steps that leave the content of objects and of the disk alone. *)
LEMMA MemFrame ==
  ASSUME UNCHANGED <<heap, cache, disk, torn, lossy>>
  PROVE  /\ Mem' = Mem
         /\ Kept' = Kept
<1>1. \A c \in Chunks \ lossy : Visible(c)' = Visible(c)
  BY DEF Visible, Cached
<1>2. QED
  BY <1>1, MemUnchanged DEF UnlessLossy, Kept, Stored

(* A call changes what it holds, and no other call does. *)
LEMMA BusyFrame ==
  ASSUME lossy' = lossy, UNCHANGED <<pc, chunk>>
  PROVE  Busy' = Busy
BY DEF Busy, Holding

LEMMA StoreStutters ==
  ASSUME Mem' = Mem, Kept' = Kept, Busy' = Busy,
         UNCHANGED <<acked, ackedAtClose, lossy, skipped, remarked, phase>>
  PROVE  StoreStep
BY DEF StoreStep, Store!vars, UnlessLossy, Kept, Stored, Late, State

(* A saver gets hold of the delta of c: the store's caller begins to write. *)
LEMMA BusyBegins ==
  ASSUME TypeOK, NEW p \in Savers, NEW c \in Chunks, lossy' = lossy,
         chunk' = [chunk EXCEPT ![p] = c] \/ (chunk' = chunk /\ chunk[p] = c),
         pc[p] \notin {"set", "marked"}, pc' = [pc EXCEPT ![p] = "set"]
  PROVE  Busy' = IF c \in lossy THEN Busy ELSE Busy \cup {c}
<1>1. \A q \in Savers \ {p}, e \in Chunks : Holding(q, e)' = Holding(q, e)
  BY DEF Holding, TypeOK, Procs
<1>2. \A e \in Chunks : Holding(p, e)' <=> e = c
  BY DEF Holding, TypeOK, Procs
<1>3. \A e \in Chunks : ~Holding(p, e)
  BY DEF Holding
<1>4. QED
  BY <1>1, <1>2, <1>3 DEF Busy

(* A SaveChunk returns, or goes on, with what it has acknowledged.         *)
LEMMA BusyEnds ==
  ASSUME TypeOK, NEW p \in Savers, lossy' = lossy, pc[p] \in {"set", "marked"},
         chunk' = [chunk EXCEPT ![p] = NoChunk], pc' = [pc EXCEPT ![p] = "idle"]
  PROVE  Busy' \in {Busy, Busy \ {chunk[p]}}
<1>1. \A q \in Savers \ {p}, e \in Chunks : Holding(q, e)' = Holding(q, e)
  BY DEF Holding, TypeOK, Procs
<1>2. \A e \in Chunks : ~Holding(p, e)'
  BY DEF Holding, TypeOK, Procs
<1>3. \A e \in Chunks \ {chunk[p]} : ~Holding(p, e)
  BY DEF Holding
<1>4. \A e \in Chunks \ {chunk[p]} : e \in Busy' <=> e \in Busy
  BY <1>1, <1>2, <1>3 DEF Busy
<1>5. Busy' \subseteq Busy
  BY <1>1, <1>2 DEF Busy
<1>6. QED
  BY <1>4, <1>5 DEF Busy

(* Loaders never are busy. *)
LEMMA BusyNotLoading ==
  ASSUME TypeOK, NEW p \in Procs, lossy' = lossy,
         pc[p] \notin {"set", "marked"}, pc'[p] \notin {"set", "marked"} \/ p \in Loaders,
         \A q \in Procs \ {p} : pc'[q] = pc[q] /\ chunk'[q] = chunk[q]
  PROVE  Busy' = Busy
<1>1. \A q \in Savers, e \in Chunks : Holding(q, e)' = Holding(q, e)
  BY ConstantsAssumption DEF Holding, TypeOK, Procs
<1>2. QED
  BY <1>1 DEF Busy

(* A step of the store on a chunk that is not lost. *)
LEMMA StoreSteps ==
  ASSUME TypeOK, phase # "aborted", NEW c \in Chunks \ lossy,
         \/ Store!Begin(c) \/ Store!Acknowledge(c) \/ Store!Persist(c) \/ Store!Ruin(c)
         \/ Store!Overtake(c) \/ Store!Resume(c)
         \/ \E b \in Blocks : Store!Write(c, b)
  PROVE  StoreStep
<1>1. State # "aborted"
  BY DEF TypeOK, State
<1>2. QED
  BY <1>1 DEF StoreStep, Store!Next, Store!Reliable

LEMMA StoreLoses ==
  ASSUME TypeOK, phase # "aborted", NEW S \in SUBSET (Chunks \ lossy), Store!Lose(S)
  PROVE  StoreStep
<1>1. State # "aborted"
  BY DEF TypeOK, State
<1>2. QED
  BY <1>1 DEF StoreStep, Store!Next, Store!Reliable

(* SaveChunk: its chunk is busy when the delta is found. *)
LEMMA SaveChunkRefines ==
  ASSUME IndInv, phase # "aborted",
         NEW p \in Savers, NEW c \in Chunks, NEW B \in SUBSET Blocks, SaveChunk(p, c, B)
  PROVE  StoreStep
<1>1. Mem' = Mem /\ Kept' = Kept
  BY MemFrame DEF SaveChunk, Lookup
<1>2. UNCHANGED <<acked, ackedAtClose, lossy, skipped, remarked, phase>>
  BY DEF SaveChunk, Lookup
<1>3. CASE Cached(c)
  <2>1. Busy' = IF c \in lossy THEN Busy ELSE Busy \cup {c}
    BY <1>3, BusyBegins DEF SaveChunk, Lookup, Goto, IndInv
  <2>2. CASE c \in lossy
    BY <1>1, <1>2, <2>1, <2>2, StoreStutters
  <2>3. CASE c \notin lossy
    <3>1. Store!Begin(c)
      BY <1>1, <1>2, <2>1, <2>3 DEF Store!Begin, UnlessLossy, Kept, Stored, Late, State
    <3>2. QED
      BY <2>3, <3>1, StoreSteps DEF IndInv
  <2>4. QED
    BY <2>2, <2>3
<1>4. CASE ~Cached(c)
  <2>1. pc[p] \notin {"set", "marked"} /\ pc'[p] \notin {"set", "marked"}
    BY <1>4 DEF SaveChunk, Lookup, Goto, IndInv, TypeOK, Procs
  <2>2. \A q \in Procs \ {p} : pc'[q] = pc[q] /\ chunk'[q] = chunk[q]
    BY <1>4 DEF SaveChunk, Lookup, Goto, IndInv, TypeOK, Procs
  <2>3. Busy' = Busy
    BY <1>2, <2>1, <2>2, BusyNotLoading DEF IndInv, Procs
  <2>4. QED
    BY <1>1, <1>2, <2>3, StoreStutters
<1>5. QED
  BY <1>3, <1>4

(* Calls that the store's caller does not notice. *)
LEMMA ReadsRefine ==
  ASSUME IndInv, NEW p \in Procs,
         \/ p \in Loaders /\ \E c \in Chunks : LoadChunk(p, c)
         \/ ReadRegion(p) \/ LoadNotFound(p) \/ LoadReturns(p)
  PROVE  StoreStep
<1>1. UNCHANGED <<heap, cache, disk, torn, acked, ackedAtClose, lossy, skipped, remarked, phase>>
  BY DEF LoadChunk, Lookup, ReadRegion, LoadNotFound, LoadReturns
<1>2. Busy' = Busy
  <2>1. pc[p] \notin {"set", "marked"} /\ (pc'[p] \notin {"set", "marked"} \/ p \in Loaders)
    BY DEF LoadChunk, Lookup, ReadRegion, LoadNotFound, LoadReturns, Return, Goto, IndInv,
       TypeOK, Procs
  <2>2. \A q \in Procs \ {p} : pc'[q] = pc[q] /\ chunk'[q] = chunk[q]
    BY DEF LoadChunk, Lookup, ReadRegion, LoadNotFound, LoadReturns, Return, Goto, IndInv,
       TypeOK, Procs
  <2>3. QED
    BY <1>1, <2>1, <2>2, BusyNotLoading DEF IndInv
<1>3. QED
  BY <1>1, <1>2, MemFrame, StoreStutters

(* Nothing changes but that chunks of S are lossy from now on. *)
LEMMA LosesOnly ==
  ASSUME TypeOK, NEW S \in SUBSET (Chunks \ lossy), lossy' = lossy \cup S, phase' = phase,
         Late' \subseteq Chunks,
         \A c \in Chunks \ lossy' :
           /\ Visible(c)' = Visible(c) /\ Stored(c)' = Stored(c)
           /\ acked'[c] = acked[c] /\ ackedAtClose'[c] = ackedAtClose[c]
           /\ c \in Busy' <=> c \in Busy
           /\ c \in Late' <=> c \in Late
  PROVE  Store!Lose(S)
<1>1. Mem' = Store!Forget(Mem, S)
  BY DEF Mem, UnlessLossy, Kept, Stored, Store!Forget
<1>2. Kept' = Store!Forget(Kept, S)
  BY DEF UnlessLossy, Kept, Stored, Store!Forget
<1>3. UnlessLossy(acked)' = Store!Forget(UnlessLossy(acked), S)
  BY DEF UnlessLossy, Kept, Stored, Store!Forget
<1>4. UnlessLossy(ackedAtClose)' = Store!Forget(UnlessLossy(ackedAtClose), S)
  BY DEF UnlessLossy, Kept, Stored, Store!Forget
<1>5. Busy' = Busy \ S
  BY DEF Busy
<1>6. Late' = Late \ S
  <2>1. Late \subseteq Chunks /\ Late' \cap lossy' = {} /\ Late \cap lossy = {}
    BY DEF Late, TypeOK
  <2>2. QED
    BY <2>1
<1>7. QED
  BY <1>1, <1>2, <1>3, <1>4, <1>5, <1>6 DEF Store!Lose, State

(* A failed region read loses the chunk. *)
LEMMA ReadFailsRefines ==
  ASSUME IndInv, phase # "aborted", NEW p \in Savers, ReadRegionFails(p)
  PROVE  StoreStep
<1> DEFINE S == {chunk[p]} \ lossy
<1>1. S \subseteq Chunks \ lossy /\ lossy' = lossy \cup S
  BY DEF ReadRegionFails, IndInv, TypeOK, Procs
<1>2. \A c \in Chunks \ lossy' : c \in Busy' <=> c \in Busy
  BY DEF ReadRegionFails, Goto, Busy, Holding, IndInv, TypeOK, Procs
<1>3. /\ Late' \subseteq Chunks
      /\ \A c \in Chunks \ lossy' : Visible(c)' = Visible(c) /\ (c \in Late' <=> c \in Late)
  BY <1>1 DEF ReadRegionFails, Visible, Cached, Late, IndInv, TypeOK
<1>4. Store!Lose(S)
  BY <1>1, <1>2, <1>3, LosesOnly DEF ReadRegionFails, IndInv, Stored
<1>5. QED
  BY <1>1, <1>4, StoreLoses DEF IndInv

(* A delta enters the cache with what is on disk: a saver's chunk is busy  *)
(* from then on, and one with two deltas is lost.                          *)
LEMMA PutRefines ==
  ASSUME IndInv, phase # "aborted", NEW p \in Procs, PutDelta(p)
  PROVE  StoreStep
<1> USE DEF IndInv
<1>1. chunk[p] \in Chunks /\ pc[p] = "put"
  BY PutFacts DEF PutDelta
<1>2. UNCHANGED <<chunk, disk, torn, phase, acked, ackedAtClose, skipped, remarked>>
  BY DEF PutDelta
<1>3. \A c \in Chunks \ lossy' : Visible(c)' = Visible(c)
  BY PutEffect
<1>4. CASE lossy' = lossy
  <2>1. Mem' = Mem /\ Kept' = Kept
    BY <1>2, <1>3, <1>4, MemUnchanged DEF UnlessLossy, Kept, Stored
  <2>2. CASE p \in Savers
    <3>1. Busy' = IF chunk[p] \in lossy THEN Busy ELSE Busy \cup {chunk[p]}
      BY <1>1, <1>2, <1>4, <2>2, BusyBegins DEF PutDelta, Goto
    <3>2. CASE chunk[p] \in lossy
      BY <1>2, <1>4, <2>1, <3>1, <3>2, StoreStutters
    <3>3. CASE chunk[p] \notin lossy
      <4>1. Store!Begin(chunk[p])
        BY <1>2, <1>4, <2>1, <3>1, <3>3 DEF Store!Begin, UnlessLossy, Kept, Stored, Late, State
      <4>2. QED
        BY <1>1, <3>3, <4>1, StoreSteps
    <3>4. QED
      BY <3>2, <3>3
  <2>3. CASE p \in Loaders
    <3>1. \A q \in Procs \ {p} : pc'[q] = pc[q] /\ chunk'[q] = chunk[q]
      BY <1>2 DEF PutDelta, Goto, TypeOK
    <3>2. Busy' = Busy
      BY <1>1, <1>4, <2>3, <3>1, BusyNotLoading
    <3>3. QED
      BY <1>2, <1>4, <2>1, <3>2, StoreStutters
  <2>4. QED
    BY <2>2, <2>3 DEF Procs
<1>5. CASE lossy' # lossy
  <2> DEFINE S == {chunk[p]} \ lossy
  <2>1. lossy' = lossy \cup S /\ S \subseteq Chunks \ lossy /\ chunk[p] \in lossy'
    BY <1>1, <1>5 DEF PutDelta
  <2>2. \A c \in Chunks \ lossy' : c \in Busy' <=> c \in Busy
    <3>1. ASSUME NEW c \in Chunks \ lossy', NEW q \in Savers
          PROVE  Holding(q, c)' <=> Holding(q, c)
      BY <1>2, <2>1 DEF PutDelta, Goto, Holding, TypeOK, Procs
    <3>2. QED
      BY <2>1, <3>1 DEF Busy
  <2>3. Late' \subseteq Chunks /\ \A c \in Chunks \ lossy' : c \in Late' <=> c \in Late
    BY <1>2, <2>1 DEF Late, TypeOK
  <2>4. Store!Lose(S)
    BY <1>2, <1>3, <2>1, <2>2, <2>3, LosesOnly DEF Stored
  <2>5. QED
    BY <2>1, <2>4, StoreLoses
<1>6. QED
  BY <1>4, <1>5

(* A block set without a lock is set in the delta that loads see. *)
LEMMA SetRefines ==
  ASSUME IndInv, phase # "aborted", NEW p \in Savers, NEW b \in Blocks, SetBlock(p, b)
  PROVE  StoreStep
<1> USE DEF IndInv, Procs
<1>1. /\ ref[p] \in Deltas /\ chunk[p] \in Chunks /\ pc[p] = "set"
      /\ heap'[ref[p]] = heap[ref[p]] \cup {b}
      /\ \A d \in Deltas : d # ref[p] => heap'[d] = heap[d]
  BY DEF SetBlock, TypeOK
<1>2. UNCHANGED <<cache, disk, torn, pc, chunk, ref, phase, acked, ackedAtClose, lossy, skipped, remarked>>
  BY DEF SetBlock
<1>3. Busy' = Busy
  BY <1>2, BusyFrame
<1>4. Kept' = Kept
  BY <1>2 DEF UnlessLossy, Kept, Stored
<1>5. \A c \in Chunks \ {chunk[p]} : Visible(c)' = Visible(c)
  <2>1. \A c \in Chunks \ {chunk[p]} : cache[c] # ref[p]
    BY <1>1 DEF ObjectsApart
  <2>2. QED
    BY <1>1, <1>2, <2>1 DEF Visible, Cached, TypeOK
<1>6. CASE chunk[p] \in lossy
  <2>1. Mem' = Mem
    BY <1>2, <1>5, <1>6, MemUnchanged
  <2>2. QED
    BY <1>2, <1>3, <1>4, <2>1, StoreStutters
<1>7. CASE chunk[p] \notin lossy
  <2>1. Holding(p, chunk[p]) /\ Cached(chunk[p]) /\ ref[p] = cache[chunk[p]]
    BY <1>1, <1>7 DEF Holding, OneObject
  <2>2. Visible(chunk[p])' = Visible(chunk[p]) \cup {b}
    BY <1>1, <1>2, <2>1 DEF Visible, Cached
  <2>3. Mem' = [Mem EXCEPT ![chunk[p]] = @ \cup {b}]
    BY <1>1, <1>2, <1>5, <1>7, <2>2 DEF Mem, UnlessLossy, Kept, Stored
  <2>4. chunk[p] \in Busy
    BY <1>1, <1>7, <2>1 DEF Busy
  <2>5. Store!Write(chunk[p], b)
    BY <1>2, <1>3, <1>4, <2>3, <2>4 DEF Store!Write, UnlessLossy, Kept, Stored, Late, State
  <2>6. QED
    BY <1>1, <1>7, <2>5, StoreSteps
<1>8. QED
  BY <1>6, <1>7

(* SaveChunk acknowledges what its delta holds. *)
LEMMA AcknowledgeRefines ==
  ASSUME IndInv, phase # "aborted", NEW p \in Savers, SaveUnchanged(p) \/ QueueForSaving(p)
  PROVE  StoreStep
<1> USE DEF IndInv, Procs
<1>1. chunk[p] \in Chunks /\ pc[p] \in {"set", "marked"} /\ todo[p] = {}
  BY DEF SaveUnchanged, QueueForSaving, TypeOK, BlocksSet
<1>2. UNCHANGED <<heap, cache, disk, torn, phase, ackedAtClose, lossy, remarked>>
  BY DEF SaveUnchanged, QueueForSaving
<1>3. skipped' \in {skipped, skipped \cup {chunk[p]}}
  BY DEF SaveUnchanged, QueueForSaving
<1>4. acked' = [acked EXCEPT ![chunk[p]] = @ \cup arg[p]]
  BY DEF SaveUnchanged, QueueForSaving, Acknowledge
<1>5. Mem' = Mem /\ Kept' = Kept
  BY <1>2, MemFrame
<1>6. Busy' \in {Busy, Busy \ {chunk[p]}}
  BY <1>1, <1>2, BusyEnds DEF SaveUnchanged, QueueForSaving, Acknowledge, Return, Goto
<1>7. CASE chunk[p] \in lossy
  <2>1. Busy' = Busy /\ Late' = Late /\ UnlessLossy(acked)' = UnlessLossy(acked)
    BY <1>1, <1>2, <1>3, <1>4, <1>6, <1>7 DEF Busy, Late, UnlessLossy, Kept, Stored, TypeOK
  <2>2. QED
    BY <1>2, <1>5, <2>1 DEF StoreStep, Store!vars, UnlessLossy, Kept, Stored, State
<1>8. CASE chunk[p] \notin lossy
  <2>1. Holding(p, chunk[p]) /\ Cached(chunk[p]) /\ ref[p] = cache[chunk[p]]
    BY <1>1, <1>8 DEF Holding, OneObject
  <2>2. arg[p] \subseteq Mem[chunk[p]]
    BY <1>1, <1>8, <2>1 DEF Mem, UnlessLossy, Kept, Stored, Visible, BlocksSet
  <2>3. UnlessLossy(acked)' = [UnlessLossy(acked) EXCEPT ![chunk[p]] = @ \cup arg[p]]
    BY <1>1, <1>2, <1>4, <1>8 DEF UnlessLossy, Kept, Stored, TypeOK
  <2>4. Late' \in {Late, Late \cup {chunk[p]}}
    BY <1>1, <1>2, <1>3, <1>8 DEF Late
  <2>5. chunk[p] \in Busy
    BY <1>1, <1>8, <2>1 DEF Busy
  <2>6. Store!Acknowledge(chunk[p])
    BY <1>2, <1>5, <1>6, <2>2, <2>3, <2>4, <2>5 DEF Store!Acknowledge, UnlessLossy, Kept, Stored, State
  <2>7. QED
    BY <1>1, <1>8, <2>6, StoreSteps
<1>9. QED
  BY <1>7, <1>8

(* A chunk marked during its save is overtaken; one whose save begins anew *)
(* is on time again, unless it is marked still.                            *)
LEMMA MarkRefines ==
  ASSUME IndInv, phase # "aborted", NEW p \in Savers, MarkDeltaAsDirty(p)
  PROVE  StoreStep
<1> USE DEF IndInv, Procs
<1>1. chunk[p] \in Chunks /\ pc[p] = "set"
  BY DEF MarkDeltaAsDirty, TypeOK
<1>2. UNCHANGED <<heap, cache, disk, torn, chunk, phase, acked, ackedAtClose, lossy, skipped>>
  BY DEF MarkDeltaAsDirty
<1>3. Mem' = Mem /\ Kept' = Kept
  BY <1>2, MemFrame
<1>4. Busy' = Busy
  <2>1. \A q \in Savers, c \in Chunks : Holding(q, c)' <=> Holding(q, c)
    BY <1>1, <1>2 DEF MarkDeltaAsDirty, Goto, Holding, TypeOK
  <2>2. QED
    BY <1>2, <2>1 DEF Busy
<1>5. remarked' \in {remarked, remarked \cup {chunk[p]}}
  BY DEF MarkDeltaAsDirty
<1>6. CASE chunk[p] \in lossy \/ remarked' = remarked
  <2>1. Late' = Late
    BY <1>2, <1>5, <1>6 DEF Late
  <2>2. QED
    BY <1>2, <1>3, <1>4, <2>1 DEF StoreStep, Store!vars, UnlessLossy, Kept, Stored, State
<1>7. CASE chunk[p] \notin lossy /\ remarked' = remarked \cup {chunk[p]}
  <2>1. chunk[p] \in Busy
    BY <1>1, <1>7 DEF Busy, Holding
  <2>2. Late' = Late \cup {chunk[p]}
    BY <1>2, <1>7 DEF Late
  <2>3. Store!Overtake(chunk[p])
    BY <1>2, <1>3, <1>4, <2>1, <2>2 DEF Store!Overtake, UnlessLossy, Kept, Stored, State
  <2>4. QED
    BY <1>1, <1>7, <2>3, StoreSteps
<1>8. QED
  BY <1>5, <1>6, <1>7

LEMMA SaveBeginsRefines ==
  ASSUME IndInv, phase # "aborted", SaveDeltaBegins
  PROVE  StoreStep
<1> USE DEF IndInv
<1>1. flChunk \in Chunks
  BY DEF SaveDeltaBegins, TypeOK
<1>2. /\ UNCHANGED <<heap, cache, disk, torn, pc, chunk, phase, acked, ackedAtClose, lossy, remarked>>
      /\ skipped' = skipped \ {flChunk}
  BY DEF SaveDeltaBegins, WorkerUnchanged, callVars
<1>3. Mem' = Mem /\ Kept' = Kept /\ Busy' = Busy
  BY <1>2, MemFrame, BusyFrame
<1>4. CASE flChunk \in lossy \cup remarked
  <2>1. Late' = Late
    BY <1>2, <1>4 DEF Late
  <2>2. QED
    BY <1>2, <1>3, <2>1 DEF StoreStep, Store!vars, UnlessLossy, Kept, Stored, State
<1>5. CASE flChunk \notin lossy \cup remarked
  <2>1. Late' = Late \ {flChunk}
    BY <1>2, <1>5 DEF Late
  <2>2. Store!Resume(flChunk)
    BY <1>2, <1>3, <2>1 DEF Store!Resume, UnlessLossy, Kept, Stored, State
  <2>3. QED
    BY <1>1, <1>5, <2>2, StoreSteps
<1>6. QED
  BY <1>4, <1>5

(* A write, also one that fails, moves the disk towards the memory. *)
LEMMA WriteRefines ==
  ASSUME IndInv, phase # "aborted", WriteDelta \/ WriteFails
  PROVE  StoreStep
<1> USE DEF IndInv
<1>1. flChunk \in Chunks /\ flPc = "write"
  BY DEF WriteDelta, WriteFails, Torn, TypeOK
<1>2. UNCHANGED <<heap, cache, pc, chunk, phase, acked, ackedAtClose, lossy, remarked>>
  BY DEF WriteDelta, WriteFails, Torn, WorkerUnchanged, callVars
<1>3. skipped' \in {skipped, skipped \cup {flChunk}}
  BY DEF WriteDelta, WriteFails, Torn
<1>4. Busy' = Busy
  BY <1>2, BusyFrame
<1>5. \A c \in Chunks \ {flChunk} : disk'[c] = disk[c] /\ (c \in torn' <=> c \in torn)
  BY DEF WriteDelta, WriteFails, Torn, RegionWritten, TypeOK
<1>6. CASE flChunk \in lossy
  <2>1. \A c \in Chunks \ lossy : Visible(c)' = Visible(c)
    BY <1>2, <1>5, <1>6 DEF Visible, Cached
  <2>2. Mem' = Mem
    BY <1>2, <2>1, MemUnchanged
  <2>3. Kept' = Kept /\ Late' = Late
    BY <1>2, <1>3, <1>5, <1>6 DEF UnlessLossy, Kept, Stored, Late
  <2>4. QED
    BY <1>2, <1>4, <2>2, <2>3 DEF StoreStep, Store!vars, UnlessLossy, Kept, Stored, State
<1>7. CASE flChunk \notin lossy
  <2> PICK c \in Chunks \ lossy : c = flChunk
    BY <1>1, <1>7
  <2>1. Cached(c)
    BY <1>1 DEF OneObject
  <2>2. \A e \in Chunks : Visible(e)' = Visible(e)
    BY <1>2, <1>5, <2>1 DEF Visible, Cached
  <2>3. Mem' = Mem /\ Mem[c] = heap[cache[c]]
    BY <1>2, <2>1, <2>2, MemUnchanged DEF Mem, UnlessLossy, Visible
  <2>4. \A e \in Chunks \ {c} : Stored(e)' = Stored(e)
    BY <1>5 DEF Stored
  <2>5. Kept[c] = Stored(c) /\ Kept' = [Kept EXCEPT ![c] = Stored(c)']
    BY <1>2, <2>4 DEF Kept, UnlessLossy
  <2>6. CASE Stored(c) \subseteq Stored(c)'
    <3>1. Stored(c)' \subseteq Mem[c]
      BY <2>1, <2>3, WriteEffect
    <3>2. Kept' = [Kept EXCEPT ![c] = @ \cup Stored(c)']
      BY <2>5, <2>6 DEF Kept, UnlessLossy
    <3>3. Late' \in {Late, Late \cup {c}}
      BY <1>2, <1>3 DEF Late
    <3>4. Store!Persist(c)
      BY <1>2, <1>4, <2>3, <3>1, <3>2, <3>3 DEF Store!Persist, UnlessLossy, State
    <3>5. QED
      BY <3>4, StoreSteps
  <2>7. CASE ~(Stored(c) \subseteq Stored(c)')
    <3>1. c \in torn'
      BY <2>7, WriteEffect
    <3>2. skipped' = skipped \cup {c}
      BY <3>1 DEF WriteDelta, WriteFails
    <3>3. Kept' = [Kept EXCEPT ![c] = {}]
      BY <2>5, <3>1 DEF Stored
    <3>4. Late' = Late \cup {c}
      BY <1>2, <3>2 DEF Late
    <3>5. Store!Ruin(c)
      BY <1>2, <1>4, <2>3, <3>3, <3>4 DEF Store!Ruin, UnlessLossy, State
    <3>6. QED
      BY <3>5, StoreSteps
  <2>8. QED
    BY <2>6, <2>7
<1>8. QED
  BY <1>6, <1>7

(* Steps of the worker and of Close's end that nobody sees. *)
LEMMA WorkerRefines ==
  ASSUME \/ TakeFromQueue \/ TakeDirtyKey \/ SaveDeltaMisses \/ ClearDirty \/ WorkerStops
         \/ UNCHANGED vars
  PROVE  StoreStep
<1>1. UNCHANGED <<heap, cache, disk, torn, pc, chunk, acked, ackedAtClose, lossy, skipped, remarked>>
  BY DEF TakeFromQueue, TakeDirtyKey, SaveDeltaMisses, ClearDirty, WorkerStops, WorkerUnchanged,
     CloseUnchanged, callVars, vars
<1>2. State' = State
  BY DEF TakeFromQueue, TakeDirtyKey, SaveDeltaMisses, ClearDirty, WorkerStops, vars, State
<1>3. QED
  BY <1>1, <1>2, MemFrame, BusyFrame DEF StoreStep, Store!vars, UnlessLossy, Kept, Stored, Late

(* An evicted delta is on disk, or its chunk is lost. *)
LEMMA CleanupRefines ==
  ASSUME IndInv, phase # "aborted", NEW E \in SUBSET Chunks, CleanupUnusedDeltas(E)
  PROVE  StoreStep
<1> USE DEF IndInv
<1> DEFINE S == {c \in E : InUse(c) \/ c \in torn \/ c \in skipped \cap remarked} \ lossy
<1>1. lossy' = lossy \cup S /\ S \subseteq Chunks \ lossy
  BY DEF CleanupUnusedDeltas
<1>2. UNCHANGED <<heap, disk, torn, pc, chunk, phase, acked, ackedAtClose, skipped, remarked>>
  BY DEF CleanupUnusedDeltas, callVars
<1>3. ASSUME NEW c \in Chunks \ lossy' PROVE Visible(c)' = Visible(c)
  <2>1. CASE c \in E
    <3>1. /\ c \notin lossy /\ ~InUse(c) /\ c \notin skipped \cap remarked /\ c \notin torn
          /\ Cached(c) /\ c \notin dirty
      BY <2>1 DEF CleanupUnusedDeltas, CleanDeltas, CachedChunks
    <3>2. c \notin skipped => Unsaved(c) = {}
      BY <3>1 DEF QueueCoversUnsaved, Covered, InUse, Flushing
    <3>3. c \notin remarked => Unsaved(c) = {}
      BY <3>1 DEF DirtyCoversUnsaved, AboutToMark, InUse, Holding
    <3>4. heap[cache[c]] = disk[c]
      BY <3>1, <3>2, <3>3 DEF Unsaved, Stored, MemoryAhead
    <3>5. ~Cached(c)'
      BY <2>1 DEF CleanupUnusedDeltas, Cached
    <3>6. QED
      BY <1>2, <3>1, <3>4, <3>5 DEF Visible
  <2>2. CASE c \notin E
    BY <1>2, <2>2 DEF CleanupUnusedDeltas, Visible, Cached
  <2>3. QED
    BY <2>1, <2>2
<1>4. \A c \in Chunks \ lossy' : (c \in Busy' <=> c \in Busy) /\ (c \in Late' <=> c \in Late)
  BY <1>1, <1>2 DEF Busy, Holding, Late
<1>5. Late' \subseteq Chunks
  BY <1>2 DEF Late, TypeOK
<1>6. Store!Lose(S)
  BY <1>1, <1>2, <1>3, <1>4, <1>5, LosesOnly DEF Stored
<1>7. QED
  BY <1>1, <1>6, StoreLoses

(* Close owes what was acknowledged, and ends when it has paid. *)
LEMMA CloseRefines ==
  ASSUME IndInv, phase # "aborted", Close \/ CloseEnds \/ MapRaceAbort
  PROVE  StoreStep
<1> USE DEF IndInv
<1>1. UNCHANGED <<heap, cache, disk, torn, pc, chunk, acked, lossy, skipped, remarked>>
  BY DEF Close, CloseEnds, MapRaceAbort, CloseUnchanged, callVars
<1>2. /\ Mem' = Mem /\ Kept' = Kept /\ Busy' = Busy
      /\ Late' = Late /\ UnlessLossy(acked)' = UnlessLossy(acked)
  BY <1>1, MemFrame, BusyFrame DEF Late, UnlessLossy, Kept, Stored
<1>3. State # "aborted"
  BY DEF State, TypeOK
<1>4. CASE Close
  <2>1. State = "open" /\ State' = "closing"
    BY <1>4 DEF Close, State
  <2>2. UnlessLossy(ackedAtClose)'
          = [c \in Chunks |-> IF c \in Busy THEN {} ELSE UnlessLossy(acked)[c]]
    BY <1>1, <1>4 DEF Close, UnlessLossy, Kept, Stored, Busy
  <2>3. Store!Close
    BY <1>1, <1>2, <2>1, <2>2 DEF Store!Close
  <2>4. QED
    BY <1>3, <2>3 DEF StoreStep, Store!Next
<1>5. CASE CloseEnds
  <2>1. State = "closing" /\ State' = "closed" /\ ackedAtClose' = ackedAtClose
    BY <1>5 DEF CloseEnds, State
  <2>2. ASSUME NEW c \in Chunks \ (Late \cup lossy) PROVE ackedAtClose[c] \subseteq Stored(c)
    BY <1>5, <2>2 DEF CloseEnds, CloseCovers, Owed, Stored, Late
  <2>3. \A c \in Chunks \ Late : UnlessLossy(ackedAtClose)[c] \subseteq Kept[c]
    BY <2>2 DEF UnlessLossy, Kept, Stored
  <2>4. Store!CloseEnds
    BY <1>1, <1>2, <2>1, <2>3 DEF Store!CloseEnds, UnlessLossy, Kept, Stored
  <2>5. QED
    BY <1>3, <2>4 DEF StoreStep, Store!Next
<1>6. CASE MapRaceAbort
  <2>1. State' = "aborted" /\ ackedAtClose' = ackedAtClose
    BY <1>6 DEF MapRaceAbort, State
  <2>2. Store!Abort
    BY <1>1, <1>2, <2>1 DEF Store!Abort, UnlessLossy, Kept, Stored
  <2>3. QED
    BY <1>3, <2>2 DEF StoreStep, Store!Next
<1>7. QED
  BY <1>4, <1>5, <1>6

(***************************************************************************)
(* The delta cache implements DurableStore: for any chunks, callers, queue *)
(* and cache, lookups, background saving, eviction and reloading are       *)
(* invisible but for the chunks that are lossy.                            *)
(***************************************************************************)
THEOREM RefinesStore == Spec => ImplementsStore
<1>1. Init => Store!Init
  <2> SUFFICES ASSUME Init PROVE Store!Init
    OBVIOUS
  <2>1. Mem = disk /\ Kept = disk /\ UnlessLossy(acked) = disk
    BY DEF Init, Mem, UnlessLossy, Kept, Stored, Visible, Cached
  <2>2. UnlessLossy(ackedAtClose) = [c \in Chunks |-> {}]
    BY DEF Init, UnlessLossy, Kept, Stored
  <2>3. Busy = {} /\ Late = {} /\ State = "open"
    BY DEF Init, Busy, Holding, Late, State, Procs
  <2>4. QED
    BY <2>1, <2>2, <2>3 DEF Init, Store!Init
<1>2. IndInv /\ [Next]_vars => StoreStep
  <2> SUFFICES ASSUME IndInv, [Next]_vars PROVE StoreStep
    OBVIOUS
  <2>1. CASE UNCHANGED vars
    BY <2>1, WorkerRefines
  <2>2. CASE Next
    <3> USE <2>2 DEF Next
    <3>1. ASSUME Call PROVE StoreStep
      BY <3>1, SaveChunkRefines, ReadsRefine DEF Call, Procs
    <3>2. ASSUME NEW p \in Savers, SaverStep(p) PROVE StoreStep
      BY <3>2, ReadsRefine, ReadFailsRefines, PutRefines, SetRefines, AcknowledgeRefines, MarkRefines
         DEF SaverStep, Procs
    <3>3. ASSUME NEW p \in Loaders, LoaderStep(p) PROVE StoreStep
      BY <3>3, ReadsRefine, PutRefines DEF LoaderStep, Procs
    <3>4. ASSUME SaveDelta PROVE StoreStep
      BY <3>4, SaveBeginsRefines, WriteRefines, WorkerRefines DEF SaveDelta
    <3>5. QED
      BY <3>1, <3>2, <3>3, <3>4, WorkerRefines, CleanupRefines, CloseRefines
  <2>3. QED
    BY <2>1, <2>2
<1>3. QED
  BY <1>1, <1>2, Invariance, PTL DEF Spec, ImplementsStore, Store!Spec, StoreStep
=============================================================================
