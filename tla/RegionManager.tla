--------------------------- MODULE RegionManager ---------------------------
(***************************************************************************)
(* The open region files of internal/storage/region_manager.go: the map    *)
(* regions, the LRU list that says which one to close when MaxOpenRegions  *)
(* are open, the regions that are not to be closed because a save is under *)
(* way, and compactionWorker.                                              *)
(*                                                                         *)
(* Several goroutines read deltas, one saves them (saveDelta runs in       *)
(* saveWorker, and in Close after saveWorker has stopped).  A caller gets  *)
(* its RegionFile first and uses it later, under the mutex of the file;    *)
(* meanwhile it may have been closed.  updateLRU runs under no lock after  *)
(* a hit; it is one step, and accesses of the list and the map that        *)
(* overlap it are not modelled.  What is in a file is in RegionFile: here  *)
(* one section under the file's mutex stands for GetChunk, and one for     *)
(* SaveChunk.                                                              *)
(***************************************************************************)
EXTENDS Integers, Sequences, FiniteSets, SequencesExt

CONSTANTS
  Regions,   \* keys of regions
  Readers,   \* goroutines calling GetChunkDelta
  Writer,    \* the goroutine calling SaveChunkDelta
  Worker,    \* compactionWorker
  Closer,    \* the goroutine calling Close
  Files,     \* identities of *RegionFile objects; unreachable ones are reused
  NoRegion, NoFile, Nobody,
  MaxOpen,   \* MaxOpenRegions (16 in the code)
  MaxCalls   \* bound of the model: number of calls started

Callers == Readers \cup {Writer}

ASSUME ConstantsAssumption ==
  /\ NoRegion \notin Regions /\ NoFile \notin Files
  /\ Writer \notin Readers
  /\ Nobody \notin Callers \cup {Worker, Closer}
  /\ {Worker, Closer} \cap Callers = {} /\ Worker # Closer
  /\ MaxOpen \in Nat \ {0} /\ MaxCalls \in Nat
  /\ IsFiniteSet(Regions)

VARIABLES
  regions,       \* the cached file of each region
  lruList,       \* the most recently used first; mapped: lruMap holds the element
  dirtyRegions,
  regionOf,      \* the region of an open file
  openFiles,
  mutex,         \* of each file: who holds it for writing
  holder,        \* who holds regionsMutex for writing
  pc, key, file, \* locals of a call
  victim,        \* the element closeOldestRegion has selected
  worker,        \* progress of compactionWorker
  toScan,        \* regions it has still to look at
  grown,         \* regions whose file NeedsCompaction
  closing,       \* progress of Close
  toClose        \* regions it has still to close

(***************************************************************************)
(* History variables.                                                      *)
(***************************************************************************)
VARIABLES
  strayed,   \* a region that is not open was put into the LRU list
  calls      \* number of calls started

cacheVars  == <<regions, lruList, strayed>>
fileVars   == <<regionOf, openFiles>>
callVars   == <<pc, key, file, calls>>
workerVars == <<worker, toScan>>
closeVars  == <<closing, toClose>>
vars == <<cacheVars, dirtyRegions, fileVars, mutex, holder, callVars, victim, workerVars,
          grown, closeVars>>

NoVictim == [key |-> NoRegion, mapped |-> FALSE]
OpenRegions == {k \in Regions : regions[k] # NoFile}

(* regionsMutex.  The worker holds it for reading while it scans. *)
CanRLock == holder = Nobody
CanLock  == holder = Nobody /\ worker \in {"waiting", "stopped"}

Goto(p, label) == pc' = [pc EXCEPT ![p] = label]

Return(p) ==
  /\ Goto(p, "idle")
  /\ key' = [key EXCEPT ![p] = NoRegion]
  /\ file' = [file EXCEPT ![p] = NoFile]

(* What a caller does with the file it has got. *)
Uses(p, f) ==
  /\ file' = [file EXCEPT ![p] = f]
  /\ Goto(p, IF p = Writer THEN "mark" ELSE "io")

(***************************************************************************)
(* The LRU list.                                                           *)
(***************************************************************************)
Element(k) == [key |-> k, mapped |-> TRUE]

(* The list when lruMap has forgotten the element it had for k. *)
Unmapped(list, k) ==
  [i \in DOMAIN list |-> IF list[i].key = k THEN [key |-> k, mapped |-> FALSE] ELSE list[i]]

(* PushFront of a new element, which enters lruMap. *)
Pushed(list, k) == <<Element(k)>> \o Unmapped(list, k)

(* MoveToFront for the element of lruMap, or a new one. *)
Touched(list, k) ==
  IF \E i \in DOMAIN list : list[i] = Element(k)
  THEN <<Element(k)>> \o RemoveAt(list, CHOOSE i \in DOMAIN list : list[i] = Element(k))
  ELSE Pushed(list, k)

(* The element e is removed, and what lruMap holds for its key forgotten.  *)
(* Of several that look like e it is the last one.                         *)
LastIndex(list, e) ==
  CHOOSE i \in DOMAIN list : list[i] = e /\ \A j \in DOMAIN list : list[j] = e => j <= i

Dropped(list, e) == Unmapped(RemoveAt(list, LastIndex(list, e)), e.key)

(***************************************************************************)
(* Definitions whose name starts with Faulty are variants with a plausible *)
(* bug; no other definition uses them.  Each shows that some property      *)
(* would catch the bug.                                                    *)
(***************************************************************************)

(***************************************************************************)
(* GetRegion.                                                              *)
(***************************************************************************)
(* GetChunkDelta or SaveChunkDelta, up to the end of the read-locked look  *)
(* into regions.  The saves are over when Close begins.                    *)
GetRegion(p, k) ==
  /\ pc[p] = "idle" /\ calls < MaxCalls
  /\ p = Writer => closing = "no"
  /\ CanRLock
  /\ calls' = calls + 1
  /\ key' = [key EXCEPT ![p] = k]
  /\ file' = [file EXCEPT ![p] = regions[k]]
  /\ Goto(p, IF k \in OpenRegions THEN "touch" ELSE "open")
  /\ UNCHANGED <<cacheVars, dirtyRegions, fileVars, mutex, holder, victim, workerVars,
                 grown, closeVars>>

(* updateLRU after a hit, whatever has become of the region since. *)
UpdateLRU(p) ==
  /\ pc[p] = "touch"
  /\ lruList' = Touched(lruList, key[p])
  /\ strayed' = (strayed \/ key[p] \notin OpenRegions)
  /\ Uses(p, file[p])
  /\ UNCHANGED <<regions, dirtyRegions, fileVars, mutex, holder, key, calls, victim,
                 workerVars, grown, closeVars>>

(***************************************************************************)
(* openRegion.                                                             *)
(***************************************************************************)
OpeningUnchanged == UNCHANGED <<dirtyRegions, mutex, key, calls, workerVars, grown, closeVars>>

(* Another goroutine has opened the region in the meantime. *)
OpenedByAnother(p) ==
  /\ pc[p] = "open" /\ CanLock
  /\ key[p] \in OpenRegions
  /\ lruList' = Touched(lruList, key[p])
  /\ Uses(p, regions[key[p]])
  /\ UNCHANGED <<regions, strayed, fileVars, holder, victim>>
  /\ OpeningUnchanged

(* Does not look again under the lock. *)
FaultyOpenBegins(p) ==
  /\ pc[p] = "open" /\ CanLock
  /\ holder' = p
  /\ Goto(p, IF Cardinality(OpenRegions) >= MaxOpen THEN "select" ELSE "create")
  /\ UNCHANGED <<cacheVars, fileVars, file, victim>>
  /\ OpeningUnchanged

OpenBegins(p) ==
  /\ pc[p] = "open" /\ CanLock
  /\ key[p] \notin OpenRegions
  /\ holder' = p
  /\ Goto(p, IF Cardinality(OpenRegions) >= MaxOpen THEN "select" ELSE "create")
  /\ UNCHANGED <<cacheVars, fileVars, file, victim>>
  /\ OpeningUnchanged

(* Pays no attention to dirtyRegions. *)
FaultyOldest(e) == lruList # <<>> /\ e = lruList[Len(lruList)]

(* closeOldestRegion: the last element whose region is not dirty. *)
Oldest(e) ==
  \E i \in DOMAIN lruList :
    /\ lruList[i] = e
    /\ e.key \notin dirtyRegions
    /\ \A j \in DOMAIN lruList : lruList[j].key \notin dirtyRegions => j <= i

AllDirty(p) ==
  /\ pc[p] = "select"
  /\ \A i \in DOMAIN lruList : lruList[i].key \in dirtyRegions
  /\ Goto(p, "create")
  /\ UNCHANGED <<cacheVars, fileVars, holder, file, victim>>
  /\ OpeningUnchanged

(* The element is one of no open region: it is all that is removed. *)
RemoveStray(p) ==
  /\ pc[p] = "select"
  /\ \E k \in Regions \ OpenRegions, b \in BOOLEAN :
       LET e == [key |-> k, mapped |-> b]
       IN  Oldest(e) /\ lruList' = Dropped(lruList, e)
  /\ Goto(p, "create")
  /\ UNCHANGED <<regions, strayed, fileVars, holder, file, victim>>
  /\ OpeningUnchanged

SelectVictim(p) ==
  /\ pc[p] = "select"
  /\ \E k \in OpenRegions, b \in BOOLEAN :
       LET e == [key |-> k, mapped |-> b]
       IN  Oldest(e) /\ victim' = e
  /\ Goto(p, "evict")
  /\ UNCHANGED <<cacheVars, fileVars, holder, file>>
  /\ OpeningUnchanged

(* region.Sync and region.Close wait for the file's mutex. *)
VictimClosed(p) ==
  /\ pc[p] = "evict"
  /\ mutex[regions[victim.key]] = Nobody
  /\ openFiles' = openFiles \ {regions[victim.key]}
  /\ regionOf' = [regionOf EXCEPT ![regions[victim.key]] = NoRegion]
  /\ victim' = NoVictim

(* Leaves the element in the list. *)
FaultyCloseVictim(p) ==
  /\ VictimClosed(p)
  /\ regions' = [regions EXCEPT ![victim.key] = NoFile]
  /\ Goto(p, "create")
  /\ UNCHANGED <<lruList, strayed, holder, file>>
  /\ OpeningUnchanged

CloseVictim(p) ==
  /\ VictimClosed(p)
  /\ regions' = [regions EXCEPT ![victim.key] = NoFile]
  /\ lruList' = Dropped(lruList, victim)
  /\ Goto(p, "create")
  /\ UNCHANGED <<strayed, holder, file>>
  /\ OpeningUnchanged

(* file.Close returns an error: the descriptor is gone all the same, the   *)
(* region stays in the maps, and openRegion fails.                         *)
CloseVictimFails(p) ==
  /\ VictimClosed(p)
  /\ holder' = Nobody
  /\ Return(p)
  /\ UNCHANGED <<cacheVars, dirtyRegions, mutex, calls, workerVars, grown, closeVars>>

(* Nobody has a pointer to the file any more. *)
Unreachable(f) ==
  /\ f \notin openFiles /\ mutex[f] = Nobody
  /\ \A k \in Regions : regions[k] # f
  /\ \A p \in Callers : file[p] # f

NewRegionFile(p) ==
  /\ pc[p] = "create"
  /\ \E f \in Files : Unreachable(f)      \* memory never runs out: Files is large enough
  /\ LET f == CHOOSE g \in Files : Unreachable(g)
     IN  /\ regions' = [regions EXCEPT ![key[p]] = f]
         /\ openFiles' = openFiles \cup {f}
         /\ regionOf' = [regionOf EXCEPT ![f] = key[p]]
         /\ Uses(p, f)
  /\ lruList' = Pushed(lruList, key[p])
  /\ holder' = Nobody
  /\ UNCHANGED <<strayed, victim>>
  /\ OpeningUnchanged

(* Returns with the lock held. *)
FaultyNewRegionFileFails(p) ==
  /\ pc[p] = "create"
  /\ Return(p)
  /\ UNCHANGED <<cacheVars, dirtyRegions, fileVars, mutex, holder, calls, victim,
                 workerVars, grown, closeVars>>

(* The file cannot be opened or initialised. *)
NewRegionFileFails(p) ==
  /\ pc[p] = "create"
  /\ holder' = Nobody
  /\ Return(p)
  /\ UNCHANGED <<cacheVars, dirtyRegions, fileVars, mutex, calls, victim, workerVars,
                 grown, closeVars>>

(***************************************************************************)
(* Use of the file.                                                        *)
(***************************************************************************)
UseUnchanged == UNCHANGED <<cacheVars, fileVars, holder, calls, victim, workerVars, closeVars>>

(* setDirty(regionKey, true). *)
MarkDirty ==
  /\ pc[Writer] = "mark" /\ CanLock
  /\ dirtyRegions' = dirtyRegions \cup {key[Writer]}
  /\ Goto(Writer, "io")
  /\ UNCHANGED <<mutex, key, file, grown>>
  /\ UseUnchanged

(* GetChunk or SaveChunk gets the file's mutex. *)
BeginIO(p) ==
  /\ pc[p] = "io" /\ mutex[file[p]] = Nobody
  /\ mutex' = [mutex EXCEPT ![file[p]] = p]
  /\ Goto(p, "busy")
  /\ UNCHANGED <<dirtyRegions, key, file, grown>>
  /\ UseUnchanged

(* May return an error with the lock of the file held. *)
FaultyReadEnds(p) ==
  /\ p # Writer /\ pc[p] = "busy"
  /\ mutex' \in {mutex, [mutex EXCEPT ![file[p]] = Nobody]}
  /\ Return(p)
  /\ UNCHANGED <<dirtyRegions, grown>>
  /\ UseUnchanged

(* GetChunk returns a delta, or an error when the file is closed. *)
ReadEnds(p) ==
  /\ p # Writer /\ pc[p] = "busy"
  /\ mutex' = [mutex EXCEPT ![file[p]] = Nobody]
  /\ Return(p)
  /\ UNCHANGED <<dirtyRegions, grown>>
  /\ UseUnchanged

(* SaveChunk returns.  It may have left the place of an older delta unused. *)
WriteEnds ==
  /\ pc[Writer] = "busy"
  /\ mutex' = [mutex EXCEPT ![file[Writer]] = Nobody]
  /\ grown' \in {grown} \cup (IF file[Writer] \in openFiles
                               THEN {grown \cup {key[Writer]}} ELSE {})
  /\ Goto(Writer, "clear")
  /\ UNCHANGED <<dirtyRegions, key, file>>
  /\ UseUnchanged

(* setDirty(regionKey, false), whether SaveChunk has failed or not. *)
ClearDirty ==
  /\ pc[Writer] = "clear" /\ CanLock
  /\ dirtyRegions' = dirtyRegions \ {key[Writer]}
  /\ Return(Writer)
  /\ UNCHANGED <<mutex, grown>>
  /\ UseUnchanged

(***************************************************************************)
(* compactionWorker.                                                       *)
(***************************************************************************)
WorkerUnchanged ==
  UNCHANGED <<cacheVars, dirtyRegions, fileVars, holder, callVars, victim, grown, closeVars>>

Tick ==
  /\ worker = "waiting" /\ CanRLock
  /\ worker' = "scanning"
  /\ toScan' = OpenRegions
  /\ UNCHANGED mutex
  /\ WorkerUnchanged

(* NeedsCompaction, under the read lock of the file.  Stat of a closed file *)
(* fails, and says no.  A scan that finds a file to compact never gets to   *)
(* the other ones.                                                          *)
NeedsCompaction(k) ==
  /\ worker = "scanning" /\ k \in toScan
  /\ mutex[regions[k]] = Nobody
  /\ IF k \in grown /\ regions[k] \in openFiles
     THEN worker' = "compact" /\ toScan' = {k}
     ELSE worker' = "scanning" /\ toScan' = toScan \ {k}
  /\ UNCHANGED mutex
  /\ WorkerUnchanged

(* Compact takes the lock of the file, and then calls NeedsCompaction, which *)
(* waits for it: only CompactionSpec below has steps that follow.           *)
Compact(k) ==
  /\ worker = "compact" /\ k \in toScan
  /\ mutex[regions[k]] = Nobody
  /\ mutex' = [mutex EXCEPT ![regions[k]] = Worker]
  /\ worker' = "compacting"
  /\ UNCHANGED toScan
  /\ WorkerUnchanged

ScanEnds ==
  /\ worker = "scanning" /\ toScan = {}
  /\ worker' = "waiting"
  /\ UNCHANGED <<toScan, mutex>>
  /\ WorkerUnchanged

WorkerStops ==
  /\ worker = "waiting" /\ closing = "waiting"
  /\ worker' = "stopped"
  /\ UNCHANGED <<toScan, mutex>>
  /\ WorkerUnchanged

(***************************************************************************)
(* Close.                                                                  *)
(***************************************************************************)
CloseUnchanged == UNCHANGED <<dirtyRegions, mutex, callVars, victim, workerVars, grown>>

(* close(stopChan), by a goroutine that has waited for the last save. *)
Close ==
  /\ closing = "no" /\ pc[Writer] = "idle"
  /\ closing' = "waiting"
  /\ UNCHANGED <<cacheVars, fileVars, holder, toClose>>
  /\ CloseUnchanged

CloseLocks ==
  /\ closing = "waiting" /\ worker = "stopped" /\ CanLock
  /\ holder' = Closer
  /\ closing' = "closing"
  /\ toClose' = OpenRegions
  /\ UNCHANGED <<cacheVars, fileVars>>
  /\ CloseUnchanged

(* An error of region.Close is kept for the result, and the loop goes on. *)
CloseRegion(k) ==
  /\ closing = "closing" /\ k \in toClose
  /\ mutex[regions[k]] = Nobody
  /\ openFiles' = openFiles \ {regions[k]}
  /\ regionOf' = [regionOf EXCEPT ![regions[k]] = NoRegion]
  /\ toClose' = toClose \ {k}
  /\ UNCHANGED <<cacheVars, holder, closing>>
  /\ CloseUnchanged

CloseEnds ==
  /\ closing = "closing" /\ toClose = {}
  /\ regions' = [k \in Regions |-> NoFile]
  /\ lruList' = <<>>
  /\ holder' = Nobody
  /\ closing' = "closed"
  /\ UNCHANGED <<strayed, fileVars, toClose>>
  /\ CloseUnchanged

-----------------------------------------------------------------------------
Init ==
  /\ regions = [k \in Regions |-> NoFile]
  /\ lruList = <<>>
  /\ dirtyRegions = {}
  /\ regionOf = [f \in Files |-> NoRegion] /\ openFiles = {}
  /\ mutex = [f \in Files |-> Nobody] /\ holder = Nobody
  /\ pc = [p \in Callers |-> "idle"]
  /\ key = [p \in Callers |-> NoRegion] /\ file = [p \in Callers |-> NoFile]
  /\ victim = NoVictim
  /\ worker = "waiting" /\ toScan = {}
  /\ grown = {}
  /\ closing = "no" /\ toClose = {}
  /\ strayed = FALSE /\ calls = 0

(* A call, once it has begun. *)
CallStep(p) ==
  \/ UpdateLRU(p)
  \/ OpenedByAnother(p) \/ OpenBegins(p)
  \/ AllDirty(p) \/ RemoveStray(p) \/ SelectVictim(p)
  \/ CloseVictim(p) \/ CloseVictimFails(p)
  \/ NewRegionFile(p) \/ NewRegionFileFails(p)
  \/ BeginIO(p) \/ ReadEnds(p)
  \/ p = Writer /\ (MarkDirty \/ WriteEnds \/ ClearDirty)

ScanStep == (\E k \in Regions : NeedsCompaction(k) \/ Compact(k)) \/ ScanEnds

CloseStep == CloseLocks \/ (\E k \in Regions : CloseRegion(k)) \/ CloseEnds

Next ==
  \/ \E p \in Callers, k \in Regions : GetRegion(p, k)
  \/ \E p \in Callers : CallStep(p)
  \/ Tick \/ ScanStep \/ WorkerStops
  \/ Close \/ CloseStep

(***************************************************************************)
(* A step that waits for a mutex is enabled now and then; Go's mutexes let *)
(* nobody wait for ever while others come and go.  New calls, ticks and    *)
(* Close need not happen.                                                  *)
(***************************************************************************)
Fairness ==
  /\ \A p \in Callers : SF_vars(CallStep(p))
  /\ SF_vars(ScanStep) /\ SF_vars(WorkerStops)
  /\ SF_vars(CloseStep)

Spec == Init /\ [][Next]_vars /\ Fairness

(***************************************************************************)
(* The rest of Compact, from its call of NeedsCompaction: the file is      *)
(* replaced by one without unused places.                                  *)
(***************************************************************************)
CompactReplaces(k) ==
  /\ worker = "compacting" /\ k \in toScan
  /\ mutex[regions[k]] = Nobody      \* NeedsCompaction's RLock
  /\ mutex' = [mutex EXCEPT ![regions[k]] = Nobody]
  /\ worker' = "scanning"
  /\ toScan' = {}
  /\ grown' = grown \ {k}
  /\ UNCHANGED <<cacheVars, dirtyRegions, fileVars, holder, callVars, victim, closeVars>>

CompactionNext == Next \/ \E k \in Regions : CompactReplaces(k)

CompactionSpec ==
  /\ Init /\ [][CompactionNext]_vars
  /\ Fairness
  /\ SF_vars(\E k \in Regions : CompactReplaces(k))

-----------------------------------------------------------------------------
(* Every variable has its type, and regionsMutex is held by the one caller *)
(* that is opening a region, or by Close.                                  *)
Types ==
  /\ regions \in [Regions -> Files \cup {NoFile}]
  /\ lruList \in Seq([key : Regions, mapped : BOOLEAN])
  /\ dirtyRegions \in SUBSET Regions
  /\ regionOf \in [Files -> Regions \cup {NoRegion}]
  /\ openFiles \in SUBSET Files
  /\ mutex \in [Files -> Callers \cup {Worker, Nobody}]
  /\ holder \in Callers \cup {Closer, Nobody}
  /\ pc \in [Callers -> {"idle", "touch", "open", "select", "evict", "create", "mark", "io",
                         "busy", "clear"}]
  /\ key \in [Callers -> Regions \cup {NoRegion}]
  /\ file \in [Callers -> Files \cup {NoFile}]
  /\ victim \in [key : Regions, mapped : BOOLEAN] \cup {NoVictim}
  /\ worker \in {"waiting", "scanning", "compact", "compacting", "stopped"}
  /\ toScan \in SUBSET Regions
  /\ grown \in SUBSET Regions
  /\ closing \in {"no", "waiting", "closing", "closed"}
  /\ toClose \in SUBSET Regions
  /\ strayed \in BOOLEAN
  /\ calls \in 0..MaxCalls

HolderOK ==
  /\ \A p \in Callers : holder = p <=> pc[p] \in {"select", "evict", "create"}
  /\ holder = Closer <=> closing = "closing"

TypeOK == Types /\ HolderOK

(***************************************************************************)
(* A region that is open is open once, and it is the cached file: two      *)
(* index tables of one file would overwrite each other's data              *)
(* (openRegion, region_manager.go:101, closeOldestRegion).                 *)
(***************************************************************************)
OneOpenFile ==
  \A f \in openFiles : regionOf[f] \in Regions /\ regions[regionOf[f]] = f

(***************************************************************************)
(* Unless updateLRU has put a closed region into the list, no more files   *)
(* are open than MaxOpenRegions says; with a limit of one, a second while  *)
(* the first is dirty, and then for good (region_manager.go:107).          *)
(***************************************************************************)
Limit == IF MaxOpen = 1 THEN 2 ELSE MaxOpen

LimitKept == ~strayed => Cardinality(OpenRegions) <= Limit

(***************************************************************************)
(* A file that is open when setDirty(true) has returned stays open until   *)
(* its save has ended (region_manager.go:230).                             *)
(***************************************************************************)
Saving == pc[Writer] \in {"io", "busy"} /\ file[Writer] \in openFiles

WriteKeepsFile == [][Saving /\ pc'[Writer] \in {"io", "busy"} => Saving']_vars

(***************************************************************************)
(* Unless Compact waits for itself, each call of GetChunkDelta and         *)
(* SaveChunkDelta returns, whatever fails in it, and so does Close         *)
(* (region_manager.go:98, 245).                                            *)
(***************************************************************************)
CallsEnd ==
  /\ \A p \in Callers : pc[p] # "idle" ~> pc[p] = "idle" \/ worker = "compacting"
  /\ closing = "waiting" ~> closing = "closed" \/ worker = "compacting"

(***************************************************************************)
(* "Compact copies all live deltas into a new file and replaces the old    *)
(* one with it" (region_file.go:502): a compaction that has begun ends.    *)
(***************************************************************************)
CompactionEnds == worker = "compacting" ~> worker = "scanning"
=============================================================================
