# TLA+ models of go-grpc-sandbox-game

This directory holds TLA+ modules, TLC configurations and TLAPS proofs for the
game server in `src/`: a gRPC server (`cmd/server`) that keeps a
two-dimensional world of chunks, streams it to players, and stores what the
players changed. The modules are translated from the Go source; paths below
are relative to `src/`.

## 1. The system

| Component | State | Operations | What makes it correct |
|---|---|---|---|
| **Delta cache** `internal/storage/binary_storage.go`, `chunk_delta.go` | `deltaCache`, `dirtyDeltas`, `saveQueue`, `stopChan` | `SaveChunk`, `LoadChunk`, `GetDelta`, `GetOrCreateDelta`, `saveWorker`, `cleanupWorker`, `Close` | an acknowledged block is visible, reaches the disk by itself, and is there after `Close` |
| **Region files** `region_file.go` | header, table of 256 entries, the data, and the index in memory | `NewRegionFile`, `SaveChunk`, `GetChunk`, `Compact`, `Sync`, `Close` | slots do not overlap; the table fits the data at any stop |
| **Region manager** `region_manager.go` | open regions, LRU list, dirty flags | `GetRegion`, `openRegion`, `closeOldestRegion`, `SaveChunkDelta`, `GetChunkDelta`, `compactionWorker`, `Close` | one open file per region; a region being written stays open; compaction and `Close` end |
| **Chunk manager** `internal/chunkmanager` | `chunks`, `activeChunks`, `blockCache`, `chunksToRemove` | `GetOrGenerateChunk`, `SetBlock`, first save, periodic save, cleanup | what was placed is what the next request gets, and what the storage has in the end |
| **Block manager** `internal/block/block_manager.go`, `dynamic_blocks.go` | `blocks`, `dynamicBlocks`, `interactiveBlocks`, `updateQueue`, `blockEvents` | `CreateBlock`, `UpdateBlock`, `InteractWithBlock`, `processDynamicBlocks`, `LoadBlocksFromChunk` | a dynamic block stays scheduled and ticks; the three maps hold the same object |
| **Interactive blocks** `interactive_blocks.go` | fields and properties of a door, a chest | `OnInteract`, `ToProto`, `Deserialize` | fields and properties agree at every save |
| **Game loop** `internal/gameloop` | list of systems, clock, regions, weather | `NewLoop`, `Run`, `Tick`, `refreshRegions` | every system ticks in every round, whatever plugins do |
| **Client streams** `internal/service/handlers.go`, `broadcast.go`, `client_conn.go`, `shutdown.go` | `clientStreams`, `s.mu`, two queues per connection, `lastPosBroadcast` | `JoinGame`, `GameStream`, broadcasts, `DisconnectAllClients`, `Stop` | nobody sends on a closed queue; broadcasts reach who is connected; shutdown is delivered |
| **Player manager** `internal/playermanager` | players and positions | `AddPlayer`, `UpdatePlayerPosition`, lookups | the saved position is the last one |
| **Plugin registry** `internal/plugin` | systems, hooks, commands, metadata, and how many of each are core | registration, `MarkCore`, `LoadPlugins`, `ReloadPlugins` | a reload takes away what plugins made, and only that |
| **Server process** `cmd/server/main.go` | listener, signal handler, console | start, `Stop`, `GracefulStop` | stopping saves everything and ends |

How they interact: gRPC handlers and the block update loop read and change
chunks through the chunk manager; the chunk manager saves modified chunks
through the delta cache, periodically and at the end of its context; the delta
cache reads and writes region files through the region manager. Changed blocks
come back on `blockEvents` and are broadcast. `Stop` disconnects the clients,
saves the players and the chunks, and closes the storage; the signal handler then
calls `GracefulStop`.

The hard parts are all concurrent. Pointers to deltas, regions and chunks are
used after the lock they were found under is released. Three parties close the
same channels. Sends under locks may block. Background workers race with
shutdown. `PROJECT.json` lists the hazards by line, with the properties that
cover them, or why none does.

## 2. Modules

| Module | Models | Checked by | Proved in |
|---|---|---|---|
| `DurableStore` | abstract: what callers of the storage may rely on | as a property of `MCDeltaStorage` | `DeltaStorage_proofs` (`RefinesStore`) |
| `DeltaStorage` | the delta cache, its workers and `Close`; implements `DurableStore` | `MCDeltaStorage` with three cfgs | `DeltaStorage_proofs` |
| `RegionFile` | one region file: `SaveChunk`, `GetChunk`, partial writes, crashes | `MCRegionFile`, `RegionFile.cfg` | `RegionFile_proofs` |
| `ChunkCodec` | `serializeChunk`, `deserializeChunk` as functions | `MCRegionFile` | `RegionFile_proofs` |
| `RegionStore` | abstract: what callers of a region may rely on, in whole deltas | as a property of `MCRegionFile` | `RegionFile_proofs` (`RefinesRegionStore`) |
| `RegionChunks` | the region file with that codec; implements `RegionStore` | `MCRegionFile` | `RegionFile_proofs` |
| `RegionManager` | the open regions: lookup, LRU eviction, dirty flags, `compactionWorker`, `Close` | itself, two cfgs | `RegionManager_proofs` |
| `ChunkManager` | the chunks in memory, with savers, cleanup and `Stop`, over a storage that is set block by block and may lose what it has | `MCChunkManager`, `ChunkManager.cfg` | `ChunkManager_proofs` |
| `Blocks` | the kinds of block as functions: `Tick`, `OnInteract`, `ToProto`, `Deserialize` | `MCBlockManager` | `BlockManager_proofs` |
| `BlockManager` | the live blocks: maps, update queue, update loop, `blockEvents` | `MCBlockManager`, `BlockManager.cfg` | `BlockManager_proofs` |
| `PluginRegistry` | the registry and its manager, main and console | with `GameLoop` | `GameLoop_proofs` |
| `GameLoop` | the loop and its systems, over `PluginRegistry` | `MCGameLoop`, `GameLoop.cfg` | `GameLoop_proofs` |
| `ClientStreams` | streams, broadcasts, reconnects, `Stop` | `MCClientStreams` with two cfgs | `ClientStreams_proofs` |
| `ClientConn` | the inside of one connection: queues, sender, disconnect | itself, `ClientConn.cfg` | `ClientConn_proofs` |

What composes what: `GameLoop` extends `PluginRegistry`, whose arrays it reads, `BlockManager` extends `Blocks`, and
`RegionChunks` joins `RegionFile` and `ChunkCodec`. The other modules meet at an interface that one of
them shows and the other relies on: `DeltaStorage` takes a region as one content per chunk
(which is what `RegionStore` states and `RegionChunks` implements; `WriteKeepsFile` of `RegionManager`), which a failed write may tear. `ChunkManager` takes
less of the storage than `DurableStore` promises: a call of `SaveChunk` sets the blocks one by one in what loads see, `Close` writes a chunk at a time, beside calls of
`SaveChunk`, and `StorageLoses` stands for whatever `DurableStore` may lose or `Close` may not write. `ClientStreams` takes the sends of a disconnect as steps
(when they end, `DisconnectEnds` of `ClientConn` says), and `GameLoop` leaves open whether the locks that `DisconnectAllClients` and a generation may hold for ever are free.

### DeltaStorage

Any number of goroutines (`Savers`) call `SaveChunk` and any number (`Loaders`)
call `LoadChunk`; one worker runs `saveDelta`. Every section under `cacheMutex`
is one action, and so is every call outside of it:

| Code | Actions |
|---|---|
| lookup in the cache, under `RLock` | `SaveChunk`, `LoadChunk` (through `Lookup`) |
| `regionManager.GetChunkDelta` on a miss | `ReadRegion`, `ReadRegionFails`, `LoadNotFound` |
| insertion of the new delta, under `Lock` | `PutDelta` |
| `delta.SetBlock` for each block, under no lock | `SetBlock` |
| `markDeltaAsDirty`, `queueForSaving` | `MarkDeltaAsDirty`, `QueueForSaving`, `SaveUnchanged` |
| `saveWorker`, `saveDelta` | `TakeFromQueue`, `SaveDeltaMisses`, `SaveDeltaBegins`, `WriteDelta`, `WriteFails`, `ClearDirty` |
| `cleanupUnusedDeltas` | `CleanupUnusedDeltas` |
| `Close`, `saveAllDirtyDeltas` | `Close`, `WorkerStops`, `TakeDirtyKey`, `CloseEnds` |

A delta is a shared object, so deltas live in `heap` and the cache and the
callers hold references to it. A failed write leaves the stored data as it was, writes what it should, or, since a delta that fits the old slot is written
over it, leaves anything there (`Torn`): `torn` is a history variable with the chunks of which this is so, and `Stored` what the region holds for certain. The content of a chunk is the set of writes made
to it: `Blocks` are writes at distinct places of the chunk, and two writes at
one place are not modelled. A save that runs while a block is being set
writes it or not (`RegionWritten`). The accesses to the plain map
`BlockChanges` that the Go runtime may detect end the process (`MapRaceAbort`);
those it lets pass are the interleavings. Access times are kept as an order
(`older`), which is all the LRU eviction reads. When a tick of the cleanup comes,
and how long a delta has been unused, are left open: eviction may run whenever the cache
is over its size.

History variables: `acked` is what `SaveChunk` has returned for; `lossy` holds
the chunks that lost a delta object for one of the reasons the code allows (two
misses at once, a failed region read, an eviction while a pointer is in use, or
an eviction of a delta that no queue entry and no dirty key covers, or whose stored data are torn);
`skipped` holds the chunks with a dropped queue entry or a failed write, and
`remarked` those marked dirty during their own save. The properties name them
as their exceptions, so that each says exactly when its promise is kept.

`DurableStore` says the same without a cache: a chunk has a content in memory and one on disk, a write changes the
former, an acknowledgement is for what a load would return, `Persist` moves the disk towards the memory and never
anywhere else, `Ruin` is a save that fails and takes what the disk had, and `Close` ends only when it has paid what was acknowledged before it, but for the saves that failed or were overtaken.
A store may lose a chunk and then promises nothing of it. `Store` in `DeltaStorage` is the refinement mapping: `mem` is `Mem`, the content a `LoadChunk`
would return, `disk` is `Kept`, which of a torn chunk is nothing, `busy` is `Busy`, the chunks whose cached delta a `SaveChunk` holds, `late` is `Late`, the skipped and the remarked,
`state` is `State`, and `lost` are the `lossy` chunks, of which all else is masked. Lookups, queueing, eviction and reloading are stuttering steps.

### ClientStreams

A connection is named by its stream. A broadcast holds `s.mu` for reading and
its sends never block: one action. `DisconnectAllClients` holds `s.mu` for
writing over blocking sends: one action per connection (`DisconnectClient`), and
nothing that needs `s.mu` in between (`MuFree`). `GameStream` is a handler per
stream with the states `throttle`, `broadcast`, `recv`, `lost`, `save`, `write`
and `done`. A reconnect is a second stream of the same player, with the first one still
open or not. `Stop` runs beside all of them, as the signal handler starts it.
A position is the number of movements that led to it, and who is in sight of a
position is any subset of the connected players. A movement names the player it moves, which nobody compares with the stream's
(`HandlePlayerMovement(s, p)`), and the broadcast after it is `about` that player.

History variables, all exceptions that the properties name: `overlapped` are the players who had two streams open at a time, `cutOff` the streams that were open when
`DisconnectAllClients` emptied the map, `strayed` the players whom the stream of another moved since their own handler last read the position that it
saves, and `changed` those who joined or moved after `Stop` had listed whom to save.

### ClientConn

The two queues of a connection, filled by broadcasts (`SendHigh`,
`SendNormal`), and the sender goroutine with its two selects: `TakeHigh` and
`NothingHigh` for the first, `TakeHigh`, `TakeNormal` and `TakeNil` for the second. A closed queue yields what it
holds and then nil, which is sent as an empty message, again and again until a `Send` fails. The transport may break at any time, a client may hang
up while it still receives, and it may stop reading, which leaves a `Send` waiting (`net = "stalled"`). Other streams of the player are
there through what they do to this connection: `registered` says that `clientStreams` holds it, a newer stream takes its place (`RegisterAnother`), and an older one that
ends closes it (`ClosedByAnother`); the handler's own end closes it only if it is still registered. Normal messages are only counted.
`ClientStreams` abstracts a connection to whether its queues are closed;
`ClientConn` shows what the sends of `DisconnectAllClients`, which `ClientStreams` takes
as one step each, wait for.

### RegionFile, ChunkCodec and RegionChunks

`SaveChunk` holds the file's mutex throughout, so its steps are told apart only
because the process may stop, or a write may fail, between them: `SaveChunk`
(the position), `WriteData` with the entry in memory, `WriteTable` with the entry in
the file, `SaveSucceeds`. `WriteDataFails` leaves a part of the data, `SaveFails`
the data without its entry. `GetChunk` takes the entry under the read lock and reads
with it later under the mutex (`ReadData`). `CreateFile`, `WriteHeader` and
`WriteIndexTable` are `initializeFile`; `Crash` is a stop of the process with
`loadIndexTable` of the next one, or an eviction of the region when nothing is running.
What was written before a stop is in the file: the kernel has it. Loss of power, which
may lose what was not synced, is not modelled.

The module knows nothing of a delta but its serialisation, a constant operator whose
result is a sequence of cells. `RegionChunks` assumes that it is `SerializeChunk` of `ChunkCodec`,
in which a cell is a field: the number of blocks, a block's place, its type, its
number of properties, and for each of them the length and the bytes of the value.

History variables: `saved` and `attempts` are the deltas a chunk may be found with,
`mayRead` the same for each reader since its call began. `torn` are the chunks of which a slot was
overwritten in place by a part of a delta, `spoiled` the readers who may see that, and
`oversized` says that a delta of 65536 bytes or more was written, whose size field is
too small. These are the exceptions that the properties name.

`RegionStore` says what this amounts to for a caller, without slots, table or cells: a chunk has a delta in memory and one on disk,
a save replaces each of them at once and touches no other chunk, one that returned nil has done so, one that failed or was stopped may have, and a
`GetChunk` returns the delta that the chunk had when it was called, or that of a later save of it. It is what `DeltaStorage` takes a
region for. The refinement mapping stands in `RegionChunks`: `mem` is `Mem`, what the slots of the index in
memory are decoded to, `disk` is `Disk`, the same for the table in the file, and `found` is `Found`, what a reader's entry, or the cells it has
got, decode to. `loose` are the chunks (`Lost`), and `blind` the readers (`Misled`), of which nothing is promised, because the region cannot keep it:
those of a slot overwritten by a part of a delta, those for which a delta may be found that `deserializeChunk` does not read back
(`Unstorable`: a coordinate, a type or a count that does not fit its field, or an empty value at the end of the data), and, after an `oversized` one, all.
A chunk is not loose any more when a `SaveChunk` of a delta that can be stored has returned nil, except that what an oversized delta does to the file lasts.

### RegionManager

The pool of open region files, with readers (`GetChunkDelta`), one writer (`SaveChunkDelta`,
which only the save worker calls, and `Close` of the delta cache once that worker has stopped),
`compactionWorker` and `Close`:

| Code | Actions |
|---|---|
| `GetRegion`, under `RLock`; `updateLRU` after it, under no lock | `GetRegion`, `UpdateLRU` |
| `openRegion`, under `Lock` | `OpenedByAnother`, `OpenBegins`, `NewRegionFile`, `NewRegionFileFails` |
| `closeOldestRegion` | `AllDirty`, `RemoveStray`, `SelectVictim`, `CloseVictim`, `CloseVictimFails` |
| `setDirty`, under `Lock` | `MarkDirty`, `ClearDirty` |
| `GetChunk`, `SaveChunk`, one section under the file's mutex each | `BeginIO`, `ReadEnds`, `WriteEnds` |
| `compactionWorker`, `NeedsCompaction`, `Compact` | `Tick`, `NeedsCompaction`, `Compact`, `ScanEnds`, `WorkerStops` |
| `Close` | `Close`, `CloseLocks`, `CloseRegion`, `CloseEnds` |

`regionsMutex` is `holder` for writing, and the worker's state for reading: other sections under
`RLock` are one action each. The `Sync` and the `Close` of a victim wait for the same mutex, one
after the other, and are one step: what comes in between is a read, or a save of a file that is not
marked, as may come before both. A `RegionFile` object is an identity, `openFiles` are those with
a descriptor, and `regionOf` is the region an open one is for. The LRU list is kept element by
element, with whether `lruMap` still holds the element (`mapped`), because `updateLRU` may put a
region into the list that has been closed since the lookup. `strayed` records that it has. `grown` are the
regions for which `NeedsCompaction` says yes; a save may or may not make a region one of them.

`updateLRU` is one step. The code runs it beside others under no lock, so that accesses to the
Go map and to the links of the list may overlap, which the runtime may answer by stopping the
process and which may lose or knot elements of the list; neither is modelled. `LimitKept` speaks of a list
that is intact.

### ChunkManager

| Code (`internal/chunkmanager/chunk_manager.go`) | Actions |
|---|---|
| `LoadChunksFromStorage`, called by `Start` | `LoadFromStorage`, `Started` |
| `GetOrGenerateChunk`: lookup; `LoadChunk`; insertion; `LoadBlocksFromChunk` | `GetOrGenerateMisses`, `LoadFinds`, `LoadNotFound`, `PutLoaded`, `LoadBlocks` |
| `generateChunk`, under `cm.mu` | `GenerateFindsChunk`, `GenerateChunk`, `GenerateDeadlocks` |
| the goroutine that it starts | `FirstSaveBegins`, then `CellSaved` |
| `SaveChunk` and `LoadChunk` of the storage, and what it may lose | `SaveBegins`, `CellSaved`; `LoadFinds`; `StorageLoses` |
| `SetBlock` | `SetBlock` |
| `SaveChunksToStorage` by the periodic saver, its last time, and `Stop` | `SaverTicks`, `SaverCancelled`, `SaveNext`, `CellSaved`, `SaverDone`; `Stop`, `StopSaved` |
| `Close` of the storage | `CloseWrites`, `CloseReturns` |
| `cleanupUnusedChunks` and the block cache | `CollectUnused`, `RemoveUnused`, `ClearBlockCache` |

A section under `cm.mu` is a step; only `SaveChunksToStorage` holds the lock over calls of the storage, and `walking` names
who does. A `*game.Chunk` is a shared object in `heap`. Its content is the set of what was put into it: one
terrain, and edits at places of their own. `saves` are the calls of the storage's `SaveChunk` in progress, with the cells that each has `left` to set; a load meanwhile gets the part that is
there. The goroutine of the first save reads the cells without the lock, so that of a block that `SetBlock` puts meanwhile it may store the one from before (`SetCell`).
`generateChunk` takes over what the block manager has put there by then (`SaveBlocksToChunk`), any subset of the edits, after it has looked for dynamic blocks. `blockCache` is why a chunk that is generated a second time may look the same, and it
may be cleared at any time, for it is dropped when it is full. `MayAllocate` says that there is always an object to take: the names in `Objects`
stand for memory, which is not short. A dynamic terrain is what a plugin's block factory may
produce, and `generateChunk` then waits for the lock that it holds (`GenerateDeadlocks`, after which nobody gets the lock: `Stuck`).
How long a chunk has been unused is left open. A crash, or the console's `stop`, is the end of a
behaviour, and `Init` covers what the next start finds.

History variables: `placed` is what a chunk was given, or `Lost` once the code has put a late copy over it, has dropped its only copy,
has failed to read it, has put a copy over it that was read while a save was under way, has let its first save put an older block back when no later save would mend it, or
the storage has lost it. `placedAtStop` is `placed` when `Stop` begins, `kept` what `Close` has written, and `entered` what generations took from the block manager.

### Blocks and BlockManager

`Blocks` has a record for each kind of block with the fields of its Go type, and an operator for each of its
methods. `BlockManager` has three threads: the update loop, a request that loads or generates a
chunk, and a player who interacts.

| Code (`internal/block/block_manager.go`) | Actions |
|---|---|
| `CreateBlock`, `UpdateBlock`: factory or caller's object, `blocks`, then the other maps and the queue, then the event | `Create`, `Enter` (operators), `Put`, `Register`, `SendUpdate` |
| `processDynamicBlocks`: what is due; each block of it | `TakeDue`, `NextBlock` |
| `GetNeighborBlocks` | `NeighborFound`, `NeighborMissing`, `NeighborLoaded`, `NeighborFetched`, `NeighborCreated` |
| `Tick` and `UpdateBlock` | `TickBlock` |
| spreading fire, with the early return | `SpreadToFire`, `Spread`, `SendPlaced`, `SetBlock` |
| `scheduleBlockUpdate` at the end of a round | `Reschedule` |
| `LoadBlocksFromChunk`, `SaveBlocksToChunk` below a request | `RequestFetches`, `RequestLoaded`, `RequestGenerated` |
| `InteractWithBlock` | `InteractWithDoor`, `InteractWithChest`, `PlayerSends` |
| `processBlockEvents` of `service/loop.go` | `ReadEvent` |

The maps have a lock each, so a block enters them one after the other, and two threads may do so at once for one place
(`torn`). Blocks are shared objects: a thread that got one earlier puts it back by `UpdateBlock`. The queue is a bag, because
`scheduleBlockUpdate` adds an entry whether there is one or not. Time is left out: any entries may be due.
A new object is one of its place's `Copies` that nobody refers to, of which there is always one (`MayAllocate`).
`created` and `dropped` count the entries that `CreateBlock` made and that the early return of `processDynamicBlocks` dropped.

### PluginRegistry and GameLoop

`PluginRegistry` has the main goroutine up to the console, and then the console's `reload`: `RegisterCore`, one
system in each step, `MarkCore`, `SkipFile`, `OpenFile`, `RegisterSystem`, `RegisterHook`, `RegisterCommand`, `EndRegister`, `EndLoad` (`LoadPlugins`), `NewWorldService`,
`RegisterCommands`, `Reload` and `ClearPlugins`. A plugin may be skipped, fail to open, have no `Register`, or panic in it after
any of its registrations. `gameSystems` is a Go slice, an array with a length: `append` writes into the array
as long as it has room (`Room`, `RegisterGameSystem`), and `ClearPlugins` only shortens the slice. `Start` hands this slice to the loop, so
the array is shared with `GameLoop`: `InitSystem`, `StartLoop`, `Round`, one `Tick...` for each kind of system,
`StopLoop`. A plugin's system may panic, which `Run` recovers from. `ActivateChunk` is any chunk that becomes active,
after which a block system waits for itself at its next `refreshRegions` (`RefreshRegions`, `running = "stuck"`). A tick may also wait for ever for a lock that another component
holds for ever (`running = "waiting"`): `EmitWorldEvent` for `s.mu` once the context is cancelled, when `DisconnectAllClients` waits for a client, and `GetActiveChunks`, or a plugin's
system, for `cm.mu`, when a generation waits for itself.

## 3. Runs

| Run | Shows | Distinct states |
|---|---|---|
| `delta_races` | `TypeOK`, `ReadYourWrites`, `DirtyCoversUnsaved`, `ClosePersists`, and the refinement `ImplementsStore`, with two savers and a loader on one chunk | 3.5 million |
| `delta_live` | `EventuallySaved` under fairness | |
| `delta_close` | violation of `CloseSavesAll`, see section 6 | |
| `region_file` | `TypeOK`, `SurvivesCrash`, `ReadsCurrent`, and the refinement `ImplementsRegionStore` | 0.65 million |
| `region_manager` | `TypeOK`, `OneOpenFile`, `LimitKept`, `WriteKeepsFile` and the liveness `CallsEnd`, with a reader, the writer, failures, the worker and `Close` | |
| `region_compaction` | violation of `CompactionEnds`, see section 6 | |
| `chunk_manager` | `TypeOK`, `PlacedIsShown`, `StopSaves`, `UnsavedDynamicIsActive`, `ActiveStays`, and the liveness `RequestsEnd`, `PlacedIsStored` | 0.33 million |
| `block_manager` | `TypeOK`, `StaysScheduled`, `MapsAgree`, `ChestSurvivesSave`, and the liveness `KeepsTicking` | 0.34 million |
| `game_loop` | `TypeOK`, `NoLeftovers`, `CoreKeepsTicking`, `TimesAgree`, and the liveness `RoundsGoOn` | 0.67 million |
| `client_streams` | `NoPanic`, `StreamIsRegistered`, `LeftIsSaved` | |
| `client_reach` | violation of `BroadcastReachesConnected`, see section 6 | |
| `client_conn` | `AtMostOneOvertakes`, `ShutdownIsLast`, and the liveness `ShutdownDelivered`, `DisconnectEnds`, `SenderEnds` | |

### Bounds, and why they are enough

* `DeltaStorage`: `MaxCalls` calls in all (3; 2 for liveness), `QueueCap` of 1 or
  2 and `MaxCache` of 0 or 1. Three calls are a `SaveChunk` under way, one that
  overtakes it and one that sees the result; a queue of one fills with
  the second entry, and a cache of zero or one evicts at once. `Deltas` has three identities or five:
  unreachable ones are reused, and TLC would stop if `NewDelta` ever had none to choose. Initially the region file holds any content.
* `ClientStreams`: two players and three streams give a reconnect with both
  streams open, beside another player who gets the broadcasts; `MaxMoves` of 1
  tells the last position from the one before. At most two of the streams are open at a time (`TwoAtATime`): an older and a newer one of a player, or one of each player, of which
  one moves the other's; the third comes after one of them.
* `ClientConn`: queues of three fill, drain, and hold events before the shutdown
  event. `overtaken` is a history variable that stops at `MaxOvertaken`, which is
  above the bound the property claims.
* `RegionFile`: two chunks whose slots could meet, three saves (one to be replaced in
  place by a shorter delta, one behind it), four deltas of different contents, two that can be stored, one
  too large for sizes modulo 8 (`SizeMax`, 65536 in the code) and one that ends in an empty value.
  Fields of a block are kept modulo 3 (`ByteMax`, 256).
* `RegionManager`: three regions and a limit of one, so that every open evicts and all
  open regions may be dirty at once (then `Limit` is 2: two files are open); four calls, which is what it takes
  to put a closed region into the list and to select it as the next victim. `Files` has five identities, more
  than can be referenced at a time. The run of the violation needs two regions and three calls.
* `ChunkManager`: one chunk, since nothing but the block cache relates two, and the cache is dropped by chance. A
  behaviour ends when the chunk is lost (`MCChunkManager`), since the properties claim nothing of it after that.
  Two requests (`MaxMisses`) are two that miss together, or one that comes while the other is late, while the server starts and runs; the second begins after the first, from which it differs in
  its name only, and while the server stops one request goes on at a time. The saver, the cleanup
  and `Stop` run without a bound. One dynamic edit, two terrains that may differ between two generations, and a
  dynamic third one. Objects: one in the map, one per request or first save.
* `BlockManager`: two places, of which one has the other as its neighbour, in six worlds that between them have every kind of block
  next to a fire or a crop, terrain stored and terrain yet to be generated. `Budget` bounds requests, spreads
  and interactions together: three, or two in the worlds with two blocks that tick. That is a request that replaces a block, beside a
  player or a fire that keeps the old one. Five `Copies` are more than can be referenced at a time. A
  lifetime and a crop of one step, a channel of one event and a chest of one stack reach their ends at once.
* `GameLoop`: the three kinds of the server, two plugins, and up to six plugin systems in a load, so that the shared array
  is outgrown in the first load, in the second, or never. There is no third load, since the first reload takes the command away. A day of two ticks, a refresh at every second.
* Symmetry is used for the interchangeable sets of the safety runs, never with a
  liveness property. `Deltas` is not among them, since `NewDelta` chooses one.

`CHECK_DEADLOCK FALSE` stands in all of them because the models may stop: a
bounded number of calls, a closed storage, an aborted or stopped process.

### Fairness

* `DeltaStorage`: weak fairness of each `SaveChunk` in progress and of the save
  worker, except in their calls of the region manager: those wait for locks that a compaction may hold for ever (`CompactionEnds`), so a read or a
  write may never end, and `EventuallySaved` is promised only if the worker's writes do (`RegionsAnswer`). New calls, `Close`
  and cleanup have none: nothing makes them happen.
* `ClientConn`: weak fairness of the sender and of the blocked
  send of `DisconnectAllClients`, and strong fairness of a `Send` that gets through: a client that reads again and again gets the message in the end.
  A client need not read, the transport need not break, and the client
  need not hang up. Nothing is assumed of the handler, which waits for `s.mu`: `DisconnectAllClients` may hold that for ever at the connection of another client.

* `RegionManager`: strong fairness of each call under way, of the worker's scan and of `Close`. Each
  waits for mutexes that others take and release in between, and Go's mutexes give a waiter
  its turn: a writer who waits for an `RWMutex` keeps new readers out, and a waiting `Mutex` becomes
  fair. Strong fairness of `WorkerStops`, since `select` chooses at random between a tick
  and `stopChan`. New calls, ticks and `Close` have none. That a waiting writer keeps
  readers out is not itself modelled; the model has the behaviours with it and more.
* `ChunkManager`: strong fairness of a request under way, since `RWMutex` lets a waiting writer in before
  later readers; weak fairness of the first saves, of the periodic saver, whose ticker goes on, and of `Stop` once begun. So the storage is taken to answer every call, which it
  does not any more after the deadlock of `compactionWorker` (`CompactionEnds`); the liveness properties say so. None of
  new requests, edits, `Stop` and cleanup.
* `BlockManager`: strong fairness of the loop, because a channel serves the senders that wait for room in their order; weak
  fairness of a request and a player under way and of the reader of `blockEvents`; and strong fairness of an entry being due,
  because time passes and the queue is sorted by it.
* `GameLoop`: weak fairness of the loop's steps, whose ticker goes on: a tick ends, or waits for ever (`stuck`, `waiting`), as `RoundsGoOn` says; and strong fairness of `StopLoop`, because `select` chooses at
  random between a tick and a context that is done. None of the console.

Every property is tested against a plausible bug: for each there is a definition
`Faulty...` before the one it varies, and the run finds the property violated
when the variant takes its place (the list is `mutants` in `PROJECT.json`).

## 4. Proofs

Each module `X_proofs.tla` is checked by `tlapm X_proofs.tla`; there are eight: `DeltaStorage_proofs`, `RegionFile_proofs`,
`RegionManager_proofs`, `ChunkManager_proofs`, `BlockManager_proofs`, `GameLoop_proofs`, `ClientStreams_proofs` and
`ClientConn_proofs`. Together they prove all safety properties of the passing runs, for every value of the constants, among them that `DeltaStorage` implements
`DurableStore` and that `RegionChunks` implements `RegionStore`. What is assumed of the constants stands in the `...Assumption` of each
module, which TLC evaluates in its runs:

* the nil values are not members of the sets whose absence they stand for, and sizes and bounds are natural numbers;
* `DeltaStorage`: savers are not loaders;
* `ClientConn`: a queue of at least one;
* `RegionFile`: a serialisation that is never empty (it begins with the count of the blocks);
* `ChunkCodec`: the sizes of the fields are positive; `RegionChunks`: deltas are sequences of blocks, and serialised by `SerializeChunk`;
* `ChunkManager`: dynamic blocks are edits or terrains, and no edit is a terrain;
* `Blocks`: a fire and a crop live at least one step; `BlockManager`: the chunks hold at the start what `ToProto` may have made;
* `PluginRegistry`: the server's own kinds of systems are distinct; `GameLoop`: they are the three of the source.

Each proof has the same shape: the initial states satisfy the inductive invariant (`IndInv` or `IInv`), one lemma for each action, group of
actions or conjunct says that a step preserves it, then come the theorem
`Invariance` and its corollaries. The invariants were model-checked on the instances of the runs before they were proved. None of the properties is inductive by itself:

* **DeltaStorage.** `ReadYourWrites` has to know what every caller and the worker hold
  between two steps. `IndInv` adds who may reference a delta object (an
  object in the hands of a caller is the cached one, unless the chunk is in `lossy`), that torn data have an intact delta in the cache (`TornIsCovered`),
  what a caller that missed the cache has read, that a chunk outside the cache has
  all of its acknowledged blocks on disk, and what `closing` still has to visit after `Close`. The argument for `ClosePersists`: what was
  acknowledged is visible; what is visible and not on disk is in `dirty`; `closing`
  starts as `dirty`; a key leaves it only when its delta is written. `DiskNeverShrinks` follows from the
  invariant too: a write that does not tear what is stored takes the content of the cached object, which has all
  that the disk has.

  **The refinement** (`RefinesStore`) has a lemma for each action, or group of actions:

  | Step of the cache | Step of the store | What it rests on |
  |---|---|---|
  | `SaveChunk`, `PutDelta` that give a saver its delta | `Begin` | |
  | `PutDelta` of a second delta, `ReadRegionFails` | `Lose` | |
  | `SetBlock` | `Write` | a saver's delta is the cached one (`OneObject`) and no other chunk's (`ObjectsApart`) |
  | `SaveUnchanged`, `QueueForSaving` | `Acknowledge` | its blocks are in the delta that loads see (`BlocksSet`, `OneObject`) |
  | `MarkDeltaAsDirty` | `Overtake` during a save of the chunk, else none | |
  | `SaveDeltaBegins` | `Resume`, as it makes up for a failed write | |
  | `WriteFails` that tears what was stored | `Ruin` | a load still finds the cached delta (`TornIsCovered`) |
  | `WriteDelta`, `WriteFails` | `Persist` | the object written is the cached one and has what the disk has (`OneObject`, `MemoryAhead`) |
  | `CleanupUnusedDeltas` | `Lose` for the chunks that someone has in hand, or that were both skipped and remarked | what else it evicts is on disk (`QueueCoversUnsaved`, `DirtyCoversUnsaved`) |
  | `Close`, `MapRaceAbort` | `Close`, `Abort` | |
  | `CloseEnds` | `CloseEnds` | `closing` had all that was owed and is empty (`CloseCovers`) |
  | lookups, loads, the queue, `ClearDirty`, and all of a chunk that is lossy | none | what a load would return does not change |

* **ClientStreams.** `NoPanic` rests on `RegisteredIsOpen`: the connections in
  `clientStreams` are open, and during `DisconnectAllClients` those open are exactly
  the ones not yet visited. `EndedIsClosed` rests on `SomeoneCloses` and
  `OneAtATime`, and `LeftIsSaved` on `SavesCurrent`: what is about to be written
  is the current position, and on `ListedAreSaved`: whom `Stop` has listed is still to be saved, is being written, or has been.
* **ClientConn.** `OvertakenIsNext` says that after a normal message has
  passed an event, the sender comes back to its first select before it takes another.
  `RegisteredIsOpen` says that a connection is closed by taking it out of the map, so that no one closes the queues under a blocked send.
  `ShutdownIsLast` carries itself: once the event is in `highQueue` the queues are closed, and the sender that has taken it is never again where it could take a normal message.
* **RegionFile.** The order of the writes matters because a slot is overwritten in place
  while the table, or a reader, still has an older entry. `IndInv` says that the entry in memory
  is that older one's successor: elsewhere, or in the same place and not longer
  (`IndexSucceedsTable`, and `ReadersSafe` for readers). So a write by this chunk either leaves what
  the old entry refers to or puts the new delta there, and one by another chunk is apart from it (`SlotsApart`).

  **The codec** (`DeserializeInvertsSerialize`): what is decoded from cells that begin with the serialisation of a storable delta is this delta,
  whatever follows it. An older and longer delta's cells may follow, and an empty value may be read only because they do, which is why `Storable`
  asks for more than sizes that fit. `FlattenSeq` and the decoder's
  loops are recursive functions. That one satisfies its equation is shown by exhibiting a function that does (`FlatteningExists`), and the inductions, over
  the blocks of a delta and the values of a block, are made for a set of numbers and not for a predicate (`SetInduction`,
  `BoundedInduction`), from the library's fact that a well-founded relation has minimal elements. With `ReadsCurrent`, `LoadsWhatWasSaved` follows.

  **The refinement** (`RefinesRegionStore`). `StandsContent` says that the slot of an entry of a storable delta decodes to this delta,
  and nothing else of the codec is needed after that:

  | Step of the file | Step of the store | What it rests on |
  |---|---|---|
  | `CreateFile`, `WriteHeader`, `WriteIndexTable` | none | |
  | `SaveChunk` | `Save`, and the chunk is lost if the delta cannot be stored | |
  | `WriteData` | `Apply`; `Overflow` if the delta is oversized | old entries of the chunk keep their content or get the new one, those of others keep theirs (`SlotView`, `ContentApart`) |
  | `WriteDataFails` | `Fail`; the chunk is lost if its slot was overwritten in part, all are if the delta is oversized | `ContentKept`, `ContentApart` |
  | `WriteTable` | `Commit`, none while the chunk stays lost | the entry written is the one in memory (`WriteTableRefines`) |
  | `SaveSucceeds`, `SaveFails` | `Succeed`, `Fail` | what was written is what memory and disk have |
  | `GetChunk` | `Lookup` | the index entry's slot holds what the chunk may be found with |
  | `ReadData` | none | the slot still has it, or that of a later save (`ReadersSafe`) |
  | `GetChunkReturns` | `Answer` | |
  | `Crash` | `Reopen` | the next process's index is the table |

  The mapping needs one invariant that the file's own properties do not: a reader that is idle has no cells (`IdleReaders`).

* **RegionManager.** `IInv` stands in the proof module. `OneOpenFile` is not inductive: `NewRegionFile` needs to know that the region is still not
  open when it is reached, three steps after the test, which holds because whoever opens has
  `regionsMutex` all the while (`HolderOK`, `LocalsOK`), and that a file that nobody can reach is not open
  (`FilesOK`). `WriteKeepsFile` needs that the region of the writer is dirty from `MarkDirty` on, that a
  victim was not dirty when it was selected and cannot have become so since (`DirtyOK`), and that `Close` begins
  after the saves (`CloseOK`). For `LimitKept`, `ListOK` says that until a closed region has been put into it the list has each
  open region once, as the element that `lruMap` holds. So with the limit reached,
  a victim is found unless all open regions are dirty; only the writer's is, so that this takes a limit of
  one, and one file more is opened. `LimitOK` counts the open files at each stage of an opening.

* **ChunkManager.** `IInv` adds to the properties what is said of the copies on their way: `OnlyPlaced` (memory, the storage, what a loader has in
  hand and what a save still has to set hold nothing that the chunk was not given), without which a late insertion or a late save could
  not be shown to put back less than an exception names; `OnTheWayIsStored` (what a loader or a save has in hand exists in the storage, so that no generation comes beside it unnoticed); `OwnObject` (no two positions share an object, so `SetBlock` in one
  does not change another); `SavedUnderLock` (who saves under `RLock` saves the chunk as the map has it, so that its cells are the current ones); `OneTerrain` (a second generation shows the terrain of the
  first, or the chunk is lost); `LoadedFirst` (`Start` overwrites nothing, because it runs alone) and `RequestHasKey`. `UnsavedDynamicIsActive`
  needs `UnstoredDynamicIsActive`: a chunk that was never stored, or whose first save has not ended, got its
  dynamic blocks from `SetBlock`, which marked it, or from the block manager. For `StopSaves`, `StopProgress` follows each edit that was placed when `Stop` began: its chunk is still to be visited, or it
  is in a cell that is still to be set or in the storage, and from there in what `Close` has written. `ActiveStays` follows from the guard under the second lock of the cleanup and `TypeOK`.
* **BlockManager.** A step either creates a block nobody knew (`Creation`) or changes known ones without
  changing their kind (`HeapStep`); and it leaves all threads as they were at their places, begins one entry, or is a `Put` or a `Register` (`EntrySteps`). `OneEnters` is what makes
  `MapsAgree` inductive: where nothing is torn, one thread enters a block at a time, and `blocks` shows it when the thread comes to the other maps. `InTheMaps` says
  that what a thread read of the maps and the chunk stays so, since nothing is ever removed. For `StaysScheduled`, `Looping` says
  that the loop has no entries in hand between two rounds and none for a block between two blocks, and `DynamicOnce` that a place has its first entry and its dynamic block at
  the same time: with the count, this shows that the loop finds a block for each entry that it takes. `SoundBlocks` says that the fields of a chest
  agree with its properties in every known object; `ChestSurvivesSave` follows, by `Tick`, `OnInteract`, `ToProto` and `Deserialize`, each with a lemma.
* **PluginRegistry and GameLoop.** `CoreKeepsTicking` speaks of the array that the loop ranges over and that a reload
  rewrites. `CoreInPlace` says that main's systems lead every slice that counts (the registry's and the loop's), `AppendSystem` that `append` never writes before the
  end of the registry's slice, which `CoreMarked` keeps behind them, and `CoreReady` that `Init` has run for those before the cursor, and for all once the loop runs.
  `TimesAgree` needs that a round meets each of the server's systems once: each stands at one index in whatever array
  (`OnePlace`), because it is registered once (`NotYetThere`), and none has ticked before (`NoTicksYet`). `Phases` relates main's step to the loop's.

Proved, and not checked by a run of their own, because the run checks the properties that follow: the
invariants `IndInv` and `IInv`, `QueueCoversUnsaved` and `DiskNeverShrinks` of `DeltaStorage`, `SlotsApart` of `RegionFile`, `LoadsWhatWasSaved` of `RegionChunks`,
`OnlyPlaced` and `OwnObject` of `ChunkManager`, `OnePlace` of `GameLoop`,
`NoStaleConnection` and `EndedIsClosed` of `ClientStreams`, and the `TypeOK` of `ClientStreams` and `ClientConn`.

Model-checked only: the liveness properties (`EventuallySaved`,
`CallsEnd`, `RequestsEnd`, `PlacedIsStored`, `KeepsTicking`, `RoundsGoOn`, `ShutdownDelivered`, `DisconnectEnds`, `SenderEnds`), which TLAPS does not do under
fairness; and the three violations.

## 5. What is not modelled

* Storage: `DeleteChunk` (nothing calls it), `ListChunks`, world metadata
  (`SaveWorld`, `LoadWorld`), and writes that
  overwrite each other at one place of a chunk. Block objects shared between a
  chunk and its delta, and the map races of their properties, are left out.
  Of a region file, the copying that `Compact` does (which it never gets to), a power loss, a header
  and table written only in part, and the keys of a block's properties are left out. The computation of region
  and chunk keys is arithmetic on one value that a unit test reaches.
* Streams: message payloads, `sendMessageToPlayer` (nothing calls it), `Ping`, `GetChunks`.
  `JoinGame`'s lookup of a saved state is left out because it can never succeed: the id is new.
* Chunk manager: the terrain itself, and `SaveChunk`, `UnmarkChunkAsActive` and `MarkChunkDirty`, which only tests or nobody calls.
* Blocks: `RemoveBlock` (nothing calls it), priorities, times and `lastSent`, and data races on the fields and interface values of one
  object. Properties of fire, crop and door are written and stored but read back by no code.
* Game loop: the weather's walk, the number of the day, and what `BlockSystem` does with regions: as soon as there would be a
  region, `refreshRegions` has stopped the loop.
* Plugins: block factories, which the block manager copies once, and configurations, which no reload clears.
* Not at all: noise generation (floating point), the generated
  protocol code, which has no logic of this project, the test clients and image tools, which render and print, and `world.World`, which the server
  does not construct.

## 6. Disagreements between code and documentation

* `CloseSavesAll` (run `delta_close`). `Stop` "saves all player and chunk data"
  (`internal/service/shutdown.go:12`). `saveDelta` deletes the dirty key after
  its write (`binary_storage.go:369`), even if a `SaveChunk` has put it there again
  during the write. The block's last trace is its queue entry, and
  `saveWorker` may take `stopChan` instead (line 341): `Close` returns, and the block is
  not on disk.
* `BroadcastReachesConnected` (run `client_reach`). "broadcastToAll sends a message
  to all connected clients" (`internal/service/broadcast.go:109`). A player who reconnects before the server has seen the
  first stream fail has two streams; the end of the first closes and deletes the
  connection that `clientStreams` holds, the second one's
  (`handlers.go:104`). The second stream goes on without broadcasts and without
  the shutdown event.
* `CompactionEnds` (run `region_compaction`). `Compact` "copies all live deltas into a new temporary
  file and then atomically replaces the old one" (`internal/storage/region_file.go:502`, in Russian). It holds the
  region's mutex for writing when it calls `NeedsCompaction` (line 510), which waits for it for
  reading. The run has the rest of `Compact` as a step, `CompactReplaces`, that waits for this read lock
  and is never enabled. `compactionWorker` stops there with `regionsMutex` held for
  reading: no region is opened, no delta saved and nothing closed any more, so that `Close` of
  the storage hangs as well.

Less than a disagreement: `MaxOpenRegions` "sets how many region files may be open at the same time"
(`internal/storage/config.go:12`, in Russian). After `updateLRU` has put a closed region into the list, an eviction may
find that element, close nothing (`RemoveStray`), and one file more is opened. `LimitKept` has it as
an exception.

The other modules have what the code does as exceptions of their properties, or as steps that lead nowhere. What a
reader of the code might not expect:

* A chunk that cannot be read is generated anew, because `LoadChunk` answers every failure with `ErrChunkNotFound`; a late loader puts its older copy over a
  changed chunk (`chunk_manager.go:235`, `211`); cleanup drops chunks with changes that are not saved (line 669). `Lost` stands for these.
* A delta that fits the slot of the stored one is written over it (`region_file.go:245`): a write that fails midway tears data that were acknowledged. Only the cached delta still has
  them. The key stays dirty, unless the chunk had been marked during an earlier save, whose end cleared the key; an eviction then leaves only the torn data: `lossy`.
* A movement moves the player that the message names (`handlers.go:182`), also one whose handler has just saved the position, or who has left: `strayed`.
* A client that stops reading, with its connection up, makes `DisconnectAllClients` wait for ever with `s.mu` held once its queue is full (`shutdown.go:50`), and with it every handler, broadcast
  and tick that announces something. After its queues are closed, a client that still reads gets empty messages without end (`handlers.go:78`).
* A chunk may be loaded while the storage's `SaveChunk` is still setting its blocks, and the part then becomes the chunk in memory (`chunk_manager.go:220`): `Lost`.
* A terrain with a dynamic block stops the chunk manager for ever (`chunk_manager.go:564`), and an active chunk stops the game loop
  at its next refresh, or `Start` in `BlockSystem.Init` (`block_system.go:86`).
* A fire with a burning neighbour drops the rest of the batch it was in, itself included (`block_manager.go:463`): `dropped`.
  A block that is loaded again, or set on fire twice, has two entries and ticks twice as often: `created`.
* A fire that has burnt out goes on ticking and spreading, and no block is ever removed. The state of a block after its creation is never
  written back to its chunk; what `Deserialize` restores of a fire, a crop and a door is nothing, of a chest all.
* Two threads that enter a block for one place leave the maps with different objects (`torn`), and an update puts back an object that a reload had replaced.
* `SetBlock`'s error is ignored after `BLOCK_PLACED` was sent. After the context is done nobody reads `blockEvents`,
  and senders wait for ever; the process ends soon after.
* `reload` removes the server's own commands, which are registered after `MarkCore`, `reload` and `stop` among them;
  the repository's `README.md:201` shows `reload` followed by `stop`.
* The systems of a reload are written into the array that the running loop reads, where they replace those of the load before and tick
  without `Init` ("called once before the loop starts", `gameloop/system.go:14`, in Russian). The server's own systems are there twice, so that
  the time is announced twice. `CoreKeepsTicking` and `TimesAgree` say that this does no more harm.

## 7. Plan

Done: all modules of section 2 with their runs, and the proofs of section 4, which cover every safety property of the runs. What could follow, in this order:

1. `ClientStreams`: a registered stream gets each broadcast that `ClientConn` does not drop, as a relation between the two modules.
2. `ChunkManager` as a second implementation of `DurableStore`: memory is what a request would get, the disk is the storage, and `placed` what was acknowledged.
3. `RegionManager` against the one-region interface of `DeltaStorage`: that a read or a write under way has its file open, as an invariant on its own.
