------------------------------ MODULE GameLoop ------------------------------
(***************************************************************************)
(* The game loop, internal/gameloop/loop.go, and its systems, started by   *)
(* WorldService.Start with the systems that the registry holds then, over  *)
(* PluginRegistry.  Start passes the registry's slice on, so that the loop *)
(* reads the array that a reload writes into.                              *)
(*                                                                         *)
(* A time system counts ticks (modulo a day: the day's number, the weather *)
(* and the throttle of the announcements are left out).  A block system    *)
(* refreshes its regions now and then, and with an active chunk it then    *)
(* waits for the lock that it holds itself: regions come to hold nothing,  *)
(* so the rest of block_system.go never runs with any.                     *)
(***************************************************************************)
EXTENDS PluginRegistry

CONSTANTS
  TicksPerDay,     \* 1200
  RefreshEvery     \* ticks between refreshRegions (20)

ASSUME GameLoopAssumption ==
  /\ TicksPerDay \in Nat \ {0} /\ RefreshEvery \in Nat \ {0}
  /\ ToSet(Kinds) = {"time", "weather", "block"}

VARIABLES
  loop,            \* Loop.systems, [array, len]
  cursor,          \* index of the system that ticks or is initialised; 0 between the rounds
  running,         \* "no", "yes", "stopped"; on a lock for ever: "stuck" (regionsMu), "waiting"
  ready,           \* systems whose Init has run
  ticks,           \* ticks of the time systems
  updateTicker,    \* of the block systems, modulo RefreshEvery
  active,          \* GetActiveChunks returns a chunk
  cancelled        \* the context

loopVars == <<loop, cursor, running, ready, ticks, updateTicker, active, cancelled>>
vars == <<registryVars, load, main, file, loopVars>>

OwnSystem(kind) == {Own(by, kind) : by \in {"main", "service"}}
LoopSystems == Elements(loop)

(***************************************************************************)
(* Two locks may be held for ever: s.mu, when DisconnectAllClients in Stop *)
(* waits for a client (ClientConn), and cm.mu, when a generation waits for *)
(* itself (ChunkManager).  Whether one is, is left open where it is taken; *)
(* the cursor is then past the system that waits.                          *)
(***************************************************************************)
(* broadcastWorldEvent; Stop comes after the cancellation. *)
EmitWorldEvent == running' \in {running} \cup (IF cancelled THEN {"waiting"} ELSE {})

(* GetActiveChunks; and addChunkToRegion takes the lock again that refreshRegions holds. *)
RefreshRegions == running' \in {"waiting", IF active THEN "stuck" ELSE running}

(* NewLoop: Init of each system; a block system refreshes its regions. *)
InitSystem ==
  /\ main = "start" /\ running = "no"
  /\ cursor < gameSystems.len
  /\ cursor' = cursor + 1
  /\ ready' = ready \cup {GameSystems[cursor + 1]}
  /\ IF GameSystems[cursor + 1] \in OwnSystem("block")
     THEN RefreshRegions ELSE UNCHANGED running
  /\ UNCHANGED <<registryVars, load, main, file, loop, ticks, updateTicker, active, cancelled>>

StartLoop ==
  /\ main = "start" /\ running = "no"
  /\ cursor = gameSystems.len
  /\ loop' = gameSystems
  /\ running' = "yes" /\ cursor' = 0
  /\ main' = "commands"
  /\ UNCHANGED <<registryVars, load, file, ready, ticks, updateTicker, active, cancelled>>

(* Run. *)
Round ==
  /\ running = "yes" /\ cursor = 0
  /\ cursor' = 1
  /\ UNCHANGED <<registryVars, load, main, file, loop, running, ready, ticks, updateTicker,
                 active, cancelled>>

(* One further than the last. *)
FaultyAfterTick == cursor' = IF cursor <= loop.len THEN cursor + 1 ELSE 0
AfterTick == cursor' = IF cursor < loop.len THEN cursor + 1 ELSE 0

Current == arrays[loop.array][cursor]
Ticking == running = "yes" /\ cursor > 0
TickUnchanged == UNCHANGED <<registryVars, load, main, file, loop, ready, active, cancelled>>

TickTime ==
  /\ Ticking /\ Current \in OwnSystem("time")
  /\ ticks' = [ticks EXCEPT ![Current] = (@ + 1) % TicksPerDay]
  /\ AfterTick /\ EmitWorldEvent
  /\ UNCHANGED updateTicker
  /\ TickUnchanged

TickBlocks ==
  /\ Ticking /\ Current \in OwnSystem("block")
  /\ updateTicker' = [updateTicker EXCEPT ![Current] = (@ + 1) % RefreshEvery]
  /\ AfterTick
  /\ IF updateTicker'[Current] = 0 THEN RefreshRegions ELSE UNCHANGED running
  /\ UNCHANGED ticks
  /\ TickUnchanged

TickWeather ==
  /\ Ticking /\ Current \in OwnSystem("weather")
  /\ AfterTick /\ EmitWorldEvent
  /\ UNCHANGED <<ticks, updateTicker>>
  /\ TickUnchanged

(* A panic of a plugin's system is recovered, there and then; or, faulty, after the *)
(* whole round, or not in Run.                                                      *)
FaultyRoundPanic == cursor' = 0 /\ UNCHANGED running
FaultyRunPanic == running' = "panicked" /\ UNCHANGED cursor
AfterPanic == AfterTick /\ UNCHANGED running

(* It ends but for the two locks, which its dependencies take, too. *)
TickPlugin ==
  /\ Ticking /\ Current.load > 0
  /\ (AfterTick /\ running' \in {running, "waiting"}) \/ AfterPanic
  /\ UNCHANGED <<ticks, updateTicker>>
  /\ TickUnchanged

StopLoop ==
  /\ running = "yes" /\ cursor = 0 /\ cancelled
  /\ running' = "stopped"
  /\ UNCHANGED <<registryVars, load, main, file, loop, cursor, ready, ticks, updateTicker,
                 active, cancelled>>

(* The chunk manager has an active chunk: one of the storage's, or one that changed. *)
ActivateChunk ==
  /\ main \in {"start", "commands", "repl"} /\ ~active
  /\ active' = TRUE
  /\ UNCHANGED <<registryVars, load, main, file, loop, cursor, running, ready, ticks,
                 updateTicker, cancelled>>

(* A signal, or the command stop while the registry has it. *)
Cancel ==
  /\ main \in {"commands", "repl"} /\ ~cancelled
  /\ cancelled' = TRUE
  /\ UNCHANGED <<registryVars, load, main, file, loop, cursor, running, ready, ticks,
                 updateTicker, active>>

Init ==
  /\ RegistryInit
  /\ loop = gameSystems /\ cursor = 0 /\ running = "no" /\ ready = {}
  /\ ticks = [s \in OwnSystem("time") |-> 0]
  /\ updateTicker = [s \in OwnSystem("block") |-> 0]
  /\ active = FALSE /\ cancelled = FALSE

LoopStep == Round \/ TickTime \/ TickBlocks \/ TickWeather \/ TickPlugin

Next ==
  \/ RegistryStep /\ UNCHANGED loopVars
  \/ InitSystem \/ StartLoop
  \/ LoopStep \/ StopLoop
  \/ ActivateChunk \/ Cancel

Spec == Init /\ [][Next]_vars

(***************************************************************************)
(* The ticker goes on, and select chooses at random between a tick and a   *)
(* context that is done: whichever is ready again and again is chosen.     *)
(***************************************************************************)
FairSpec == Spec /\ WF_vars(LoopStep) /\ SF_vars(StopLoop)

-----------------------------------------------------------------------------

TypeOK ==
  /\ arrays \in Seq(Seq(Systems \cup {NoSystem}) \ {<<>>})
  /\ \A s \in {gameSystems, loop} :
       /\ s \in [array : DOMAIN arrays, len : Nat]
       /\ s.len <= Len(arrays[s.array])
       /\ \A i \in 1..s.len : arrays[s.array][i] # NoSystem
  /\ load \in Nat
  /\ main \in {"core", "load", "register", "service", "start", "commands", "repl", "clear"}
  /\ file \in 1..(IF main \in {"load", "register"} THEN Len(Files) ELSE Len(Kinds)) + 1
  /\ cursor \in 0..(IF loop.len = 0 THEN gameSystems.len ELSE loop.len)
  /\ running \in {"no", "yes", "stuck", "waiting", "stopped"}
  /\ ticks \in [OwnSystem("time") -> 0..TicksPerDay - 1]
  /\ updateTicker \in [OwnSystem("block") -> 0..RefreshEvery - 1]

(***************************************************************************)
(* The server's own systems keep ticking: however a reload rewrites the    *)
(* array under the loop, and wherever it outgrows it, the loop holds one   *)
(* of each kind, and its Init has run (NewLoop, ClearPlugins, append).     *)
(***************************************************************************)
CoreKeepsTicking ==
  running = "yes" =>
    \A kind \in ToSet(Kinds) :
      \E i \in 1..loop.len : LoopSystems[i] \in OwnSystem(kind) \cap ready

(***************************************************************************)
(* Clients are told one time: the two time systems that the loop holds     *)
(* count the same ticks, within the round that is going on, whichever      *)
(* plugins run between them and panic.                                     *)
(***************************************************************************)
TimesAgree ==
  \A i, j \in 1..loop.len :
    /\ running # "no"
    /\ LoopSystems[i] \in OwnSystem("time") /\ LoopSystems[j] \in OwnSystem("time")
    => LET counted(k) == IF cursor > k THEN 1 ELSE 0 IN
       (ticks[LoopSystems[i]] + counted(j)) % TicksPerDay
         = (ticks[LoopSystems[j]] + counted(i)) % TicksPerDay

(***************************************************************************)
(* The loop goes on, past whatever panics: it begins another round, or has *)
(* stopped as it was told to.  The exceptions are the deadlocks: a block   *)
(* system found an active chunk ("stuck", addChunkToRegion), or a tick     *)
(* waits for s.mu or cm.mu, which another one holds for ever ("waiting";   *)
(* ClientConn, DisconnectEnds; ChunkManager, RequestsEnd).                 *)
(***************************************************************************)
Ended == running \in {"stopped", "stuck", "waiting"}

RoundsGoOn ==
  /\ running = "yes" ~> (running = "yes" /\ cursor = 0) \/ Ended
  /\ cancelled ~> Ended
=============================================================================
