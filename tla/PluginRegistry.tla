--------------------------- MODULE PluginRegistry ---------------------------
(***************************************************************************)
(* The plugin registry and manager, internal/plugin/plugin.go, and who     *)
(* calls them: the server's main goroutine (cmd/server/main.go), which     *)
(* marks the core, loads the plugins and registers its commands, and then  *)
(* the administrator's console, which reloads.                             *)
(*                                                                         *)
(* The registry's lists are Go slices: append writes into the array behind *)
(* a slice as long as it has room, and ClearPlugins only shortens the      *)
(* slices.  That matters for gameSystems, whose array the game loop reads  *)
(* (GameLoop), so its arrays are kept; the other lists are sets.  Left out *)
(* are block factories, which the block manager copies when it is made,    *)
(* and configurations, which no reload clears.                             *)
(***************************************************************************)
EXTENDS Naturals, FiniteSets, Sequences, SequencesExt

CONSTANTS
  Files,           \* the plugins of the directory, in its order
  Makes,           \* what each plugin may register: "system", "hook", "command"
  Kinds,           \* kinds of the server's own systems
  NoSystem,        \* unused room in an array
  MaxSystems       \* bound: systems that the plugins of a load register

(* The server's own systems are registered by main and by the service; those that  *)
(* plugins register are told apart only by the load they come from.                *)
Own(by, what) == [by |-> by, load |-> 0, what |-> what]
PluginSystems == [by : {"plugin"}, load : Nat \ {0}, what : {"system"}]
Systems == {Own(by, kind) : by \in {"main", "service"}, kind \in ToSet(Kinds)} \cup PluginSystems

ASSUME PluginRegistryAssumption ==
  /\ Files \in Seq(STRING) /\ Kinds \in Seq(STRING)
  /\ \A i, j \in 1..Len(Kinds) : Kinds[i] = Kinds[j] => i = j
  /\ Makes \in [ToSet(Files) -> SUBSET {"system", "hook", "command"}]
  /\ NoSystem \notin Systems
  /\ MaxSystems \in Nat

VARIABLES
  arrays,          \* every array that append has made
  gameSystems,     \* [array, len]
  hooks, commands, pluginMetas,
  core,            \* what MarkCore recorded
  load,            \* loads so far
  main,            \* step of the main goroutine and then of the console
  file             \* index of the plugin being loaded, or of the kind being registered

registryVars == <<arrays, gameSystems, hooks, commands, pluginMetas, core>>

(* A registration: who made it, in which load, and what it is. *)
Plugin(what) == [by |-> Files[file], load |-> load, what |-> what]
PluginSystem == [by |-> "plugin", load |-> load, what |-> "system"]

Elements(s) == SubSeq(arrays[s.array], 1, s.len)
GameSystems == Elements(gameSystems)

(* Growth of a full array, to twice its length. *)
Room(a) == a \o [i \in 1..Len(a) |-> NoSystem]

(* append writes into the array while there is room, and else into a longer copy. *)
RegisterGameSystem(sys) ==
  LET a == arrays[gameSystems.array]
      i == gameSystems.len + 1 IN
  IF i <= Len(a)
  THEN /\ arrays' = [arrays EXCEPT ![gameSystems.array] = [a EXCEPT ![i] = sys]]
       /\ gameSystems' = [gameSystems EXCEPT !.len = i]
  ELSE /\ arrays' = Append(arrays, [Room(a) EXCEPT ![i] = sys])
       /\ gameSystems' = [array |-> Len(arrays) + 1, len |-> i]

-----------------------------------------------------------------------------
(* The main goroutine. *)

RegisterOwn(by) ==
  /\ file <= Len(Kinds)
  /\ RegisterGameSystem(Own(by, Kinds[file]))
  /\ file' = file + 1

RegisterCore ==
  /\ main = "core"
  /\ RegisterOwn("main")
  /\ UNCHANGED <<hooks, commands, pluginMetas, core, load, main>>

NoMark == [systems |-> 0, hooks |-> {}, commands |-> {}, metas |-> {}]

(* Marks the core before anything is registered. *)
FaultyCoreMark == NoMark
CoreMark == [systems |-> gameSystems.len, hooks |-> hooks, commands |-> commands,
             metas |-> pluginMetas]

MarkCore ==
  /\ main = "core" /\ file > Len(Kinds)
  /\ core' = CoreMark
  /\ main' = "load" /\ load' = 1 /\ file' = 1
  /\ UNCHANGED <<arrays, gameSystems, hooks, commands, pluginMetas>>

(* NewWorldService and NewWorldServiceWithRegistry register the same kinds again. *)
NewWorldService ==
  /\ main = "service"
  /\ RegisterOwn("service")
  /\ main' = IF file < Len(Kinds) THEN "service" ELSE "start"
  /\ UNCHANGED <<hooks, commands, pluginMetas, core, load>>

RegisterCommands ==
  /\ main = "commands"
  /\ commands' = commands \cup {Own("main", c) : c \in {"reload", "stop", "help", "plugins", "config"}}
  /\ main' = "repl"
  /\ UNCHANGED <<arrays, gameSystems, hooks, pluginMetas, core, load, file>>

-----------------------------------------------------------------------------
(* ReloadPlugins, at the console.  The commands are found in the registry. *)

Reload ==
  /\ main = "repl"
  /\ Own("main", "reload") \in commands
  /\ main' = "clear"
  /\ UNCHANGED <<registryVars, load, file>>

(* Forgets the hooks. *)
FaultyCoreHooks == hooks
CoreHooks == core.hooks

ClearPlugins ==
  /\ main = "clear"
  /\ gameSystems' = IF core.systems <= gameSystems.len
                    THEN [gameSystems EXCEPT !.len = core.systems] ELSE gameSystems
  /\ hooks' = CoreHooks
  /\ commands' = core.commands
  /\ pluginMetas' = core.metas
  /\ main' = "load" /\ load' = load + 1 /\ file' = 1
  /\ UNCHANGED <<arrays, core>>

-----------------------------------------------------------------------------
(* LoadPlugins, one file of the directory after the other.                 *)

Loading == main = "load" /\ file <= Len(Files)
NextFile == file' = file + 1 /\ main' = "load"
Returns == main' = (IF load = 1 THEN "service" ELSE "repl") /\ file' = 1

(* The plugin's metadata are of another version. *)
SkipFile ==
  /\ Loading
  /\ NextFile
  /\ UNCHANGED <<registryVars, load>>

(* Metadata are registered before the plugin is opened; it may have none, and it may *)
(* have no Register function, or not be opened, which ends the whole load.           *)
OpenFile ==
  /\ Loading
  /\ pluginMetas' \in {pluginMetas, pluginMetas \cup {Plugin("meta")}}
  /\ \/ main' = "register" /\ UNCHANGED file
     \/ NextFile
     \/ Returns
  /\ UNCHANGED <<arrays, gameSystems, hooks, commands, core, load>>

Registering(what) == main = "register" /\ what \in Makes[Files[file]]
Registered == {i \in 1..gameSystems.len : GameSystems[i].load = load}

(* Register, which may register several systems. *)
RegisterSystem ==
  /\ Registering("system")
  /\ Cardinality(Registered) < MaxSystems
  /\ RegisterGameSystem(PluginSystem)
  /\ UNCHANGED <<hooks, commands, pluginMetas, core, load, main, file>>

RegisterHook ==
  /\ Registering("hook")
  /\ hooks' = hooks \cup {Plugin("hook")}
  /\ UNCHANGED <<arrays, gameSystems, commands, pluginMetas, core, load, main, file>>

RegisterCommand ==
  /\ Registering("command")
  /\ commands' = commands \cup {Plugin("command")}
  /\ UNCHANGED <<arrays, gameSystems, hooks, pluginMetas, core, load, main, file>>

(* Register returns, or panics: what it has registered stays. *)
EndRegister ==
  /\ main = "register"
  /\ NextFile
  /\ UNCHANGED <<registryVars, load>>

EndLoad ==
  /\ main = "load" /\ file > Len(Files)
  /\ Returns
  /\ UNCHANGED <<registryVars, load>>

-----------------------------------------------------------------------------

RegistryInit ==
  /\ arrays = <<<<NoSystem>>>>
  /\ gameSystems = [array |-> 1, len |-> 0]
  /\ hooks = {} /\ commands = {} /\ pluginMetas = {}
  /\ core = NoMark
  /\ load = 0 /\ main = "core" /\ file = 1

RegistryStep ==
  \/ RegisterCore \/ MarkCore \/ NewWorldService \/ RegisterCommands
  \/ Reload \/ ClearPlugins
  \/ SkipFile \/ OpenFile \/ EndLoad
  \/ RegisterSystem \/ RegisterHook \/ RegisterCommand \/ EndRegister

(***************************************************************************)
(* The registry holds nothing of an earlier load: whatever the plugins did *)
(* in it (some were skipped, failed to open or panicked halfway), after a  *)
(* reload no hook, command, metadata or game system of theirs is left, and *)
(* no hook of theirs runs (ClearPlugins).                                  *)
(***************************************************************************)
NoLeftovers ==
  \A r \in hooks \cup commands \cup pluginMetas \cup ToSet(GameSystems) : r.load \in {0, load}
=============================================================================
