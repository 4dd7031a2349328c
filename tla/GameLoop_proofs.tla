-------------------------- MODULE GameLoop_proofs ---------------------------
(***************************************************************************)
(* Proofs about GameLoop and the PluginRegistry under it, for every value  *)
(* of their constants: any plugins, any number of systems, any day.        *)
(***************************************************************************)
EXTENDS GameLoop, TLAPS

(* Where a lock that is never freed may be waited for. *)
USE DEF EmitWorldEvent, RefreshRegions

-----------------------------------------------------------------------------
(* The inductive invariant.                                                *)

OwnSystems == {Own(by, kind) : by \in {"main", "service"}, kind \in ToSet(Kinds)}

(* Before the service is made; nothing of the loop is there. *)
FirstLoad == main \in {"load", "register"} /\ load = 1

(* Where the main goroutine is tells how far the loop is. *)
Phases ==
  /\ main = "core" <=> load = 0
  /\ main \in {"core", "service"} \/ FirstLoad => running = "no" /\ cursor = 0
  /\ main = "start" => running \in {"no", "stuck", "waiting"}
  /\ running = "no" => main \in {"core", "service", "start"} \/ FirstLoad
  /\ main \in {"core", "service", "start"} \/ FirstLoad <=> loop.len = 0
  /\ main = "register" => file <= Len(Files)

(* The mark is behind the server's own systems, and nothing else was there. *)
CoreMarked ==
  /\ main = "core" => hooks = {} /\ commands = {} /\ pluginMetas = {}
  /\ main # "core" => core = [systems |-> Len(Kinds), hooks |-> {}, commands |-> {}, metas |-> {}]

(* The slice begins with main's systems, in their order. *)
CorePrefix(s) ==
  /\ Len(Kinds) <= s.len
  /\ \A i \in 1..Len(Kinds) : arrays[s.array][i] = Own("main", Kinds[i])

(* Neither a reload nor a longer array takes main's systems away. *)
CoreInPlace ==
  /\ main = "core" => /\ gameSystems.len = file - 1
                      /\ \A i \in 1..gameSystems.len :
                           arrays[gameSystems.array][i] = Own("main", Kinds[i])
  /\ main # "core" => CorePrefix(gameSystems)
  /\ loop.len # 0 => CorePrefix(loop)

(* Init has run: of those before the cursor, and then of all. *)
CoreReady ==
  /\ main = "start" => \A i \in 1..cursor : arrays[gameSystems.array][i] \in ready
  /\ loop.len # 0 => \A i \in 1..Len(Kinds) : Own("main", Kinds[i]) \in ready

(* A system of the server's own is at one index, in whatever array it is, *)
(* since it is registered once.                                           *)
OnePlace ==
  \A a, c \in DOMAIN arrays : \A i \in 1..Len(arrays[a]), j \in 1..Len(arrays[c]) :
    arrays[a][i] = arrays[c][j] /\ arrays[a][i] \in OwnSystems => i = j

(* And it is in no array before that. *)
NotYetThere ==
  \A a \in DOMAIN arrays : \A i \in 1..Len(arrays[a]), m \in 1..Len(Kinds) :
    /\ main = "core" /\ arrays[a][i] = Own("main", Kinds[m]) => m < file
    /\ main = "service" /\ arrays[a][i] = Own("service", Kinds[m]) => m < file
    /\ main = "core" \/ FirstLoad => arrays[a][i] # Own("service", Kinds[m])

(* Nobody has ticked before the loop runs. *)
NoTicksYet == loop.len = 0 => \A s \in OwnSystem("time") : ticks[s] = 0

IInv ==
  /\ TypeOK
  /\ Phases
  /\ CoreMarked
  /\ CoreInPlace
  /\ CoreReady
  /\ OnePlace
  /\ NotYetThere
  /\ NoTicksYet
  /\ NoLeftovers
  /\ CoreKeepsTicking
  /\ TimesAgree

-----------------------------------------------------------------------------
(* Operators of the model.                                                 *)

Arrays == Seq(Systems \cup {NoSystem}) \ {<<>>}

LEMMA KindsAreThree ==
  /\ Len(Kinds) \in Nat /\ Len(Kinds) > 0
  /\ \A i \in 1..Len(Kinds) : Kinds[i] \in {"time", "weather", "block"}
  /\ \A kind \in {"time", "weather", "block"} : \E i \in 1..Len(Kinds) : Kinds[i] = kind
<1>1. Kinds \in Seq(STRING)
  BY PluginRegistryAssumption
<1>2. DOMAIN Kinds = 1..Len(Kinds) /\ Len(Kinds) \in Nat
  BY <1>1
<1>3. /\ \A i \in 1..Len(Kinds) : Kinds[i] \in {"time", "weather", "block"}
      /\ \A kind \in {"time", "weather", "block"} : \E i \in 1..Len(Kinds) : Kinds[i] = kind
  BY <1>2, GameLoopAssumption DEF ToSet
<1>4. QED
  BY <1>2, <1>3

(* The server's own systems are of no load, a plugin's are of the load that *)
(* registered it, and the two kinds are distinct.                           *)
LEMMA SystemKinds ==
  /\ OwnSystems \subseteq Systems
  /\ \A by \in {"main", "service"}, i \in 1..Len(Kinds) : Own(by, Kinds[i]) \in OwnSystems
  /\ \A s \in OwnSystems : s.load = 0
  /\ \A s \in Systems \ OwnSystems : s.load \in Nat \ {0}
  /\ NoSystem \notin OwnSystems
  /\ \A kind : OwnSystem(kind) = {Own("main", kind), Own("service", kind)}
<1>1. \A i \in 1..Len(Kinds) : Kinds[i] \in ToSet(Kinds)
  BY PluginRegistryAssumption DEF ToSet
<1>2. QED
  BY <1>1, PluginRegistryAssumption DEF OwnSystems, Systems, PluginSystems, Own, OwnSystem

LEMMA OwnDistinct ==
  /\ \A k, l : Own("main", k) # Own("service", l)
  /\ \A by, k, l : Own(by, k) = Own(by, l) => k = l
BY DEF Own

(* append on the registry's slice: the slice is one longer and keeps what it *)
(* had, and in every array an element is what it was, or a copy of one at    *)
(* the same index, or the new system behind the slice.                       *)
LEMMA AppendSystem ==
  ASSUME TypeOK, NEW sys \in Systems, RegisterGameSystem(sys)
  PROVE  /\ arrays' \in Seq(Arrays) /\ DOMAIN arrays \subseteq DOMAIN arrays'
         /\ gameSystems' \in [array : DOMAIN arrays', len : Nat]
         /\ gameSystems'.len = gameSystems.len + 1
         /\ gameSystems'.len <= Len(arrays'[gameSystems'.array])
         /\ arrays'[gameSystems'.array][gameSystems.len + 1] = sys
         /\ \A i \in 1..gameSystems.len :
              arrays'[gameSystems'.array][i] = arrays[gameSystems.array][i]
         /\ \A c \in DOMAIN arrays :
              /\ Len(arrays'[c]) = Len(arrays[c])
              /\ \A i \in 1..Len(arrays[c]) :
                   \/ arrays'[c][i] = arrays[c][i]
                   \/ i = gameSystems.len + 1 /\ arrays'[c][i] = sys
         /\ \A c \in DOMAIN arrays', i \in Nat : i \in 1..Len(arrays'[c]) =>
              \/ arrays'[c][i] = NoSystem
              \/ i = gameSystems.len + 1 /\ arrays'[c][i] = sys
              \/ \E b \in DOMAIN arrays : i \in 1..Len(arrays[b]) /\ arrays'[c][i] = arrays[b][i]
<1> DEFINE S == Systems \cup {NoSystem}
           a == arrays[gameSystems.array]
           i == gameSystems.len + 1
<1>1. /\ arrays \in Seq(Arrays) /\ Len(arrays) \in Nat /\ DOMAIN arrays = 1..Len(arrays)
      /\ gameSystems.array \in DOMAIN arrays /\ gameSystems.len \in Nat
      /\ gameSystems \in [array : DOMAIN arrays, len : Nat]
  BY DEF TypeOK, Arrays
<1>2. a \in Seq(S) /\ a # <<>> /\ Len(a) \in Nat /\ Len(a) > 0 /\ gameSystems.len <= Len(a)
  BY <1>1 DEF TypeOK, Arrays
<1>3. sys \in S /\ NoSystem \in S
  OBVIOUS
<1>4. CASE i <= Len(a)
  <2> DEFINE b == [a EXCEPT ![i] = sys]
  <2>1. /\ b \in Seq(S) /\ Len(b) = Len(a) /\ b # <<>> /\ b[i] = sys
        /\ \A j \in 1..Len(a) : j # i => b[j] = a[j]
    BY <1>1, <1>2, <1>3, <1>4
  <2>2. arrays' = [arrays EXCEPT ![gameSystems.array] = b] /\ gameSystems' = [gameSystems EXCEPT !.len = i]
    BY <1>4 DEF RegisterGameSystem
  <2> HIDE DEF a, b, i, S
  <2>3. /\ arrays' \in Seq(Arrays) /\ DOMAIN arrays' = DOMAIN arrays
        /\ arrays'[gameSystems.array] = b
        /\ \A c \in DOMAIN arrays : c # gameSystems.array => arrays'[c] = arrays[c]
    BY <1>1, <2>1, <2>2 DEF Arrays, S
  <2>4. /\ gameSystems' \in [array : DOMAIN arrays', len : Nat]
        /\ gameSystems'.len = i /\ gameSystems'.array = gameSystems.array
    BY <1>1, <2>2, <2>3 DEF i
  <2>5. ASSUME NEW c \in DOMAIN arrays
        PROVE  /\ Len(arrays'[c]) = Len(arrays[c])
               /\ \A j \in 1..Len(arrays[c]) :
                    arrays'[c][j] = arrays[c][j] \/ (j = i /\ arrays'[c][j] = sys)
    <3>1. CASE c = gameSystems.array
      <4>1. arrays'[c] = b /\ arrays[c] = a
        BY <2>3, <3>1 DEF a
      <4>2. QED
        BY <2>1, <4>1
    <3>2. CASE c # gameSystems.array
      <4>1. arrays'[c] = arrays[c]
        BY <2>3, <3>2
      <4>2. QED
        BY <4>1
    <3>3. QED
      BY <3>1, <3>2
  <2>6. ASSUME NEW c \in DOMAIN arrays', NEW j \in 1..Len(arrays'[c])
        PROVE  \/ j = i /\ arrays'[c][j] = sys
               \/ \E d \in DOMAIN arrays : j \in 1..Len(arrays[d]) /\ arrays'[c][j] = arrays[d][j]
    BY <2>3, <2>5, <2>6
  <2>7. \A j \in 1..gameSystems.len : arrays'[gameSystems.array][j] = arrays[gameSystems.array][j]
    BY <1>1, <1>2, <2>1, <2>3 DEF a, i
  <2>8. i \in Nat /\ i <= Len(arrays'[gameSystems.array]) /\ arrays'[gameSystems.array][i] = sys
    BY <1>1, <1>4, <2>1, <2>3 DEF a, i
  <2>9. QED
    BY <2>3, <2>4, <2>5, <2>6, <2>7, <2>8 DEF i
<1>5. CASE i > Len(a)
  <2> DEFINE r == [j \in 1..Len(a) |-> NoSystem]
             b == [Room(a) EXCEPT ![i] = sys]
  <2>1. i = Len(a) + 1
    BY <1>1, <1>2, <1>5
  <2>2. r \in Seq(S) /\ Len(r) = Len(a) /\ \A j \in 1..Len(a) : r[j] = NoSystem
    BY <1>2, <1>3
  <2>3. Room(a) = a \o r
    BY DEF Room
  <2> HIDE DEF r
  <2> HIDE DEF a, S, i
  <2>4. /\ Room(a) \in Seq(S) /\ Len(Room(a)) = Len(a) + Len(a)
        /\ \A j \in 1..Len(a) : Room(a)[j] = a[j]
        /\ \A j \in Len(a) + 1..Len(a) + Len(a) : Room(a)[j] = NoSystem
    <3>1. \A f \in Seq(S), g \in Seq(S) :
            /\ f \o g \in Seq(S) /\ Len(f \o g) = Len(f) + Len(g)
            /\ \A j \in 1..Len(f) : (f \o g)[j] = f[j]
            /\ \A j \in Len(f) + 1..Len(f) + Len(g) : (f \o g)[j] = g[j - Len(f)]
      OBVIOUS
    <3>2. \A j \in Len(a) + 1..Len(a) + Len(a) : j - Len(a) \in 1..Len(a)
      BY <1>2
    <3>3. QED
      <4>1. /\ a \o r \in Seq(S) /\ Len(a \o r) = Len(a) + Len(r)
            /\ \A j \in 1..Len(a) : (a \o r)[j] = a[j]
            /\ \A j \in Len(a) + 1..Len(a) + Len(r) : (a \o r)[j] = r[j - Len(a)]
        BY <1>2, <2>2, <3>1
      <4>2. QED
        BY <2>2, <2>3, <3>2, <4>1
  <2>5. /\ b \in Seq(S) /\ Len(b) = Len(a) + Len(a) /\ b # <<>> /\ b[i] = sys
        /\ \A j \in 1..Len(b) : j # i => b[j] = Room(a)[j]
    BY <1>2, <1>3, <2>1, <2>4
  <2>6. arrays' = Append(arrays, b) /\ gameSystems' = [array |-> Len(arrays) + 1, len |-> i]
    BY <1>1, <1>2, <1>5 DEF RegisterGameSystem, a, i
  <2> HIDE DEF b
  <2>7. /\ arrays' \in Seq(Arrays) /\ DOMAIN arrays' = 1..Len(arrays) + 1
        /\ arrays'[Len(arrays) + 1] = b
        /\ \A c \in DOMAIN arrays : arrays'[c] = arrays[c]
    BY <1>1, <2>5, <2>6 DEF Arrays, S
  <2>8. gameSystems'.len = i /\ gameSystems'.array = Len(arrays) + 1
    BY <2>6
  <2>9. \A j \in 1..Len(b) :
          b[j] = NoSystem \/ (j = i /\ b[j] = sys) \/ (j \in 1..Len(a) /\ b[j] = a[j])
    BY <1>2, <2>1, <2>4, <2>5
  <2>10. \A j \in 1..gameSystems.len : b[j] = a[j]
    BY <1>1, <1>2, <2>1, <2>4, <2>5 DEF i
  <2>11. i \in Nat /\ i <= Len(b)
    BY <1>2, <2>1, <2>5
  <2>12. ASSUME NEW c \in DOMAIN arrays', NEW j \in 1..Len(arrays'[c])
         PROVE  \/ arrays'[c][j] = NoSystem
                \/ j = i /\ arrays'[c][j] = sys
                \/ \E d \in DOMAIN arrays : j \in 1..Len(arrays[d]) /\ arrays'[c][j] = arrays[d][j]
    <3>1. CASE c \in DOMAIN arrays
      BY <2>7, <2>12, <3>1
    <3>2. CASE c = Len(arrays) + 1
      BY <1>1, <2>7, <2>9, <2>12, <3>2 DEF a
    <3>3. QED
      BY <1>1, <2>7, <3>1, <3>2
  <2>13. QED
    BY <1>1, <2>5, <2>6, <2>7, <2>8, <2>10, <2>11, <2>12 DEF a, i
<1>6. QED
  BY <1>1, <1>2, <1>4, <1>5

(* The steps that append to the registry's slice, and what they append. *)
LEMMA Registers ==
  ASSUME TypeOK, Phases, RegisterCore \/ NewWorldService \/ RegisterSystem
  PROVE  \E sys \in Systems :
           /\ RegisterGameSystem(sys)
           /\ RegisterCore => /\ file \in 1..Len(Kinds) /\ sys = Own("main", Kinds[file])
                              /\ file' = file + 1 /\ main' = main
           /\ NewWorldService => /\ file \in 1..Len(Kinds) /\ sys = Own("service", Kinds[file])
                                 /\ file' = file + 1 /\ main' \in {"service", "start"}
           /\ RegisterSystem => /\ sys \notin OwnSystems /\ sys.load = load
                                /\ UNCHANGED <<file, main>>
           /\ UNCHANGED <<hooks, commands, pluginMetas, core, load>>
<1>1. CASE RegisterCore
  <2>1. file \in 1..Len(Kinds)
    BY <1>1, KindsAreThree DEF RegisterCore, RegisterOwn, TypeOK
  <2>2. Own("main", Kinds[file]) \in Systems
    BY <2>1, SystemKinds
  <2>3. QED
    BY <1>1, <2>1, <2>2 DEF RegisterCore, RegisterOwn, NewWorldService, RegisterSystem, Registering
<1>2. CASE NewWorldService
  <2>1. file \in 1..Len(Kinds)
    BY <1>2, KindsAreThree DEF NewWorldService, RegisterOwn, TypeOK
  <2>2. Own("service", Kinds[file]) \in Systems
    BY <2>1, SystemKinds
  <2>3. QED
    BY <1>2, <2>1, <2>2 DEF RegisterCore, RegisterOwn, NewWorldService, RegisterSystem, Registering
<1>3. CASE RegisterSystem
  <2>1. load \in Nat \ {0}
    BY <1>3 DEF RegisterSystem, Registering, Phases, TypeOK
  <2>2. PluginSystem \in Systems /\ PluginSystem \notin OwnSystems /\ PluginSystem.load = load
    BY <2>1, SystemKinds DEF PluginSystem, Systems, PluginSystems
  <2>3. QED
    BY <1>3, <2>2 DEF RegisterCore, NewWorldService, RegisterSystem, Registering
<1>4. QED
  BY <1>1, <1>2, <1>3

(* The other steps leave the arrays alone, and but for a reload the slice, too. *)
LEMMA ArraysUnchanged ==
  ASSUME [Next]_vars, ~(RegisterCore \/ NewWorldService \/ RegisterSystem)
  PROVE  /\ arrays' = arrays
         /\ ~ClearPlugins => gameSystems' = gameSystems
BY DEF Next, RegistryStep, LoopStep, MarkCore, RegisterCommands, Reload, ClearPlugins, SkipFile,
       OpenFile, EndLoad, RegisterHook, RegisterCommand, EndRegister, InitSystem, StartLoop, Round,
       TickTime, TickBlocks, TickWeather, TickPlugin, TickUnchanged, StopLoop, ActivateChunk,
       Cancel, registryVars, vars

(* Only Start gives the loop its systems. *)
LEMMA LoopUnchanged ==
  ASSUME [Next]_vars, ~StartLoop
  PROVE  loop' = loop
BY DEF Next, LoopStep, InitSystem, Round, TickTime, TickBlocks, TickWeather, TickPlugin,
       TickUnchanged, StopLoop, ActivateChunk, Cancel, loopVars, vars

-----------------------------------------------------------------------------
(* Type correctness.                                                       *)

(* A slice of the registry or of the loop lies within its array, and all of *)
(* it has been written.                                                     *)
SliceOK(s) ==
  /\ s \in [array : DOMAIN arrays, len : Nat]
  /\ s.len <= Len(arrays[s.array])
  /\ \A i \in 1..s.len : arrays[s.array][i] # NoSystem

LEMMA SlicesStep ==
  ASSUME TypeOK, Phases, CoreMarked, CoreInPlace, [Next]_vars
  PROVE  /\ arrays' \in Seq(Seq(Systems \cup {NoSystem}) \ {<<>>})
         /\ SliceOK(gameSystems)' /\ SliceOK(loop)'
<1>1. arrays \in Seq(Arrays) /\ SliceOK(gameSystems) /\ SliceOK(loop)
  BY DEF TypeOK, SliceOK, Arrays
<1>2. CASE RegisterCore \/ NewWorldService \/ RegisterSystem
  <2>1. PICK sys \in Systems : RegisterGameSystem(sys)
    BY <1>2, Registers
  <2>2. sys # NoSystem
    BY PluginRegistryAssumption
  <2>3. loop' = loop
    BY <1>2, LoopUnchanged DEF RegisterCore, NewWorldService, RegisterSystem, Registering, StartLoop
  <2>4. arrays' \in Seq(Arrays)
    BY <2>1, AppendSystem
  <2>5. SliceOK(gameSystems)'
    <3>1. /\ gameSystems' \in [array : DOMAIN arrays', len : Nat]
          /\ gameSystems'.len = gameSystems.len + 1
          /\ gameSystems'.len <= Len(arrays'[gameSystems'.array])
          /\ arrays'[gameSystems'.array][gameSystems.len + 1] = sys
          /\ \A i \in 1..gameSystems.len :
               arrays'[gameSystems'.array][i] = arrays[gameSystems.array][i]
      BY <2>1, AppendSystem
    <3>2. \A i \in 1..gameSystems'.len : i = gameSystems.len + 1 \/ i \in 1..gameSystems.len
      BY <1>1, <3>1 DEF SliceOK
    <3>3. QED
      BY <1>1, <2>2, <3>1, <3>2 DEF SliceOK
  <2>6. SliceOK(loop)'
    <3>1. loop.array \in DOMAIN arrays
      BY <1>1 DEF SliceOK
    <3>2. /\ DOMAIN arrays \subseteq DOMAIN arrays'
          /\ Len(arrays'[loop.array]) = Len(arrays[loop.array])
          /\ \A i \in 1..Len(arrays[loop.array]) :
               \/ arrays'[loop.array][i] = arrays[loop.array][i]
               \/ arrays'[loop.array][i] = sys
      <4>1. /\ DOMAIN arrays \subseteq DOMAIN arrays'
            /\ \A c \in DOMAIN arrays :
                 /\ Len(arrays'[c]) = Len(arrays[c])
                 /\ \A i \in 1..Len(arrays[c]) :
                      \/ arrays'[c][i] = arrays[c][i]
                      \/ i = gameSystems.len + 1 /\ arrays'[c][i] = sys
        BY <2>1, AppendSystem
      <4>2. QED
        BY <3>1, <4>1
    <3>3. Len(arrays[loop.array]) \in Nat
      BY <1>1, <3>1 DEF Arrays
    <3>4. QED
      BY <1>1, <2>2, <2>3, <3>2, <3>3 DEF SliceOK
  <2>7. QED
    BY <2>4, <2>5, <2>6 DEF Arrays
<1>3. CASE ~(RegisterCore \/ NewWorldService \/ RegisterSystem)
  <2>1. arrays' = arrays /\ (~ClearPlugins => gameSystems' = gameSystems)
    BY <1>3, ArraysUnchanged
  <2>2. SliceOK(gameSystems)'
    <3>1. CASE ClearPlugins
      <4>1. core.systems = Len(Kinds) /\ Len(Kinds) <= gameSystems.len
        BY <3>1 DEF ClearPlugins, CoreMarked, CoreInPlace, CorePrefix
      <4>2. gameSystems' = [gameSystems EXCEPT !.len = Len(Kinds)]
        BY <3>1, <4>1 DEF ClearPlugins
      <4>3. QED
        BY <1>1, <2>1, <4>1, <4>2, KindsAreThree DEF SliceOK
    <3>2. CASE ~ClearPlugins
      BY <1>1, <2>1, <3>2 DEF SliceOK
    <3>3. QED
      BY <3>1, <3>2
  <2>3. SliceOK(loop)'
    <3>1. CASE StartLoop
      BY <1>1, <2>1, <3>1 DEF StartLoop, SliceOK
    <3>2. CASE ~StartLoop
      BY <1>1, <2>1, <3>2, LoopUnchanged DEF SliceOK
    <3>3. QED
      BY <3>1, <3>2
  <2>4. QED
    BY <1>1, <2>1, <2>2, <2>3 DEF Arrays
<1>4. QED
  BY <1>2, <1>3

(* The loop does not run before it is made, and Start is followed by a loop *)
(* that holds systems.                                                      *)
LEMMA PhasesStep ==
  ASSUME TypeOK, Phases, CoreInPlace, [Next]_vars
  PROVE  Phases'
<1> USE DEF Phases, FirstLoad
<1>1. /\ load \in Nat
      /\ main \in {"core", "load", "register", "service", "start", "commands", "repl", "clear"}
  BY DEF TypeOK
<1>2. ASSUME RegistryStep, UNCHANGED loopVars
      PROVE  Phases'
  <2> USE DEF loopVars
  <2>1. CASE RegisterCore
    BY <1>2, <2>1 DEF RegisterCore
  <2>2. CASE MarkCore
    BY <1>2, <2>2 DEF MarkCore
  <2>3. CASE NewWorldService
    BY <1>1, <1>2, <2>3 DEF NewWorldService
  <2>4. CASE RegisterCommands
    BY <1>2, <2>4 DEF RegisterCommands
  <2>5. CASE Reload
    BY <1>2, <2>5 DEF Reload
  <2>6. CASE ClearPlugins
    BY <1>1, <1>2, <2>6 DEF ClearPlugins
  <2>7. CASE SkipFile
    BY <1>2, <2>7 DEF SkipFile, Loading, NextFile
  <2>8. CASE OpenFile
    BY <1>1, <1>2, <2>8 DEF OpenFile, Loading, NextFile, Returns
  <2>9. CASE EndLoad
    BY <1>1, <1>2, <2>9 DEF EndLoad, Returns
  <2>10. CASE RegisterSystem \/ RegisterHook \/ RegisterCommand
    BY <1>2, <2>10 DEF RegisterSystem, RegisterHook, RegisterCommand
  <2>11. CASE EndRegister
    BY <1>2, <2>11 DEF EndRegister, NextFile
  <2>12. QED
    BY <1>2, <2>1, <2>2, <2>3, <2>4, <2>5, <2>6, <2>7, <2>8, <2>9, <2>10, <2>11 DEF RegistryStep
<1>3. CASE InitSystem
  BY <1>3 DEF InitSystem
<1>4. CASE StartLoop
  <2>1. gameSystems.len # 0
    BY <1>4, KindsAreThree DEF StartLoop, CoreInPlace, CorePrefix, TypeOK
  <2>2. QED
    BY <1>1, <1>4, <2>1 DEF StartLoop
<1>5. CASE LoopStep
  BY <1>5 DEF LoopStep, Round, TickTime, TickBlocks, TickWeather, TickPlugin, Ticking, AfterPanic,
              TickUnchanged
<1>6. CASE StopLoop \/ ActivateChunk \/ Cancel
  BY <1>6 DEF StopLoop, ActivateChunk, Cancel
<1>7. CASE UNCHANGED vars
  BY <1>7 DEF vars, loopVars
<1>8. QED
  BY <1>2, <1>3, <1>4, <1>5, <1>6, <1>7 DEF Next

LEMMA ModDay ==
  ASSUME NEW day \in Nat \ {0}, NEW a \in 0..day - 1
  PROVE  /\ a + 0 = a /\ a % day = a
         /\ (a + 1) % day = IF a = day - 1 THEN 0 ELSE a + 1
         /\ (a + 1) % day \in 0..day - 1
OBVIOUS

LEMMA TypeStep ==
  ASSUME TypeOK, Phases, CoreMarked, CoreInPlace, [Next]_vars
  PROVE  TypeOK'
<1> DEFINE Steps == {"core", "load", "register", "service", "start", "commands", "repl", "clear"}
           LastFile == IF main \in {"load", "register"} THEN Len(Files) ELSE Len(Kinds)
           End == IF loop.len = 0 THEN gameSystems.len ELSE loop.len
           Scalars == /\ load \in Nat /\ main \in Steps
                      /\ file \in 1..LastFile + 1
                      /\ cursor \in 0..End
                      /\ running \in {"no", "yes", "stuck", "waiting", "stopped"}
                      /\ ticks \in [OwnSystem("time") -> 0..TicksPerDay - 1]
                      /\ updateTicker \in [OwnSystem("block") -> 0..RefreshEvery - 1]
<1>1. Scalars /\ SliceOK(gameSystems) /\ SliceOK(loop)
  BY DEF TypeOK, SliceOK
<1>2. SliceOK(gameSystems)' /\ SliceOK(loop)' /\ arrays' \in Seq(Seq(Systems \cup {NoSystem}) \ {<<>>})
  BY SlicesStep
<1>3. Len(Files) \in Nat /\ Len(Kinds) \in Nat /\ Len(Kinds) > 0
  BY KindsAreThree, PluginRegistryAssumption
<1>. SUFFICES Scalars'
  BY <1>2 DEF TypeOK, SliceOK
<1>4. gameSystems.len \in Nat /\ loop.len \in Nat
  BY <1>1 DEF SliceOK
<1>5. ASSUME RegistryStep, UNCHANGED loopVars
      PROVE  Scalars'
  <2>1. /\ running' \in {"no", "yes", "stuck", "waiting", "stopped"}
        /\ ticks' \in [OwnSystem("time") -> 0..TicksPerDay - 1]
        /\ updateTicker' \in [OwnSystem("block") -> 0..RefreshEvery - 1]
    BY <1>1, <1>5 DEF loopVars
  <2>2. cursor' \in 0..End'
    <3>1. CASE loop.len # 0
      BY <1>1, <1>5, <3>1 DEF loopVars
    <3>2. CASE loop.len = 0 /\ main # "start"
      BY <1>2, <1>5, <3>2 DEF loopVars, Phases, SliceOK
    <3>3. CASE loop.len = 0 /\ main = "start"
      BY <1>5, <3>3 DEF RegistryStep, RegisterCore, MarkCore, NewWorldService, RegisterCommands, Reload,
           ClearPlugins, SkipFile, OpenFile, EndLoad, RegisterSystem, RegisterHook, RegisterCommand,
           EndRegister, Loading, Registering
    <3>4. QED
      BY <3>1, <3>2, <3>3
  <2>3. load' \in Nat /\ main' \in Steps /\ file' \in 1..LastFile' + 1
    <3> USE <1>1, <1>3
    <3>1. CASE RegisterCore
      BY <3>1 DEF RegisterCore, RegisterOwn
    <3>2. CASE MarkCore
      BY <3>2 DEF MarkCore
    <3>3. CASE NewWorldService
      BY <3>3 DEF NewWorldService, RegisterOwn
    <3>4. CASE RegisterCommands
      BY <3>4 DEF RegisterCommands
    <3>5. CASE Reload
      BY <3>5 DEF Reload
    <3>6. CASE ClearPlugins
      BY <3>6 DEF ClearPlugins
    <3>7. CASE SkipFile
      BY <3>7 DEF SkipFile, Loading, NextFile
    <3>8. CASE OpenFile
      BY <3>8 DEF OpenFile, Loading, NextFile, Returns
    <3>9. CASE EndLoad
      BY <3>9 DEF EndLoad, Returns
    <3>10. CASE RegisterSystem \/ RegisterHook \/ RegisterCommand
      BY <3>10 DEF RegisterSystem, RegisterHook, RegisterCommand
    <3>11. CASE EndRegister
      BY <3>11 DEF EndRegister, NextFile, Phases
    <3>12. QED
      BY <1>5, <3>1, <3>2, <3>3, <3>4, <3>5, <3>6, <3>7, <3>8, <3>9, <3>10, <3>11 DEF RegistryStep
  <2>4. QED
    BY <2>1, <2>2, <2>3
<1>6. CASE InitSystem
  <2>1. loop.len = 0
    BY <1>6 DEF InitSystem, Phases
  <2>2. cursor' \in 0..End'
    BY <1>1, <1>4, <1>6, <2>1 DEF InitSystem, registryVars
  <2>3. QED
    BY <1>1, <1>6, <2>2 DEF InitSystem
<1>7. CASE StartLoop
  BY <1>1, <1>2, <1>3, <1>7 DEF StartLoop, SliceOK
<1>8. CASE LoopStep
  <2>1. loop.len # 0 /\ cursor \in 0..loop.len
    BY <1>1, <1>8 DEF Phases, FirstLoad, LoopStep, Round, TickTime, TickBlocks, TickWeather, TickPlugin,
                      Ticking
  <2>2. /\ UNCHANGED <<load, main, file, loop>>
        /\ cursor' \in 0..loop.len /\ running' \in {"no", "yes", "stuck", "waiting", "stopped"}
    BY <1>1, <1>4, <1>8, <2>1 DEF LoopStep, Round, TickTime, TickBlocks, TickWeather, TickPlugin,
                                  TickUnchanged, AfterTick, AfterPanic
  <2>3. ticks' \in [OwnSystem("time") -> 0..TicksPerDay - 1]
    <3>1. CASE TickTime
      <4>1. (ticks[Current] + 1) % TicksPerDay \in 0..TicksPerDay - 1
        BY <1>1, <3>1, ModDay, GameLoopAssumption DEF TickTime
      <4>2. QED
        BY <1>1, <3>1, <4>1 DEF TickTime
    <3>2. CASE ~TickTime
      BY <1>1, <1>8, <3>2 DEF LoopStep, Round, TickBlocks, TickWeather, TickPlugin
    <3>3. QED
      BY <3>1, <3>2
  <2>4. updateTicker' \in [OwnSystem("block") -> 0..RefreshEvery - 1]
    <3>1. CASE TickBlocks
      <4>1. (updateTicker[Current] + 1) % RefreshEvery \in 0..RefreshEvery - 1
        BY <1>1, <3>1, ModDay, GameLoopAssumption DEF TickBlocks
      <4>2. QED
        BY <1>1, <3>1, <4>1 DEF TickBlocks
    <3>2. CASE ~TickBlocks
      BY <1>1, <1>8, <3>2 DEF LoopStep, Round, TickTime, TickWeather, TickPlugin
    <3>3. QED
      BY <3>1, <3>2
  <2>5. QED
    BY <1>1, <2>1, <2>2, <2>3, <2>4
<1>9. CASE StopLoop \/ ActivateChunk \/ Cancel
  BY <1>1, <1>9 DEF StopLoop, ActivateChunk, Cancel, registryVars
<1>10. CASE UNCHANGED vars
  BY <1>1, <1>10 DEF vars, loopVars, registryVars
<1>11. QED
  BY <1>5, <1>6, <1>7, <1>8, <1>9, <1>10 DEF Next

-----------------------------------------------------------------------------
(* The server's own systems stay where they are, and are initialised.      *)

(* The main goroutine registers, marks, and never comes back to it. *)
LEMMA MainStep ==
  ASSUME [Next]_vars
  PROVE  /\ main' = "core" => main = "core" /\ file' \in {file, file + 1}
         /\ main = "core" /\ main' # "core" => MarkCore
         /\ main = "core" /\ main' = "core" => RegisterCore \/ UNCHANGED <<file, gameSystems>>
         /\ main' = "service" => main = "service" \/ (load = 1 /\ load' = 1)
         /\ main' = "start" => main = "start" \/ NewWorldService
BY DEF Next, RegistryStep, LoopStep, RegisterCore, RegisterOwn, MarkCore, NewWorldService,
       RegisterCommands, Reload, ClearPlugins, SkipFile, OpenFile, EndLoad, RegisterSystem,
       RegisterHook, RegisterCommand, EndRegister, Loading, NextFile, Returns, Registering,
       InitSystem, StartLoop, Round, TickTime, TickBlocks, TickWeather, TickPlugin, TickUnchanged,
       StopLoop, ActivateChunk, Cancel, registryVars, vars

LEMMA CoreMarkedStep ==
  ASSUME TypeOK, CoreMarked, CoreInPlace, [Next]_vars
  PROVE  CoreMarked'
<1>1. CASE main = "core" /\ main' = "core"
  BY <1>1 DEF CoreMarked, Next, RegistryStep, LoopStep, RegisterCore, MarkCore, NewWorldService,
       RegisterCommands, Reload, ClearPlugins, SkipFile, OpenFile, EndLoad, RegisterSystem,
       RegisterHook, RegisterCommand, EndRegister, Loading, Registering, InitSystem, StartLoop,
       Round, TickTime, TickBlocks, TickWeather, TickPlugin, TickUnchanged, StopLoop, ActivateChunk,
       Cancel, registryVars, vars
<1>2. CASE main = "core" /\ main' # "core"
  <2>1. MarkCore
    BY <1>2, MainStep
  <2>2. gameSystems.len = Len(Kinds)
    BY <1>2, <2>1, KindsAreThree DEF MarkCore, CoreInPlace, TypeOK
  <2>3. QED
    BY <1>2, <2>1, <2>2 DEF MarkCore, CoreMark, CoreMarked
<1>3. CASE main # "core"
  <2>1. main' # "core"
    BY <1>3, MainStep
  <2>2. core' = core
    BY <1>3 DEF Next, RegistryStep, LoopStep, RegisterCore, MarkCore, NewWorldService,
       RegisterCommands, Reload, ClearPlugins, SkipFile, OpenFile, EndLoad, RegisterSystem,
       RegisterHook, RegisterCommand, EndRegister, InitSystem, StartLoop,
       Round, TickTime, TickBlocks, TickWeather, TickPlugin, TickUnchanged, StopLoop, ActivateChunk,
       Cancel, registryVars, vars
  <2>3. QED
    BY <1>3, <2>1, <2>2 DEF CoreMarked
<1>4. QED
  BY <1>1, <1>2, <1>3

(* A registration goes behind them, in whatever array; a reload shortens the *)
(* slice to them.                                                            *)
LEMMA CoreInPlaceStep ==
  ASSUME TypeOK, Phases, CoreMarked, CoreInPlace, [Next]_vars
  PROVE  CoreInPlace'
<1>1. Len(Kinds) \in Nat /\ SliceOK(gameSystems) /\ SliceOK(loop) /\ file \in Nat
  BY KindsAreThree, PluginRegistryAssumption DEF TypeOK, SliceOK
<1>2. CASE RegisterCore \/ NewWorldService \/ RegisterSystem
  <2>1. PICK sys \in Systems :
          /\ RegisterGameSystem(sys)
          /\ RegisterCore => sys = Own("main", Kinds[file]) /\ file' = file + 1 /\ main' = main
    BY <1>2, Registers
  <2>2. /\ gameSystems'.len = gameSystems.len + 1
        /\ arrays'[gameSystems'.array][gameSystems.len + 1] = sys
        /\ \A i \in 1..gameSystems.len :
             arrays'[gameSystems'.array][i] = arrays[gameSystems.array][i]
        /\ \A c \in DOMAIN arrays : \A i \in 1..Len(arrays[c]) :
             arrays'[c][i] = arrays[c][i] \/ i = gameSystems.len + 1
    BY <2>1, AppendSystem
  <2>3. loop' = loop
    BY <1>2, LoopUnchanged DEF RegisterCore, NewWorldService, RegisterSystem, Registering, StartLoop
  <2>4. ASSUME main' = "core"
        PROVE  /\ gameSystems'.len = file' - 1
               /\ \A i \in 1..gameSystems'.len :
                    arrays'[gameSystems'.array][i] = Own("main", Kinds[i])
    <3>1. RegisterCore /\ gameSystems.len = file - 1
      BY <1>2, <2>4, MainStep DEF RegisterCore, NewWorldService, RegisterSystem, Registering,
                                  CoreInPlace
    <3>2. \A i \in 1..gameSystems'.len : i = gameSystems.len + 1 \/ i \in 1..gameSystems.len
      BY <1>1, <2>2 DEF SliceOK
    <3>3. \A i \in 1..gameSystems.len : arrays[gameSystems.array][i] = Own("main", Kinds[i])
      BY <3>1 DEF RegisterCore, CoreInPlace
    <3>4. QED
      BY <1>1, <2>1, <2>2, <3>1, <3>2, <3>3
  <2>5. ASSUME main' # "core"
        PROVE  CorePrefix(gameSystems)'
    <3>1. main # "core"
      BY <1>2, <2>5, MainStep DEF RegisterCore, MarkCore, NewWorldService, RegisterSystem, Registering
    <3>2. Len(Kinds) <= gameSystems.len
          /\ \A i \in 1..Len(Kinds) : arrays[gameSystems.array][i] = Own("main", Kinds[i])
      BY <3>1 DEF CoreInPlace, CorePrefix
    <3>3. \A i \in 1..Len(Kinds) : i \in 1..gameSystems.len
      BY <1>1, <3>2 DEF SliceOK
    <3>4. QED
      BY <1>1, <2>2, <3>2, <3>3 DEF CorePrefix, SliceOK
  <2>6. ASSUME loop'.len # 0
        PROVE  CorePrefix(loop)'
    <3>1. Len(Kinds) <= loop.len
          /\ \A i \in 1..Len(Kinds) : arrays[loop.array][i] = Own("main", Kinds[i])
      BY <2>3, <2>6 DEF CoreInPlace, CorePrefix
    <3>2. Len(Kinds) <= gameSystems.len
      BY <2>3, <2>6 DEF Phases, CoreInPlace, CorePrefix
    <3>3. \A i \in 1..Len(Kinds) : i \in 1..Len(arrays[loop.array]) /\ i # gameSystems.len + 1
      BY <1>1, <3>1, <3>2 DEF SliceOK, TypeOK
    <3>4. loop.array \in DOMAIN arrays
      BY <1>1 DEF SliceOK
    <3>5. QED
      BY <2>2, <2>3, <3>1, <3>3, <3>4 DEF CorePrefix
  <2>7. QED
    BY <2>4, <2>5, <2>6 DEF CoreInPlace
<1>3. CASE ~(RegisterCore \/ NewWorldService \/ RegisterSystem)
  <2>1. arrays' = arrays /\ (~ClearPlugins => gameSystems' = gameSystems)
    BY <1>3, ArraysUnchanged
  <2>2. CASE ClearPlugins
    <3>1. main # "core" /\ main' # "core" /\ loop' = loop
      BY <2>2, LoopUnchanged DEF ClearPlugins, StartLoop
    <3>2. core.systems = Len(Kinds) /\ CorePrefix(gameSystems)
      BY <3>1 DEF CoreMarked, CoreInPlace
    <3>3. gameSystems' = [gameSystems EXCEPT !.len = Len(Kinds)]
      BY <2>2, <3>2 DEF ClearPlugins, CorePrefix
    <3>4. CorePrefix(gameSystems)'
      BY <1>1, <2>1, <3>2, <3>3 DEF CorePrefix, SliceOK
    <3>5. QED
      BY <2>1, <3>1, <3>4 DEF CoreInPlace, CorePrefix
  <2>3. CASE MarkCore
    <3>1. gameSystems' = gameSystems /\ loop' = loop
      BY <2>1, <2>3, LoopUnchanged DEF MarkCore, ClearPlugins, StartLoop
    <3>2. gameSystems.len = Len(Kinds)
      BY <1>1, <2>3 DEF MarkCore, CoreInPlace, TypeOK
    <3>3. QED
      BY <1>1, <2>1, <2>3, <3>1, <3>2 DEF MarkCore, CoreInPlace, CorePrefix
  <2>4. CASE StartLoop
    BY <2>1, <2>4 DEF StartLoop, ClearPlugins, CoreInPlace, CorePrefix
  <2>5. CASE ~(ClearPlugins \/ MarkCore \/ StartLoop)
    <3>1. gameSystems' = gameSystems /\ loop' = loop
      BY <2>1, <2>5, LoopUnchanged
    <3>2. (main' = "core" => main = "core" /\ file' = file) /\ (main = "core" => main' = "core")
      BY <1>3, <2>5, MainStep DEF Next, RegistryStep, LoopStep, InitSystem, StopLoop, ActivateChunk,
            Cancel, Round, TickTime, TickBlocks, TickWeather, TickPlugin, TickUnchanged, vars,
            RegisterCommands, Reload, SkipFile, OpenFile, EndLoad, RegisterHook,
            RegisterCommand, EndRegister, Loading, NextFile, Returns, Registering
    <3>3. QED
      BY <2>1, <3>1, <3>2 DEF CoreInPlace, CorePrefix
  <2>6. QED
    BY <2>2, <2>3, <2>4, <2>5
<1>4. QED
  BY <1>2, <1>3

LEMMA CoreReadyStep ==
  ASSUME TypeOK, Phases, CoreInPlace, CoreReady, [Next]_vars
  PROVE  CoreReady'
<1>1. SliceOK(gameSystems) /\ Len(Kinds) \in Nat /\ cursor \in Nat
  BY KindsAreThree, GameLoopAssumption DEF TypeOK, SliceOK
<1>2. CASE InitSystem
  <2>1. /\ cursor' = cursor + 1 /\ arrays' = arrays /\ gameSystems' = gameSystems /\ loop' = loop
        /\ cursor + 1 \in 1..gameSystems.len
        /\ ready' = ready \cup {GameSystems[cursor + 1]}
    BY <1>1, <1>2 DEF InitSystem, registryVars, SliceOK
  <2>2. GameSystems[cursor + 1] = arrays[gameSystems.array][cursor + 1]
    BY <1>1, <2>1 DEF GameSystems, Elements, SliceOK, TypeOK
  <2>3. \A i \in 1..cursor : arrays[gameSystems.array][i] \in ready
    BY <1>2 DEF InitSystem, CoreReady
  <2>4. \A i \in 1..cursor + 1 : i = cursor + 1 \/ i \in 1..cursor
    BY <1>1
  <2>5. QED
    BY <2>1, <2>2, <2>3, <2>4 DEF CoreReady
<1>3. CASE StartLoop
  <2>1. \A i \in 1..gameSystems.len : arrays[gameSystems.array][i] \in ready
    BY <1>3 DEF StartLoop, CoreReady
  <2>2. CorePrefix(gameSystems)
    BY <1>3 DEF StartLoop, CoreInPlace
  <2>3. \A i \in 1..Len(Kinds) : Own("main", Kinds[i]) \in ready
    BY <1>1, <2>1, <2>2 DEF CorePrefix, SliceOK
  <2>4. QED
    BY <1>3, <2>3 DEF StartLoop, CoreReady
<1>4. CASE NewWorldService
  <2>1. cursor' = 0 /\ ready' = ready /\ loop' = loop
    BY <1>4, LoopUnchanged DEF NewWorldService, Phases, Next, RegistryStep, LoopStep, InitSystem,
         StartLoop, Round, TickTime, TickBlocks, TickWeather, TickPlugin, TickUnchanged, Ticking,
         StopLoop, ActivateChunk, Cancel, loopVars, vars
  <2>2. QED
    BY <2>1 DEF CoreReady
<1>5. CASE ~(InitSystem \/ StartLoop \/ NewWorldService)
  <2>1. loop' = loop /\ ready' = ready
    BY <1>5, LoopUnchanged DEF Next, LoopStep, Round, TickTime, TickBlocks, TickWeather, TickPlugin,
         TickUnchanged, StopLoop, ActivateChunk, Cancel, loopVars, vars
  <2>2. ASSUME main' = "start"
        PROVE  main = "start" /\ UNCHANGED <<cursor, arrays, gameSystems>>
    <3>1. main = "start"
      BY <1>5, <2>2, MainStep
    <3>2. running # "yes"
      BY <3>1 DEF Phases
    <3>3. QED
      BY <1>5, <3>1, <3>2 DEF Next, RegistryStep, RegisterCore, MarkCore, RegisterCommands, Reload,
         ClearPlugins, SkipFile, OpenFile, EndLoad, RegisterSystem, RegisterHook, RegisterCommand,
         EndRegister, Loading, Registering, LoopStep, Round, TickTime, TickBlocks, TickWeather,
         TickPlugin, Ticking, StopLoop, ActivateChunk, Cancel, registryVars, loopVars, vars
  <2>3. QED
    BY <2>1, <2>2 DEF CoreReady
<1>6. QED
  BY <1>2, <1>3, <1>4, <1>5

-----------------------------------------------------------------------------
(* Where a system of the server's own is.                                  *)

LEMMA FirstLoadStep ==
  ASSUME TypeOK, Phases, [Next]_vars
  PROVE  /\ main' = "service" => main = "service" \/ FirstLoad
         /\ main' = "core" \/ FirstLoad' => main = "core" \/ FirstLoad
<1>1. load \in Nat
  BY DEF TypeOK
<1>2. QED
  BY <1>1 DEF Phases, FirstLoad, Next, RegistryStep, LoopStep, RegisterCore, RegisterOwn, MarkCore,
       NewWorldService, RegisterCommands, Reload, ClearPlugins, SkipFile, OpenFile, EndLoad,
       RegisterSystem, RegisterHook, RegisterCommand, EndRegister, Loading, NextFile, Returns,
       Registering, InitSystem, StartLoop, Round, TickTime, TickBlocks, TickWeather, TickPlugin,
       TickUnchanged, StopLoop, ActivateChunk, Cancel, registryVars, vars

LEMMA OnePlaceStep ==
  ASSUME TypeOK, Phases, OnePlace, NotYetThere, [Next]_vars
  PROVE  OnePlace'
<1>1. CASE ~(RegisterCore \/ NewWorldService \/ RegisterSystem)
  BY <1>1, ArraysUnchanged DEF OnePlace
<1>2. CASE RegisterCore \/ NewWorldService \/ RegisterSystem
  <2>1. PICK sys \in Systems :
          /\ RegisterGameSystem(sys)
          /\ RegisterCore => file \in 1..Len(Kinds) /\ sys = Own("main", Kinds[file])
          /\ NewWorldService => file \in 1..Len(Kinds) /\ sys = Own("service", Kinds[file])
          /\ RegisterSystem => sys \notin OwnSystems
    BY <1>2, Registers
  <2>2. \A c \in DOMAIN arrays', i \in Nat : i \in 1..Len(arrays'[c]) =>
          \/ arrays'[c][i] = NoSystem
          \/ i = gameSystems.len + 1 /\ arrays'[c][i] = sys
          \/ \E b \in DOMAIN arrays : i \in 1..Len(arrays[b]) /\ arrays'[c][i] = arrays[b][i]
    BY <2>1, AppendSystem
  <2>3. ASSUME sys \in OwnSystems, NEW b \in DOMAIN arrays, NEW i \in 1..Len(arrays[b])
        PROVE  arrays[b][i] # sys
    <3>1. file \in Nat /\ ~(file < file)
      BY <2>1, <2>3, <1>2
    <3>2. \A m \in 1..Len(Kinds) :
            /\ main = "core" /\ arrays[b][i] = Own("main", Kinds[m]) => m < file
            /\ main = "service" /\ arrays[b][i] = Own("service", Kinds[m]) => m < file
      BY DEF NotYetThere
    <3>3. CASE RegisterCore
      BY <2>1, <3>1, <3>2, <3>3 DEF RegisterCore
    <3>4. CASE NewWorldService
      BY <2>1, <3>1, <3>2, <3>4 DEF NewWorldService
    <3>5. QED
      BY <1>2, <2>1, <2>3, <3>3, <3>4
  <2>4. ASSUME NEW a \in DOMAIN arrays', NEW c \in DOMAIN arrays',
               NEW i \in 1..Len(arrays'[a]), NEW j \in 1..Len(arrays'[c]),
               arrays'[a][i] = arrays'[c][j], arrays'[a][i] \in OwnSystems
        PROVE  i = j
    <3>1. i \in Nat /\ j \in Nat /\ arrays'[a][i] # NoSystem
      BY <2>4, SystemKinds
    <3>2. \/ i = gameSystems.len + 1 /\ arrays'[a][i] = sys
          \/ \E b \in DOMAIN arrays : i \in 1..Len(arrays[b]) /\ arrays'[a][i] = arrays[b][i]
      BY <2>2, <3>1
    <3>3. \/ j = gameSystems.len + 1 /\ arrays'[c][j] = sys
          \/ \E b \in DOMAIN arrays : j \in 1..Len(arrays[b]) /\ arrays'[c][j] = arrays[b][j]
      BY <2>2, <2>4, <3>1
    <3>4. QED
      BY <2>3, <2>4, <3>2, <3>3 DEF OnePlace
  <2>5. QED
    BY <2>4 DEF OnePlace
<1>3. QED
  BY <1>1, <1>2

LEMMA NotYetThereStep ==
  ASSUME TypeOK, TypeOK', Phases, NotYetThere, [Next]_vars
  PROVE  NotYetThere'
<1>1. file \in Nat /\ file' \in Nat /\ Len(Kinds) \in Nat
  BY KindsAreThree, PluginRegistryAssumption DEF TypeOK
<1>2. \A m, n \in 1..Len(Kinds) : Kinds[m] = Kinds[n] => m = n
  BY PluginRegistryAssumption
<1>3. (main' = "core" => main = "core" /\ file' \in {file, file + 1})
  BY MainStep
<1>4. /\ main' = "service" => main = "service" \/ FirstLoad
      /\ main' = "core" \/ FirstLoad' => main = "core" \/ FirstLoad
  BY FirstLoadStep
<1>5. CASE ~(RegisterCore \/ NewWorldService \/ RegisterSystem)
  <2>1. arrays' = arrays
    BY <1>5, ArraysUnchanged
  <2>2. main' = "service" => file' = file \/ FirstLoad
    BY <1>5, FirstLoadStep DEF Phases, FirstLoad, Next, RegistryStep, LoopStep, MarkCore,
       RegisterCommands, Reload, ClearPlugins, SkipFile, OpenFile, EndLoad, RegisterHook,
       RegisterCommand, EndRegister, Loading, NextFile, Returns, Registering, InitSystem, StartLoop,
       Round, TickTime, TickBlocks, TickWeather, TickPlugin, TickUnchanged, StopLoop, ActivateChunk,
       Cancel, vars
  <2>3. QED
    BY <1>1, <1>3, <1>4, <2>1, <2>2 DEF NotYetThere
<1>6. CASE RegisterCore \/ NewWorldService \/ RegisterSystem
  <2>1. PICK sys \in Systems :
          /\ RegisterGameSystem(sys)
          /\ RegisterCore => file \in 1..Len(Kinds) /\ sys = Own("main", Kinds[file]) /\ file' = file + 1
          /\ NewWorldService => /\ file \in 1..Len(Kinds) /\ sys = Own("service", Kinds[file])
                                /\ file' = file + 1 /\ main' \in {"service", "start"}
          /\ RegisterSystem => sys \notin OwnSystems /\ file' = file
    BY <1>6, Registers
  <2>2. \A c \in DOMAIN arrays', i \in Nat : i \in 1..Len(arrays'[c]) =>
          \/ arrays'[c][i] = NoSystem
          \/ i = gameSystems.len + 1 /\ arrays'[c][i] = sys
          \/ \E b \in DOMAIN arrays : i \in 1..Len(arrays[b]) /\ arrays'[c][i] = arrays[b][i]
    BY <2>1, AppendSystem
  <2>3. ASSUME NEW c \in DOMAIN arrays', NEW i \in 1..Len(arrays'[c]), NEW m \in 1..Len(Kinds)
        PROVE  /\ main' = "core" /\ arrays'[c][i] = Own("main", Kinds[m]) => m < file'
               /\ main' = "service" /\ arrays'[c][i] = Own("service", Kinds[m]) => m < file'
               /\ main' = "core" \/ FirstLoad' => arrays'[c][i] # Own("service", Kinds[m])
    <3>1. Own("main", Kinds[m]) \in OwnSystems /\ Own("service", Kinds[m]) \in OwnSystems
      BY SystemKinds
    <3>2. CASE arrays'[c][i] = NoSystem
      BY <3>1, <3>2, SystemKinds
    <3>3. CASE arrays'[c][i] = sys
      <4>1. CASE RegisterCore
        <5>1. sys = Own("main", Kinds[m]) => m = file
          BY <1>2, <2>1, <4>1, OwnDistinct
        <5>2. main' = "core" /\ sys # Own("service", Kinds[m])
          BY <2>1, <4>1, OwnDistinct DEF RegisterCore
        <5>3. QED
          BY <1>1, <2>1, <3>3, <4>1, <5>1, <5>2
      <4>2. CASE NewWorldService
        <5>1. sys = Own("service", Kinds[m]) => m = file
          BY <1>2, <2>1, <4>2, OwnDistinct
        <5>2. main' \in {"service", "start"}
          BY <2>1, <4>2
        <5>3. QED
          BY <1>1, <2>1, <3>3, <4>2, <5>1, <5>2 DEF FirstLoad
      <4>3. CASE RegisterSystem
        BY <2>1, <3>1, <3>3, <4>3
      <4>4. QED
        BY <1>6, <4>1, <4>2, <4>3
    <3>4. ASSUME NEW b \in DOMAIN arrays, i \in 1..Len(arrays[b]), arrays'[c][i] = arrays[b][i]
          PROVE  /\ main' = "core" /\ arrays'[c][i] = Own("main", Kinds[m]) => m < file'
                 /\ main' = "service" /\ arrays'[c][i] = Own("service", Kinds[m]) => m < file'
                 /\ main' = "core" \/ FirstLoad' => arrays'[c][i] # Own("service", Kinds[m])
      <4>1. /\ main = "core" /\ arrays[b][i] = Own("main", Kinds[m]) => m < file
            /\ main = "service" /\ arrays[b][i] = Own("service", Kinds[m]) => m < file
            /\ main = "core" \/ FirstLoad => arrays[b][i] # Own("service", Kinds[m])
        BY <3>4 DEF NotYetThere
      <4>2. file' \in {file, file + 1}
        BY <1>6, <2>1
      <4>3. QED
        BY <1>1, <1>3, <1>4, <3>4, <4>1, <4>2
    <3>5. i \in Nat
      OBVIOUS
    <3>6. QED
      BY <2>2, <3>2, <3>3, <3>4, <3>5
  <2>4. QED
    BY <2>3 DEF NotYetThere
<1>7. QED
  BY <1>5, <1>6

(* Nothing ticks before the loop holds systems. *)
LEMMA NoTicksYetStep ==
  ASSUME Phases, Phases', NoTicksYet, [Next]_vars
  PROVE  NoTicksYet'
<1>1. CASE StartLoop
  BY <1>1 DEF StartLoop, Phases, FirstLoad, NoTicksYet
<1>2. CASE TickTime
  BY <1>2, LoopUnchanged DEF TickTime, Ticking, TickUnchanged, Phases, FirstLoad, NoTicksYet
<1>3. CASE ~StartLoop /\ ~TickTime
  <2>1. loop' = loop /\ ticks' = ticks
    BY <1>3, LoopUnchanged DEF Next, LoopStep, InitSystem, Round, TickBlocks, TickWeather,
       TickPlugin, StopLoop, ActivateChunk, Cancel, loopVars, vars
  <2>2. QED
    BY <2>1 DEF NoTicksYet
<1>4. QED
  BY <1>1, <1>2, <1>3

-----------------------------------------------------------------------------
(* What is left of an earlier load.                                        *)

LEMMA PrefixOf ==
  ASSUME NEW S, NEW a \in Seq(S), NEW n \in Nat, n <= Len(a)
  PROVE  /\ DOMAIN SubSeq(a, 1, n) = 1..n
         /\ \A i \in 1..n : SubSeq(a, 1, n)[i] = a[i]
         /\ ToSet(SubSeq(a, 1, n)) = {a[i] : i \in 1..n}
<1>1. SubSeq(a, 1, n) = [i \in 1..n |-> a[i]]
  OBVIOUS
<1>2. QED
  BY <1>1 DEF ToSet

(* The elements of a slice are those of its array, up to its length. *)
LEMMA ElementsOf ==
  ASSUME TypeOK
  PROVE  /\ \A i \in 1..loop.len : LoopSystems[i] = arrays[loop.array][i]
         /\ ToSet(GameSystems) = {arrays[gameSystems.array][i] : i \in 1..gameSystems.len}
<1>1. \A s \in {gameSystems, loop} :
        /\ s.len \in Nat /\ s.len <= Len(arrays[s.array])
        /\ arrays[s.array] \in Seq(Systems \cup {NoSystem})
  BY DEF TypeOK
<1>2. \A s \in {gameSystems, loop} :
        /\ \A i \in 1..s.len : Elements(s)[i] = arrays[s.array][i]
        /\ ToSet(Elements(s)) = {arrays[s.array][i] : i \in 1..s.len}
  BY <1>1, PrefixOf DEF Elements
<1>3. QED
  BY <1>2 DEF LoopSystems, GameSystems

(* Of no load, or of this one. *)
Recent(r) == r.load \in {0, load}

LEMMA NoLeftoversStep ==
  ASSUME TypeOK, TypeOK', Phases, CoreMarked, CoreInPlace, NoLeftovers, [Next]_vars
  PROVE  NoLeftovers'
<1>1. /\ \A r \in hooks \cup commands \cup pluginMetas : Recent(r)
      /\ \A i \in 1..gameSystems.len : Recent(arrays[gameSystems.array][i])
  BY ElementsOf DEF NoLeftovers, Recent
<1>2. ToSet(GameSystems)' = {arrays'[gameSystems'.array][i] : i \in 1..gameSystems'.len}
  <2>1. SliceOK(gameSystems)' /\ arrays' \in Seq(Arrays)
    BY DEF TypeOK, SliceOK, Arrays
  <2>2. /\ gameSystems'.len \in Nat /\ gameSystems'.len <= Len(arrays'[gameSystems'.array])
        /\ arrays'[gameSystems'.array] \in Seq(Systems \cup {NoSystem})
    BY <2>1 DEF SliceOK, Arrays
  <2>3. QED
    BY <2>2, PrefixOf DEF GameSystems, Elements
<1>3. SUFFICES /\ \A r \in hooks' \cup commands' \cup pluginMetas' : Recent(r)'
               /\ \A i \in 1..gameSystems'.len : Recent(arrays[gameSystems.array][i])'
  BY <1>2 DEF NoLeftovers, Recent
<1>4. SliceOK(gameSystems) /\ Len(Kinds) \in Nat
  BY KindsAreThree DEF TypeOK, SliceOK
<1>5. CASE RegisterCore \/ NewWorldService \/ RegisterSystem
  <2>1. PICK sys \in Systems :
          /\ RegisterGameSystem(sys)
          /\ RegisterCore => file \in 1..Len(Kinds) /\ sys = Own("main", Kinds[file])
          /\ NewWorldService => file \in 1..Len(Kinds) /\ sys = Own("service", Kinds[file])
          /\ RegisterSystem => sys.load = load
          /\ UNCHANGED <<hooks, commands, pluginMetas, core, load>>
    BY <1>5, Registers
  <2>2. sys.load \in {0, load}
    BY <1>5, <2>1, SystemKinds DEF Own
  <2>3. /\ gameSystems'.len = gameSystems.len + 1
        /\ arrays'[gameSystems'.array][gameSystems.len + 1] = sys
        /\ \A i \in 1..gameSystems.len :
             arrays'[gameSystems'.array][i] = arrays[gameSystems.array][i]
    BY <2>1, AppendSystem
  <2>4. \A i \in 1..gameSystems'.len : i = gameSystems.len + 1 \/ i \in 1..gameSystems.len
    BY <1>4, <2>3 DEF SliceOK
  <2>5. QED
    BY <1>1, <2>1, <2>2, <2>3, <2>4 DEF Recent
<1>6. CASE ClearPlugins
  <2>1. main # "core" /\ arrays' = arrays
    BY <1>6 DEF ClearPlugins
  <2>2. hooks' = {} /\ commands' = {} /\ pluginMetas' = {}
    BY <1>6, <2>1 DEF ClearPlugins, CoreHooks, CoreMarked
  <2>3. core.systems = Len(Kinds) /\ CorePrefix(gameSystems)
    BY <2>1 DEF CoreMarked, CoreInPlace
  <2>4. gameSystems' = [gameSystems EXCEPT !.len = Len(Kinds)]
    BY <1>6, <2>3 DEF ClearPlugins, CorePrefix
  <2>5. gameSystems'.len = Len(Kinds) /\ gameSystems'.array = gameSystems.array
    BY <1>4, <2>4 DEF SliceOK
  <2>6. \A i \in 1..Len(Kinds) : arrays'[gameSystems'.array][i] = Own("main", Kinds[i])
    BY <2>1, <2>3, <2>5 DEF CorePrefix
  <2>7. \A i : Own("main", i).load = 0
    BY DEF Own
  <2>8. QED
    BY <2>2, <2>5, <2>6, <2>7 DEF Recent
<1>7. CASE MarkCore
  <2>1. /\ arrays' = arrays /\ gameSystems' = gameSystems
        /\ hooks' = {} /\ commands' = {} /\ pluginMetas' = {}
    BY <1>7 DEF MarkCore, CoreMarked
  <2>2. \A i \in 1..gameSystems.len : arrays[gameSystems.array][i] = Own("main", Kinds[i])
    BY <1>7 DEF MarkCore, CoreInPlace
  <2>3. \A i : Own("main", i).load = 0
    BY DEF Own
  <2>4. QED
    BY <2>1, <2>2, <2>3 DEF Recent
<1>8. CASE ~(RegisterCore \/ NewWorldService \/ RegisterSystem \/ ClearPlugins \/ MarkCore)
  <2>1. arrays' = arrays /\ gameSystems' = gameSystems
    BY <1>8, ArraysUnchanged
  <2>2. load' = load
    BY <1>8 DEF Next, RegistryStep, LoopStep, RegisterCommands, Reload, SkipFile, OpenFile, EndLoad,
       RegisterHook, RegisterCommand, EndRegister, InitSystem, StartLoop, Round, TickTime,
       TickBlocks, TickWeather, TickPlugin, TickUnchanged, StopLoop, ActivateChunk, Cancel, vars
  <2>3. ASSUME NEW r \in hooks' \cup commands' \cup pluginMetas'
        PROVE  \/ r \in hooks \cup commands \cup pluginMetas
               \/ r.load \in {0, load}
    <3>1. \A what : Plugin(what).load = load
      BY DEF Plugin
    <3>2. \A by, what : Own(by, what).load = 0
      BY DEF Own
    <3>3. QED
      BY <1>8, <2>3, <3>1, <3>2 DEF Next, RegistryStep, LoopStep, RegisterCommands, Reload, SkipFile,
         OpenFile, EndLoad, RegisterHook, RegisterCommand, EndRegister, InitSystem, StartLoop, Round,
         TickTime, TickBlocks, TickWeather, TickPlugin, TickUnchanged, StopLoop, ActivateChunk,
         Cancel, registryVars, vars
  <2>4. QED
    BY <1>1, <2>1, <2>2, <2>3 DEF Recent
<1>9. QED
  BY <1>5, <1>6, <1>7, <1>8

-----------------------------------------------------------------------------
(* What the loop holds, and the ticks.                                     *)

LEMMA CoreTicks == TypeOK /\ Phases /\ CoreInPlace /\ CoreReady => CoreKeepsTicking
<1> SUFFICES ASSUME TypeOK, Phases, CoreInPlace, CoreReady,
                    running = "yes", NEW kind \in ToSet(Kinds)
             PROVE  \E i \in 1..loop.len : LoopSystems[i] \in OwnSystem(kind) \cap ready
  BY DEF CoreKeepsTicking
<1>1. loop.len # 0
  BY DEF Phases, FirstLoad
<1>2. CorePrefix(loop) /\ \A i \in 1..Len(Kinds) : Own("main", Kinds[i]) \in ready
  BY <1>1 DEF CoreInPlace, CoreReady
<1>3. PICK i \in 1..Len(Kinds) : Kinds[i] = kind
  BY KindsAreThree, GameLoopAssumption
<1>4. i \in 1..loop.len
  BY <1>2, KindsAreThree DEF CorePrefix, TypeOK
<1>5. LoopSystems[i] = Own("main", kind)
  BY <1>2, <1>3, <1>4, ElementsOf DEF CorePrefix
<1>6. QED
  BY <1>2, <1>3, <1>4, <1>5, SystemKinds

(* The counts at i and at j agree while the system at n ticks. *)
Agree(ti, tj, i, j, n) ==
  (ti + IF n > j THEN 1 ELSE 0) % TicksPerDay = (tj + IF n > i THEN 1 ELSE 0) % TicksPerDay

LEMMA AgreeNext ==
  ASSUME NEW ti \in 0..TicksPerDay - 1, NEW tj \in 0..TicksPerDay - 1,
         NEW len \in Nat, NEW n \in 1..len, NEW i \in 1..len, NEW j \in 1..len
  PROVE  LET next == IF n < len THEN n + 1 ELSE 0 IN
         /\ Agree(ti, tj, i, j, 1) <=> Agree(ti, tj, i, j, 0)
         /\ i # n /\ j # n /\ Agree(ti, tj, i, j, n) => Agree(ti, tj, i, j, next)
         /\ i = n /\ j # n /\ Agree(ti, tj, i, j, n) => Agree((ti + 1) % TicksPerDay, tj, i, j, next)
         /\ i # n /\ j = n /\ Agree(ti, tj, i, j, n) => Agree(ti, (tj + 1) % TicksPerDay, i, j, next)
<1>1. TicksPerDay \in Nat \ {0}
  BY GameLoopAssumption
<1>2. \A a \in 0..TicksPerDay - 1 :
        /\ a % TicksPerDay = a
        /\ (a + 1) % TicksPerDay = IF a = TicksPerDay - 1 THEN 0 ELSE a + 1
        /\ (a + 1) % TicksPerDay \in 0..TicksPerDay - 1
        /\ a + 0 = a
  <2> DEFINE day == TicksPerDay
  <2>1. day \in Nat \ {0}
    BY <1>1
  <2> HIDE DEF day
  <2>2. ASSUME NEW a \in 0..day - 1
        PROVE  /\ a % day = a /\ (a + 1) % day = IF a = day - 1 THEN 0 ELSE a + 1
               /\ (a + 1) % day \in 0..day - 1 /\ a + 0 = a
    BY <2>1, ModDay
  <2>3. QED
    BY <2>2 DEF day
<1> DEFINE si == (ti + 1) % TicksPerDay
           sj == (tj + 1) % TicksPerDay
<1>3. si \in 0..TicksPerDay - 1 /\ sj \in 0..TicksPerDay - 1
  BY <1>2
<1>4. Agree(ti, tj, i, j, 1) <=> Agree(ti, tj, i, j, 0)
  BY DEF Agree
<1>5. ASSUME i # n, j # n, Agree(ti, tj, i, j, n)
      PROVE  Agree(ti, tj, i, j, IF n < len THEN n + 1 ELSE 0)
  <2>1. (n > i /\ n > j) \/ (~(n > i) /\ ~(n > j)) => ti = tj
    BY <1>2, <1>5 DEF Agree
  <2>4. CASE n < len
    <3>1. (n + 1 > i <=> n > i) /\ (n + 1 > j <=> n > j)
      BY <1>5
    <3>2. QED
      BY <1>5, <2>4, <3>1 DEF Agree
  <2>5. CASE n = len
    <3>1. n > i /\ n > j /\ ~(0 > i) /\ ~(0 > j)
      BY <1>5, <2>5
    <3>2. QED
      BY <2>1, <2>5, <3>1 DEF Agree
  <2>6. QED
    BY <2>4, <2>5
<1>6. ASSUME i = n, j # n, Agree(ti, tj, i, j, n)
      PROVE  Agree(si, tj, i, j, IF n < len THEN n + 1 ELSE 0)
  <2>1. tj = IF n > j THEN si ELSE ti
    BY <1>2, <1>6 DEF Agree
  <2>2. CASE n < len
    BY <1>2, <1>3, <1>6, <2>1, <2>2 DEF Agree
  <2>3. CASE n = len
    BY <1>2, <1>3, <1>6, <2>1, <2>3 DEF Agree
  <2>4. QED
    BY <2>2, <2>3
<1>7. ASSUME i # n, j = n, Agree(ti, tj, i, j, n)
       PROVE  Agree(ti, sj, i, j, IF n < len THEN n + 1 ELSE 0)
  <2>1. ti = IF n > i THEN sj ELSE tj
    BY <1>2, <1>7 DEF Agree
  <2>2. CASE n < len
    BY <1>2, <1>3, <1>7, <2>1, <2>2 DEF Agree
  <2>3. CASE n = len
    BY <1>2, <1>3, <1>7, <2>1, <2>3 DEF Agree
  <2>4. QED
    BY <2>2, <2>3
<1>8. QED
  BY <1>4, <1>5, <1>6, <1>7

(* What the loop holds at an index: the element of its array now. *)
Held(k) == arrays[loop.array][k]

LEMMA TimesAgreeIs ==
  ASSUME TypeOK
  PROVE  TimesAgree <=>
           \A i, j \in 1..loop.len :
             /\ running # "no" /\ Held(i) \in OwnSystem("time") /\ Held(j) \in OwnSystem("time")
             => Agree(ticks[Held(i)], ticks[Held(j)], i, j, cursor)
BY ElementsOf DEF TimesAgree, Agree, Held

LEMMA TimesAgreeIsPrime ==
  ASSUME TypeOK'
  PROVE  TimesAgree' <=>
           \A i, j \in 1..loop'.len :
             /\ running' # "no" /\ Held(i)' \in OwnSystem("time") /\ Held(j)' \in OwnSystem("time")
             => Agree(ticks'[Held(i)'], ticks'[Held(j)'], i, j, cursor')
<1>1. /\ loop'.len \in Nat /\ loop'.len <= Len(arrays'[loop'.array])
      /\ arrays'[loop'.array] \in Seq(Systems \cup {NoSystem})
  <2>1. SliceOK(loop)' /\ arrays' \in Seq(Arrays)
    BY DEF TypeOK, SliceOK, Arrays
  <2>2. QED
    BY <2>1 DEF SliceOK, Arrays
<1>2. \A i \in 1..loop'.len : LoopSystems'[i] = Held(i)'
  BY <1>1, PrefixOf DEF LoopSystems, Elements, Held
<1>3. QED
  BY <1>2 DEF TimesAgree, Agree

(* A time system that the loop holds was there before: a reload writes only *)
(* plugins' systems into the array.                                         *)
LEMMA HeldTimes ==
  ASSUME TypeOK, Phases, [Next]_vars, ~StartLoop, NEW k \in 1..loop.len,
         Held(k)' \in OwnSystem("time")
  PROVE  Held(k)' = Held(k)
<1>1. loop' = loop
  BY LoopUnchanged
<1>2. CASE ~(RegisterCore \/ NewWorldService \/ RegisterSystem)
  BY <1>1, <1>2, ArraysUnchanged DEF Held
<1>3. CASE RegisterCore \/ NewWorldService \/ RegisterSystem
  <2>1. loop.len # 0 /\ k \in 1..Len(arrays[loop.array]) /\ loop.array \in DOMAIN arrays
    BY DEF TypeOK
  <2>2. RegisterSystem
    BY <1>3, <2>1 DEF RegisterCore, NewWorldService, Phases
  <2>3. PICK sys \in Systems : RegisterGameSystem(sys) /\ sys \notin OwnSystems
    BY <2>2, Registers
  <2>4. \A c \in DOMAIN arrays : \A i \in 1..Len(arrays[c]) :
          arrays'[c][i] = arrays[c][i] \/ arrays'[c][i] = sys
    BY <2>3, AppendSystem
  <2>5. OwnSystem("time") \subseteq OwnSystems
    BY KindsAreThree, GameLoopAssumption DEF OwnSystem, OwnSystems
  <2>6. QED
    BY <1>1, <2>1, <2>3, <2>4, <2>5 DEF Held
<1>4. QED
  BY <1>2, <1>3

(* Both time systems tick once a round, each at its place. *)
LEMMA TimesAgreeStep ==
  ASSUME TypeOK, TypeOK', Phases, OnePlace, NoTicksYet, TimesAgree, [Next]_vars
  PROVE  TimesAgree'
<1>1. SUFFICES ASSUME NEW i \in 1..loop'.len, NEW j \in 1..loop'.len, running' # "no",
                      Held(i)' \in OwnSystem("time"), Held(j)' \in OwnSystem("time")
               PROVE  Agree(ticks'[Held(i)'], ticks'[Held(j)'], i, j, cursor')
  BY TimesAgreeIsPrime
<1>2. CASE StartLoop
  <2>1. ticks'[Held(i)'] = 0 /\ ticks'[Held(j)'] = 0 /\ cursor' = 0
    BY <1>1, <1>2 DEF StartLoop, Phases, NoTicksYet
  <2>2. QED
    BY <1>1, <2>1 DEF Agree
<1>3. CASE ~StartLoop
  <2> DEFINE x == Held(i)
             y == Held(j)
             day == 0..TicksPerDay - 1
  <2>1. loop' = loop /\ i \in 1..loop.len /\ j \in 1..loop.len /\ loop.len # 0 /\ loop.len \in Nat
    BY <1>3, LoopUnchanged DEF TypeOK
  <2>2. Held(i)' = x /\ Held(j)' = y
    BY <1>1, <1>3, <2>1, HeldTimes
  <2>3. running # "no" /\ ~InitSystem
    BY <2>1 DEF Phases, InitSystem
  <2>4. x \in OwnSystem("time") /\ y \in OwnSystem("time")
    BY <1>1, <2>2
  <2>5. Agree(ticks[x], ticks[y], i, j, cursor)
    BY <2>1, <2>3, <2>4, TimesAgreeIs
  <2>6. /\ ticks \in [OwnSystem("time") -> day]
        /\ ticks[x] \in day /\ ticks[y] \in day
        /\ cursor \in 0..loop.len
    BY <2>1, <2>4 DEF TypeOK
  <2>7. \A k \in 1..loop.len : (Held(k) = x => k = i) /\ (Held(k) = y => k = j)
    <3>1. loop.array \in DOMAIN arrays /\ \A k \in 1..loop.len : k \in 1..Len(arrays[loop.array])
      BY DEF TypeOK
    <3>2. OwnSystem("time") \subseteq OwnSystems
      BY KindsAreThree, GameLoopAssumption DEF OwnSystem, OwnSystems
    <3>3. QED
      BY <2>1, <2>4, <3>1, <3>2 DEF OnePlace, Held
  <2> HIDE DEF x, y
  <2>8. CASE ticks' = ticks /\ cursor' = cursor
    BY <2>2, <2>5, <2>8
  <2>9. CASE Round
    <3>1. 1 \in 1..loop.len
      BY <2>1
    <3>2. ticks' = ticks /\ cursor = 0 /\ cursor' = 1
      BY <2>9 DEF Round
    <3>3. Agree(ticks[x], ticks[y], i, j, 1) <=> Agree(ticks[x], ticks[y], i, j, 0)
      BY <2>1, <2>6, <3>1, AgreeNext
    <3>4. QED
      BY <2>2, <2>5, <3>2, <3>3
  <2>10. ASSUME cursor # 0, AfterTick
         PROVE  /\ cursor \in 1..loop.len
                /\ cursor' = IF cursor < loop.len THEN cursor + 1 ELSE 0
    BY <2>6, <2>10 DEF AfterTick
  <2>11. CASE Ticking /\ AfterTick /\ ticks' = ticks /\ Current \notin OwnSystem("time")
    <3>1. i # cursor /\ j # cursor
      BY <2>4, <2>11 DEF Current, Held, x, y
    <3>2. cursor # 0
      BY <2>11 DEF Ticking
    <3>3. Agree(ticks[x], ticks[y], i, j, cursor')
      BY <2>1, <2>5, <2>6, <2>10, <2>11, <3>1, <3>2, AgreeNext
    <3>4. QED
      BY <2>2, <2>11, <3>3
  <2>12. CASE TickTime
    <3>1. cursor \in 1..loop.len /\ cursor' = IF cursor < loop.len THEN cursor + 1 ELSE 0
      BY <2>10, <2>12 DEF TickTime, Ticking
    <3>2. Current = Held(cursor) /\ Current \in OwnSystem("time")
      BY <2>12 DEF TickTime, Current, Held
    <3>3. ticks' = [ticks EXCEPT ![Current] = (ticks[Current] + 1) % TicksPerDay]
      BY <2>12 DEF TickTime
    <3>4. /\ (i = cursor <=> x = Current) /\ (j = cursor <=> y = Current)
      BY <2>7, <3>1, <3>2 DEF x, y
    <3>5. /\ ticks'[x] = IF i = cursor THEN (ticks[x] + 1) % TicksPerDay ELSE ticks[x]
          /\ ticks'[y] = IF j = cursor THEN (ticks[y] + 1) % TicksPerDay ELSE ticks[y]
      BY <2>4, <2>6, <3>3, <3>4
    <3>6. CASE i = j
      BY <2>2, <3>6 DEF Agree, x, y
    <3>7. CASE i # j
      <4>1. /\ i # cursor /\ j # cursor => Agree(ticks[x], ticks[y], i, j, cursor')
            /\ i = cursor /\ j # cursor => Agree((ticks[x] + 1) % TicksPerDay, ticks[y], i, j, cursor')
            /\ i # cursor /\ j = cursor => Agree(ticks[x], (ticks[y] + 1) % TicksPerDay, i, j, cursor')
        BY <2>1, <2>5, <2>6, <3>1, AgreeNext
      <4>2. QED
        BY <2>2, <3>5, <3>7, <4>1
    <3>8. QED
      BY <3>6, <3>7
  <2>13. \/ ticks' = ticks /\ cursor' = cursor
         \/ Round \/ TickTime
         \/ Ticking /\ AfterTick /\ ticks' = ticks /\ Current \notin OwnSystem("time")
    <3>1. \A s : /\ s \in OwnSystem("time") => s \notin OwnSystem("block") /\ s \notin OwnSystem("weather")
                 /\ s \in OwnSystem("time") => ~(s.load > 0)
      BY DEF OwnSystem, Own
    <3>2. CASE TickBlocks \/ TickWeather \/ TickPlugin
      BY <3>1, <3>2 DEF TickBlocks, TickWeather, TickPlugin, AfterPanic
    <3>3. CASE ~(TickBlocks \/ TickWeather \/ TickPlugin)
      BY <1>3, <2>3, <3>3 DEF Next, LoopStep, StopLoop, ActivateChunk, Cancel, loopVars, vars
    <3>4. QED
      BY <3>2, <3>3
  <2>14. QED
    BY <2>8, <2>9, <2>11, <2>12, <2>13
<1>4. QED
  BY <1>2, <1>3

-----------------------------------------------------------------------------
(* The theorems.                                                           *)

LEMMA InitIInv == Init => IInv
<1> SUFFICES ASSUME Init PROVE IInv
  OBVIOUS
<1>1. /\ arrays = <<<<NoSystem>>>> /\ gameSystems = [array |-> 1, len |-> 0] /\ loop = gameSystems
      /\ hooks = {} /\ commands = {} /\ pluginMetas = {}
      /\ load = 0 /\ main = "core" /\ file = 1 /\ cursor = 0 /\ running = "no"
      /\ ticks = [s \in OwnSystem("time") |-> 0] /\ updateTicker = [s \in OwnSystem("block") |-> 0]
  BY DEF Init, RegistryInit
<1>2. Len(Kinds) \in Nat /\ Len(Kinds) > 0
  BY KindsAreThree
<1>3. /\ DOMAIN arrays = {1} /\ arrays[1] = <<NoSystem>> /\ Len(arrays[1]) = 1
      /\ arrays[1][1] = NoSystem
  BY <1>1
<1>4. TypeOK
  <2>1. <<NoSystem>> \in Arrays
    BY DEF Arrays
  <2>2. arrays \in Seq(Arrays)
    BY <1>1, <2>1
  <2>3. QED
    BY <1>1, <1>2, <1>3, <2>2, GameLoopAssumption DEF TypeOK, Arrays
<1>5. Phases /\ CoreMarked /\ CoreInPlace /\ CoreReady
  BY <1>1, <1>2 DEF Phases, FirstLoad, CoreMarked, CoreInPlace, CoreReady
<1>6. OnePlace /\ NotYetThere
  BY <1>3, SystemKinds DEF OnePlace, NotYetThere
<1>7. NoTicksYet /\ TimesAgree /\ CoreKeepsTicking
  BY <1>1 DEF NoTicksYet, TimesAgree, CoreKeepsTicking
<1>8. NoLeftovers
  BY <1>1, <1>4, ElementsOf DEF NoLeftovers
<1>9. QED
  BY <1>4, <1>5, <1>6, <1>7, <1>8 DEF IInv

LEMMA NextIInv == IInv /\ [Next]_vars => IInv'
<1> SUFFICES ASSUME IInv, [Next]_vars PROVE IInv'
  OBVIOUS
<1>1. TypeOK' /\ Phases' /\ CoreMarked' /\ CoreInPlace' /\ CoreReady'
  BY TypeStep, PhasesStep, CoreMarkedStep, CoreInPlaceStep, CoreReadyStep DEF IInv
<1>2. OnePlace' /\ NotYetThere' /\ NoTicksYet' /\ NoLeftovers' /\ TimesAgree'
  BY <1>1, OnePlaceStep, NotYetThereStep, NoTicksYetStep, NoLeftoversStep, TimesAgreeStep DEF IInv
<1>3. QED
  <2>1. CoreKeepsTicking'
    BY <1>1, CoreTicks, PTL
  <2>2. QED
    BY <1>1, <1>2, <2>1 DEF IInv

(* The inductive invariant holds of every reachable state. *)
THEOREM Invariance == Spec => []IInv
BY InitIInv, NextIInv, PTL DEF Spec

(* The registry's and the loop's variables keep their types: no slice reaches *)
(* beyond its array, or over what has not been written.                       *)
THEOREM TypeCorrect == Spec => []TypeOK
<1>1. IInv => TypeOK
  BY DEF IInv
<1>2. QED
  BY <1>1, Invariance, PTL

(* After a reload nothing of the plugins of an earlier load is registered *)
(* (ClearPlugins), whatever the load that went before it was cut short by. *)
THEOREM NothingLeftOver == Spec => []NoLeftovers
<1>1. IInv => NoLeftovers
  BY DEF IInv
<1>2. QED
  BY <1>1, Invariance, PTL

(* However often a reload rewrites the array under the running loop, it holds *)
(* an initialised system of each of the server's kinds.                       *)
THEOREM CoreTicksOn == Spec => []CoreKeepsTicking
<1>1. IInv => CoreKeepsTicking
  BY DEF IInv
<1>2. QED
  BY <1>1, Invariance, PTL

(* The two time systems of the loop agree, within the round going on. *)
THEOREM OneTime == Spec => []TimesAgree
<1>1. IInv => TimesAgree
  BY DEF IInv
<1>2. QED
  BY <1>1, Invariance, PTL

(* A system of the server's own is found at one index, in the array that the *)
(* registry holds as in those that it has left, and the loop still reads.    *)
THEOREM SystemsStayPut == Spec => []OnePlace
<1>1. IInv => OnePlace
  BY DEF IInv
<1>2. QED
  BY <1>1, Invariance, PTL
=============================================================================
