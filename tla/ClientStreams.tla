---------------------------- MODULE ClientStreams ----------------------------
(***************************************************************************)
(* The client connections of internal/service: GameStream, the broadcasts, *)
(* DisconnectAllClients and Stop.  clientStreams maps a player to the      *)
(* connection that broadcasts use, and s.mu guards it.  A connection is    *)
(* named by its stream; what happens inside of it, between its queues and  *)
(* its sender goroutine, is the subject of ClientConn.                     *)
(*                                                                         *)
(* A broadcast holds s.mu for reading and its sends never block, so it is  *)
(* one step.  DisconnectAllClients holds s.mu for writing over sends that  *)
(* block: one step per connection, and nothing that needs s.mu in between. *)
(*                                                                         *)
(* A position is the number of moves that led to it.  A movement carries   *)
(* the id of the player to move, which nobody compares with the stream's.  *)
(* The server has a storage.                                               *)
(***************************************************************************)
EXTENDS Integers, FiniteSets

CONSTANTS
  Players,    \* ids JoinGame hands out
  Streams,    \* GameStream calls
  NoStream,   \* the player has no entry in clientStreams
  NoPlayer,   \* the stream has not been opened
  MaxMoves    \* bound of the model: movements per player

ASSUME ConstantsAssumption ==
  /\ NoStream \notin Streams
  /\ NoPlayer \notin Players
  /\ MaxMoves \in Nat

VARIABLES
  players,        \* playerManager: the players that joined
  pos,            \* their positions
  file,           \* position in the saved player state, -1: never saved
  recent,         \* players broadcast less than playerBroadcastMinInterval ago
  clientStreams,
  closed,         \* streams whose two queues are closed
  owner,          \* playerID of the stream
  handler,        \* progress of GameStream
  say,            \* what its broadcastPlayerUpdate says,
  about,          \* and of which player
  saved,          \* the position SavePlayerState has been called with
  stop,           \* progress of Stop and of the GracefulStop after it
  draining,       \* connections DisconnectAllClients has still to visit
  stopSaves,      \* players Stop has still to save
  stopSaving,     \* the player SavePlayerState is writing for Stop,
  stopPos,        \* and the position it has been called with
  panicked,       \* send on, or close of, a closed channel
  overlapped,     \* history: players who had two streams open at a time
  cutOff,         \* history: streams that DisconnectAllClients took from clientStreams
  strayed,        \* history: players moved by the stream of another since their own
                  \* handler last read the position it saves
  changed         \* history: players who joined or moved since Stop listed them

streamVars == <<owner, handler, say, about, saved>>
stopVars   == <<stop, draining, stopSaves, stopSaving, stopPos>>
vars == <<players, pos, file, recent, clientStreams, closed, streamVars, stopVars,
          panicked, overlapped, cutOff, strayed, changed>>

Connected == {p \in Players : clientStreams[p] # NoStream}
Conns(P) == {clientStreams[p] : p \in P}

(* Between two steps only DisconnectAllClients holds s.mu for writing. *)
MuFree == stop # "draining"

(* Stop has listed the players it saves. *)
Listed == stop \in {"saving", "stopped", "exited"}

Open(s) == handler[s] \notin {"none", "done"}

Goto(s, label) == handler' = [handler EXCEPT ![s] = label]

(* clientConn.send on the connections of P: sending on a closed channel panics. *)
Send(P) == panicked' = (panicked \/ Conns(P) \cap closed # {})

(***************************************************************************)
(* Definitions whose name starts with Faulty are variants with a plausible *)
(* bug; no other definition uses them.  Each shows that some property      *)
(* would catch the bug.                                                    *)
(***************************************************************************)

(***************************************************************************)
(* JoinGame.  The id is a new one, so no saved state is found for it.      *)
(***************************************************************************)
JoinGame(p) ==
  /\ p \notin players
  /\ players' = players \cup {p}
  /\ changed' = changed \cup (IF Listed THEN {p} ELSE {})
  /\ UNCHANGED <<pos, file, recent, clientStreams, closed, streamVars, stopVars, panicked,
                 overlapped, cutOff, strayed>>

(***************************************************************************)
(* GameStream.  The first message names the player, and the connection     *)
(* replaces the one the player may have.                                   *)
(***************************************************************************)
GameStream(s, p) ==
  /\ handler[s] = "none"
  /\ p \in players
  /\ stop \notin {"stopped", "exited"}     \* GracefulStop accepts no more calls
  /\ MuFree
  /\ owner' = [owner EXCEPT ![s] = p]
  /\ clientStreams' = [clientStreams EXCEPT ![p] = s]
  /\ Goto(s, "throttle")
  /\ say' = [say EXCEPT ![s] = "joined"]
  /\ about' = [about EXCEPT ![s] = p]
  /\ overlapped' = IF \E t \in Streams : Open(t) /\ owner[t] = p
                   THEN overlapped \cup {p} ELSE overlapped
  /\ UNCHANGED <<players, pos, file, recent, closed, saved, stopVars, panicked, cutOff,
                 strayed, changed>>

(* What the handler does after its broadcast. *)
AfterBroadcast(s) ==
  /\ Goto(s, IF say[s] = "left" THEN "save" ELSE "recv")
  /\ say' = [say EXCEPT ![s] = "nothing"]
  /\ about' = [about EXCEPT ![s] = NoPlayer]

(* broadcastPlayerUpdate first looks at lastPosBroadcast, under throttleMu. *)
Throttled(s) ==
  /\ handler[s] = "throttle"
  /\ about[s] \in recent
  /\ AfterBroadcast(s)
  /\ UNCHANGED <<players, pos, file, recent, clientStreams, closed, owner, saved, stopVars,
                 panicked, overlapped, cutOff, strayed, changed>>

NotThrottled(s) ==
  /\ handler[s] = "throttle"
  /\ about[s] \notin recent
  /\ recent' = recent \cup {about[s]}
  /\ Goto(s, "broadcast")
  /\ UNCHANGED <<players, pos, file, clientStreams, closed, owner, say, about, saved, stopVars,
                 panicked, overlapped, cutOff, strayed, changed>>

(* A position goes to the players in sight of it, P; a nil one to all. *)
BroadcastPlayerUpdate(s, P) ==
  /\ handler[s] = "broadcast"
  /\ MuFree
  /\ IF say[s] = "left" THEN P = Connected ELSE P \subseteq Connected
  /\ Send(P)
  /\ AfterBroadcast(s)
  /\ UNCHANGED <<players, pos, file, recent, clientStreams, closed, owner, saved, stopVars,
                 overlapped, cutOff, strayed, changed>>

(* playerBroadcastMinInterval has passed. *)
IntervalPasses(p) ==
  /\ p \in recent
  /\ recent' = recent \ {p}
  /\ UNCHANGED <<players, pos, file, clientStreams, closed, streamVars, stopVars, panicked,
                 overlapped, cutOff, strayed, changed>>

(* handleClientMessage: a movement of the player p that the message names.  *)
(* The other messages change nothing, and neither does an unknown player.   *)
HandlePlayerMovement(s, p) ==
  /\ handler[s] = "recv"
  /\ p \in players
  /\ pos[p] < MaxMoves
  /\ pos' = [pos EXCEPT ![p] = @ + 1]
  /\ Goto(s, "throttle")
  /\ say' = [say EXCEPT ![s] = "moved"]
  /\ about' = [about EXCEPT ![s] = p]
  /\ strayed' = strayed \cup ({p} \ {owner[s]})
  /\ changed' = changed \cup (IF Listed THEN {p} ELSE {})
  /\ UNCHANGED <<players, file, recent, clientStreams, closed, owner, saved, stopVars,
                 panicked, overlapped, cutOff>>

(* Recv returns an error: the client has hung up or the connection is broken. *)
RecvFails(s) ==
  /\ handler[s] = "recv"
  /\ Goto(s, "lost")
  /\ UNCHANGED <<players, pos, file, recent, clientStreams, closed, owner, say, about, saved,
                 stopVars, panicked, overlapped, cutOff, strayed, changed>>

(* The handler closes the connection the map holds for its player, which is *)
(* another stream's if the player has opened one since.                     *)
CloseConn(s) ==
  /\ handler[s] = "lost"
  /\ MuFree
  /\ LET c == clientStreams[owner[s]] IN
       IF c = NoStream
       THEN UNCHANGED <<closed, panicked, clientStreams>>
       ELSE /\ closed' = closed \cup {c}
            /\ panicked' = (panicked \/ c \in closed)
            /\ clientStreams' = [clientStreams EXCEPT ![owner[s]] = NoStream]
  /\ Goto(s, "throttle")
  /\ say' = [say EXCEPT ![s] = "left"]
  /\ about' = [about EXCEPT ![s] = owner[s]]
  /\ UNCHANGED <<players, pos, file, recent, owner, saved, stopVars, overlapped, cutOff, strayed, changed>>

(* SavePlayerState is called with the position of now and writes the file later. *)
SavePlayer(s) ==
  /\ handler[s] = "save"
  /\ saved' = [saved EXCEPT ![s] = pos[owner[s]]]
  /\ strayed' = strayed \ {owner[s]}
  /\ Goto(s, "write")
  /\ UNCHANGED <<players, pos, file, recent, clientStreams, closed, owner, say, about,
                 stopVars, panicked, overlapped, cutOff, changed>>

(* Saves the state of the player as it was read at the start of the stream. *)
FaultyStreamEnds(s) ==
  /\ handler[s] = "write"
  /\ file' = [file EXCEPT ![owner[s]] = 0]
  /\ saved' = [saved EXCEPT ![s] = 0]
  /\ Goto(s, "done")
  /\ UNCHANGED <<players, pos, recent, clientStreams, closed, owner, say, about,
                 stopVars, panicked, overlapped, cutOff, strayed, changed>>

(* The file is written and the handler returns. *)
StreamEnds(s) ==
  /\ handler[s] = "write"
  /\ file' = [file EXCEPT ![owner[s]] = saved[s]]
  /\ saved' = [saved EXCEPT ![s] = 0]
  /\ Goto(s, "done")
  /\ UNCHANGED <<players, pos, recent, clientStreams, closed, owner, say, about,
                 stopVars, panicked, overlapped, cutOff, strayed, changed>>

(***************************************************************************)
(* broadcastWorldEvent, called by the game loop and by processBlockEvents: *)
(* global events go to all players, the other ones to those in sight.      *)
(***************************************************************************)
BroadcastWorldEvent(P) ==
  /\ MuFree
  /\ P \subseteq Connected
  /\ Send(P)
  /\ UNCHANGED <<players, pos, file, recent, clientStreams, closed, streamVars, stopVars,
                 overlapped, cutOff, strayed, changed>>

(***************************************************************************)
(* Stop: DisconnectAllClients, then SavePlayerState for every player, then *)
(* the chunks (module DeltaStorage).  GracefulStop waits for the streams.  *)
(***************************************************************************)
(* Empties the map before the clients are disconnected. *)
FaultyDisconnectAllClients ==
  /\ stop = "running"
  /\ stop' = "draining"
  /\ draining' = Conns(Connected)
  /\ clientStreams' = [p \in Players |-> NoStream]
  /\ UNCHANGED <<players, pos, file, recent, closed, streamVars, stopSaves, stopSaving,
                 stopPos, panicked, overlapped, cutOff, strayed, changed>>

DisconnectAllClients ==
  /\ stop = "running"
  /\ stop' = "draining"
  /\ draining' = Conns(Connected)
  /\ UNCHANGED <<players, pos, file, recent, clientStreams, closed, streamVars, stopSaves,
                 stopSaving, stopPos, panicked, overlapped, cutOff, strayed, changed>>

(* The shutdown event is sent, which may wait for room, the queues are closed. *)
DisconnectClient(s) ==
  /\ stop = "draining"
  /\ s \in draining
  /\ panicked' = (panicked \/ s \in closed)
  /\ closed' = closed \cup {s}
  /\ draining' = draining \ {s}
  /\ UNCHANGED <<players, pos, file, recent, clientStreams, streamVars, stop, stopSaves,
                 stopSaving, stopPos, overlapped, cutOff, strayed, changed>>

(* Releases s.mu over the old map. *)
FaultyClientsDisconnected ==
  /\ stop = "draining"
  /\ draining = {}
  /\ stop' = "saving"
  /\ stopSaves' = players
  /\ cutOff' = {s \in Streams : Open(s)}
  /\ UNCHANGED <<players, pos, file, recent, clientStreams, closed, streamVars, draining,
                 stopSaving, stopPos, panicked, overlapped, strayed, changed>>

(* clientStreams is a new map; GetAllPlayers lists who is to be saved. *)
ClientsDisconnected ==
  /\ stop = "draining"
  /\ draining = {}
  /\ clientStreams' = [p \in Players |-> NoStream]
  /\ stop' = "saving"
  /\ stopSaves' = players
  /\ cutOff' = {s \in Streams : Open(s)}
  /\ UNCHANGED <<players, pos, file, recent, closed, streamVars, draining, stopSaving,
                 stopPos, panicked, overlapped, strayed, changed>>

StopSavesPlayer(p) ==
  /\ stop = "saving"
  /\ stopSaving = NoPlayer
  /\ p \in stopSaves
  /\ stopSaving' = p
  /\ stopPos' = pos[p]
  /\ stopSaves' = stopSaves \ {p}
  /\ UNCHANGED <<players, pos, file, recent, clientStreams, closed, streamVars, stop,
                 draining, panicked, overlapped, cutOff, strayed, changed>>

StopWritesPlayer ==
  /\ stopSaving # NoPlayer
  /\ file' = [file EXCEPT ![stopSaving] = stopPos]
  /\ stopSaving' = NoPlayer
  /\ stopPos' = 0
  /\ UNCHANGED <<players, pos, recent, clientStreams, closed, streamVars, stop, draining,
                 stopSaves, panicked, overlapped, cutOff, strayed, changed>>

StopReturns ==
  /\ stop = "saving"
  /\ stopSaves = {} /\ stopSaving = NoPlayer
  /\ stop' = "stopped"
  /\ UNCHANGED <<players, pos, file, recent, clientStreams, closed, streamVars, draining,
                 stopSaves, stopSaving, stopPos, panicked, overlapped, cutOff, strayed, changed>>

GracefulStopReturns ==
  /\ stop = "stopped"
  /\ \A s \in Streams : ~Open(s)
  /\ stop' = "exited"
  /\ UNCHANGED <<players, pos, file, recent, clientStreams, closed, streamVars, draining,
                 stopSaves, stopSaving, stopPos, panicked, overlapped, cutOff, strayed, changed>>

-----------------------------------------------------------------------------

Init ==
  /\ players = {}
  /\ pos = [p \in Players |-> 0]
  /\ file = [p \in Players |-> -1]
  /\ recent = {}
  /\ clientStreams = [p \in Players |-> NoStream]
  /\ closed = {}
  /\ owner = [s \in Streams |-> NoPlayer]
  /\ handler = [s \in Streams |-> "none"]
  /\ say = [s \in Streams |-> "nothing"]
  /\ about = [s \in Streams |-> NoPlayer]
  /\ saved = [s \in Streams |-> 0]
  /\ stop = "running"
  /\ draining = {}
  /\ stopSaves = {}
  /\ stopSaving = NoPlayer
  /\ stopPos = 0
  /\ panicked = FALSE
  /\ overlapped = {} /\ cutOff = {} /\ strayed = {} /\ changed = {}

(* Steps a handler takes by itself once Recv has failed or a message has come. *)
HandlerStep(s) ==
  \/ Throttled(s) \/ NotThrottled(s)
  \/ \E P \in SUBSET Players : BroadcastPlayerUpdate(s, P)
  \/ CloseConn(s) \/ SavePlayer(s) \/ StreamEnds(s)

ClientStep(s) ==
  \/ \E p \in Players : GameStream(s, p) \/ HandlePlayerMovement(s, p)
  \/ RecvFails(s)

StopStep ==
  \/ \E s \in Streams : DisconnectClient(s)
  \/ ClientsDisconnected
  \/ \E p \in Players : StopSavesPlayer(p)
  \/ StopWritesPlayer \/ StopReturns \/ GracefulStopReturns

(* A panic, and the end of main, end the process. *)
Running == ~panicked /\ stop # "exited"

Next ==
  /\ Running
  /\ \/ \E p \in Players : JoinGame(p) \/ IntervalPasses(p)
     \/ \E s \in Streams : ClientStep(s) \/ HandlerStep(s)
     \/ \E P \in SUBSET Players : BroadcastWorldEvent(P)
     \/ DisconnectAllClients \/ StopStep

Spec == Init /\ [][Next]_vars

-----------------------------------------------------------------------------

TypeOK ==
  /\ players \subseteq Players
  /\ pos \in [Players -> 0..MaxMoves]
  /\ file \in [Players -> -1..MaxMoves]
  /\ recent \subseteq Players
  /\ clientStreams \in [Players -> Streams \cup {NoStream}]
  /\ closed \subseteq Streams
  /\ owner \in [Streams -> Players \cup {NoPlayer}]
  /\ handler \in [Streams -> {"none", "throttle", "broadcast", "recv", "lost", "save",
                              "write", "done"}]
  /\ say \in [Streams -> {"nothing", "joined", "moved", "left"}]
  /\ about \in [Streams -> Players \cup {NoPlayer}]
  /\ saved \in [Streams -> 0..MaxMoves]
  /\ stop \in {"running", "draining", "saving", "stopped", "exited"}
  /\ draining \subseteq Streams
  /\ stopSaves \subseteq Players
  /\ stopSaving \in Players \cup {NoPlayer}
  /\ stopPos \in 0..MaxMoves
  /\ panicked \in BOOLEAN
  /\ overlapped \subseteq Players
  /\ cutOff \subseteq Streams
  /\ strayed \subseteq Players
  /\ changed \subseteq Players
  /\ \A s \in Streams :
       /\ handler[s] # "none" => owner[s] \in players
       /\ handler[s] \in {"throttle", "broadcast"} => about[s] \in players

(***************************************************************************)
(* No broadcast sends on a closed queue and no queue is closed twice,      *)
(* although three parties close them: the handler of the stream, the       *)
(* handler of an older stream of its player, and DisconnectAllClients.     *)
(* Either would stop the process (handlers.go:105, shutdown.go:51).        *)
(***************************************************************************)
NoPanic == ~panicked

(***************************************************************************)
(* Broadcasts go to live streams: a connection in clientStreams belongs to *)
(* its player and to a handler that has yet to take it out, so none        *)
(* outlives its stream and fills up unread (handlers.go:103).              *)
(***************************************************************************)
BeforeLeaving(s) ==
  \/ handler[s] \in {"throttle", "broadcast"} /\ say[s] # "left"
  \/ handler[s] \in {"recv", "lost"}

NoStaleConnection ==
  \A p \in Connected : LET s == clientStreams[p] IN owner[s] = p /\ BeforeLeaving(s)

(***************************************************************************)
(* A player who never had two streams at once gets the broadcasts as long  *)
(* as the stream is served, or until DisconnectAllClients has come to it:  *)
(* a stream that opens after that is served like any other                 *)
(* (handlers.go:69, shutdown.go:54).                                       *)
(***************************************************************************)
StreamIsRegistered ==
  \A s \in Streams :
    /\ BeforeLeaving(s)
    /\ s \notin cutOff
    /\ owner[s] \notin overlapped
    => clientStreams[owner[s]] = s

(***************************************************************************)
(* The queues of a stream that has ended are closed, which is what lets    *)
(* its sender goroutine stop, unless the player had two streams at once:   *)
(* the handler or DisconnectAllClients has closed them (handlers.go:104,   *)
(* shutdown.go:51).                                                        *)
(***************************************************************************)
EndedIsClosed ==
  \A s \in Streams : handler[s] = "done" /\ owner[s] \notin overlapped => s \in closed

(***************************************************************************)
(* The saved state of a player is the last position, once the player has   *)
(* left or Stop has returned (handlers.go:115, shutdown.go:20).  The       *)
(* exceptions, in which the position may go on after it was read for the   *)
(* file: two streams of the player overlapped, another client moved the    *)
(* player since the handler last read the position (handlers.go:182 asks   *)
(* nobody), or the player joined or moved after Stop had listed whom to    *)
(* save.                                                                   *)
(***************************************************************************)
HasOpenStream(p) == \E s \in Streams : Open(s) /\ owner[s] = p
Excepted == overlapped \cup strayed \cup changed

LeftIsSaved ==
  \A p \in players \ Excepted :
    /\ stop \in {"stopped", "exited"} \/ \E s \in Streams : handler[s] = "done" /\ owner[s] = p
    /\ ~HasOpenStream(p)
    => file[p] = pos[p]

(***************************************************************************)
(* "broadcastToAll sends a message to all connected clients"               *)
(* (broadcast.go:109): a player with a stream that is being served has an  *)
(* entry in clientStreams.                                                 *)
(***************************************************************************)
BroadcastReachesConnected ==
  \A s \in Streams :
    handler[s] = "recv" /\ stop = "running" => clientStreams[owner[s]] # NoStream

-----------------------------------------------------------------------------
(***************************************************************************)
(* The inductive invariant behind the properties, in named parts.          *)
(***************************************************************************)

(* A registered connection has open queues, until DisconnectAllClients,    *)
(* which holds s.mu, has come to it.                                       *)
RegisteredIsOpen ==
  /\ \A p \in Connected :
       IF clientStreams[p] \in closed
       THEN stop = "draining" /\ clientStreams[p] \notin draining
       ELSE stop = "draining" => clientStreams[p] \in draining
  /\ \A s \in draining : stop = "draining" /\ handler[s] # "none" /\ s \notin closed
  /\ \A s \in Streams : handler[s] = "none" => s \notin closed

(* Two open streams of a player are known to have overlapped. *)
OneAtATime ==
  \A s, t \in Streams :
    s # t /\ Open(s) /\ Open(t) /\ owner[s] = owner[t] => owner[s] \in overlapped

(* The queues of a stream are closed, or its handler will find and close them. *)
SomeoneCloses ==
  \A s \in Streams :
    handler[s] # "none" /\ owner[s] \notin overlapped =>
      s \in closed \/ (BeforeLeaving(s) /\ clientStreams[owner[s]] = s)

(* What is being written to a player's file is the position of the player. *)
SavesCurrent ==
  /\ \A s \in Streams :
       handler[s] = "write" /\ owner[s] \notin overlapped \cup strayed =>
         saved[s] = pos[owner[s]]
  /\ stopSaving # NoPlayer =>
       /\ stop = "saving"
       /\ stopSaving \notin changed => stopPos = pos[stopSaving]

(* A player whom Stop has listed is waiting to be saved, or saved. *)
ListedAreSaved ==
  /\ Listed =>
       \A p \in players \ Excepted :
         \/ p \in stopSaves \/ stopSaving = p
         \/ \E s \in Streams : handler[s] = "write" /\ owner[s] = p
         \/ file[p] = pos[p]
  /\ stop \in {"stopped", "exited"} => stopSaves = {} /\ stopSaving = NoPlayer

IndInv ==
  /\ TypeOK
  /\ NoPanic
  /\ NoStaleConnection
  /\ RegisteredIsOpen
  /\ OneAtATime
  /\ SomeoneCloses
  /\ StreamIsRegistered
  /\ SavesCurrent
  /\ ListedAreSaved
  /\ LeftIsSaved
=============================================================================
