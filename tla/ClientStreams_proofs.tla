------------------------ MODULE ClientStreams_proofs ------------------------
(***************************************************************************)
(* Proofs about ClientStreams, for every value of its constants.           *)
(***************************************************************************)
EXTENDS ClientStreams, TLAPS

(* Every variable has its type, and a stream that was opened has a player. *)
LEMMA TypeStep ==
  TypeOK /\ [Next]_vars => TypeOK'
<1> SUFFICES ASSUME TypeOK, [Next]_vars PROVE TypeOK'
  OBVIOUS
<1> USE ConstantsAssumption DEF TypeOK
<1>1. ASSUME NEW p \in Players, JoinGame(p) PROVE TypeOK'
  BY <1>1 DEF JoinGame, streamVars, stopVars
<1>2. ASSUME NEW s \in Streams, NEW p \in Players, GameStream(s, p) PROVE TypeOK'
  BY <1>2 DEF GameStream, Goto, MuFree, Open, streamVars, stopVars
<1>3. ASSUME NEW s \in Streams, Throttled(s) PROVE TypeOK'
  BY <1>3 DEF Throttled, AfterBroadcast, Goto, streamVars, stopVars
<1>4. ASSUME NEW s \in Streams, NotThrottled(s) PROVE TypeOK'
  BY <1>4 DEF NotThrottled, Goto, streamVars, stopVars
<1>5. ASSUME NEW s \in Streams, NEW P \in SUBSET Players, BroadcastPlayerUpdate(s, P)
      PROVE  TypeOK'
  BY <1>5 DEF BroadcastPlayerUpdate, AfterBroadcast, Goto, Send, Conns, Connected,
     streamVars, stopVars
<1>6. ASSUME NEW p \in Players, IntervalPasses(p) PROVE TypeOK'
  BY <1>6 DEF IntervalPasses, streamVars, stopVars
<1>7. ASSUME NEW s \in Streams, NEW p \in Players, HandlePlayerMovement(s, p)
      PROVE  TypeOK'
  BY <1>7 DEF HandlePlayerMovement, Goto, streamVars, stopVars
<1>8. ASSUME NEW s \in Streams, RecvFails(s) PROVE TypeOK'
  BY <1>8 DEF RecvFails, Goto, streamVars, stopVars
<1>9. ASSUME NEW s \in Streams, CloseConn(s) PROVE TypeOK'
  <2>1. owner[s] \in Players
    BY <1>9 DEF CloseConn
  <2>2. closed' \subseteq Streams /\ panicked' \in BOOLEAN
    <3>1. CASE clientStreams[owner[s]] = NoStream
      BY <1>9, <3>1 DEF CloseConn
    <3>2. CASE clientStreams[owner[s]] # NoStream
      <4>1. clientStreams[owner[s]] \in Streams
        BY <2>1, <3>2
      <4>2. /\ closed' = closed \cup {clientStreams[owner[s]]}
            /\ panicked' = (panicked \/ clientStreams[owner[s]] \in closed)
        BY <1>9, <3>2 DEF CloseConn
      <4>3. QED
        BY <4>1, <4>2
    <3>3. QED
      BY <3>1, <3>2
  <2>3. clientStreams' \in [Players -> Streams \cup {NoStream}]
    BY <1>9 DEF CloseConn
  <2>4. QED
    BY <1>9, <2>2, <2>3 DEF CloseConn, Goto, streamVars, stopVars
<1>10. ASSUME NEW s \in Streams, SavePlayer(s) PROVE TypeOK'
  BY <1>10 DEF SavePlayer, Goto, streamVars, stopVars
<1>11. ASSUME NEW s \in Streams, StreamEnds(s) PROVE TypeOK'
  BY <1>11 DEF StreamEnds, Goto, streamVars, stopVars
<1>12. ASSUME NEW P \in SUBSET Players, BroadcastWorldEvent(P) PROVE TypeOK'
  BY <1>12 DEF BroadcastWorldEvent, Send, Conns, Connected, MuFree, streamVars, stopVars
<1>13. ASSUME DisconnectAllClients PROVE TypeOK'
  <2>1. Conns(Connected) \subseteq Streams
    BY DEF Conns, Connected
  <2>2. QED
    BY <1>13, <2>1 DEF DisconnectAllClients, streamVars, stopVars
<1>14. ASSUME NEW s \in Streams, DisconnectClient(s) PROVE TypeOK'
  BY <1>14 DEF DisconnectClient, streamVars, stopVars
<1>15. ASSUME ClientsDisconnected PROVE TypeOK'
  BY <1>15 DEF ClientsDisconnected, streamVars, stopVars
<1>16. ASSUME NEW p \in Players, StopSavesPlayer(p) PROVE TypeOK'
  BY <1>16 DEF StopSavesPlayer, streamVars, stopVars
<1>17. ASSUME StopWritesPlayer PROVE TypeOK'
  BY <1>17 DEF StopWritesPlayer, streamVars, stopVars
<1>18. ASSUME StopReturns PROVE TypeOK'
  BY <1>18 DEF StopReturns, streamVars, stopVars
<1>19. ASSUME GracefulStopReturns PROVE TypeOK'
  BY <1>19 DEF GracefulStopReturns, streamVars, stopVars
<1>20. CASE UNCHANGED vars
  BY <1>20 DEF vars, streamVars, stopVars
<1>21. QED
  BY <1>1, <1>2, <1>3, <1>4, <1>5, <1>6, <1>7, <1>8, <1>9, <1>10, <1>11, <1>12, <1>13,
     <1>14, <1>15, <1>16, <1>17, <1>18, <1>19, <1>20
  DEF Next, ClientStep, HandlerStep, StopStep

(* Nobody sends on or closes a closed queue: a sender or a handler takes its *)
(* connection from clientStreams under s.mu, and those have open queues.     *)
LEMMA NoPanicStep ==
  TypeOK /\ NoStaleConnection /\ RegisteredIsOpen /\ NoPanic /\ [Next]_vars => NoPanic'
<1> SUFFICES ASSUME TypeOK, NoStaleConnection, RegisteredIsOpen, NoPanic, [Next]_vars
             PROVE  NoPanic'
  OBVIOUS
<1> USE ConstantsAssumption DEF TypeOK, NoStaleConnection, RegisteredIsOpen, NoPanic
<1>1. ASSUME NEW s \in Streams, NEW P \in SUBSET Players, BroadcastPlayerUpdate(s, P)
      PROVE  NoPanic'
  <2>1. MuFree /\ P \subseteq Connected /\ Send(P)
    BY <1>1 DEF BroadcastPlayerUpdate
  <2>2. QED
    BY <2>1 DEF MuFree, Send, Conns, Connected
<1>2. ASSUME NEW P \in SUBSET Players, BroadcastWorldEvent(P) PROVE NoPanic'
  BY <1>2 DEF BroadcastWorldEvent, Send, Conns, Connected, MuFree
<1>3. ASSUME NEW s \in Streams, CloseConn(s) PROVE NoPanic'
  <2>1. owner[s] \in Players
    BY <1>3 DEF CloseConn
  <2>2. clientStreams[owner[s]] # NoStream => clientStreams[owner[s]] \notin closed
    BY <1>3, <2>1 DEF CloseConn, MuFree, Connected
  <2>3. QED
    BY <1>3, <2>2 DEF CloseConn
<1>4. ASSUME NEW s \in Streams, DisconnectClient(s) PROVE NoPanic'
  BY <1>4 DEF DisconnectClient
<1>5. CASE UNCHANGED <<panicked>>
  BY <1>5
<1>6. QED
  BY <1>1, <1>2, <1>3, <1>4, <1>5
  DEF Next, ClientStep, HandlerStep, StopStep, vars, streamVars, stopVars, JoinGame,
     GameStream, Throttled, NotThrottled, IntervalPasses, HandlePlayerMovement, RecvFails,
     SavePlayer, StreamEnds, DisconnectAllClients, ClientsDisconnected, StopSavesPlayer,
     StopWritesPlayer, StopReturns, GracefulStopReturns, Goto, AfterBroadcast

(* Only the handler of a stream puts its connection into clientStreams, and    *)
(* whatever the handler takes out before it leaves, its own is not left there. *)
LEMMA NoStaleConnectionStep ==
  TypeOK /\ NoStaleConnection /\ [Next]_vars => NoStaleConnection'
<1> SUFFICES ASSUME TypeOK, NoStaleConnection, [Next]_vars PROVE NoStaleConnection'
  OBVIOUS
<1> USE ConstantsAssumption DEF TypeOK, NoStaleConnection, BeforeLeaving, Connected, Open
<1>1. ASSUME NEW s \in Streams, NEW p \in Players, GameStream(s, p) PROVE NoStaleConnection'
  BY <1>1 DEF GameStream, Goto, MuFree, streamVars, stopVars
<1>2. ASSUME NEW s \in Streams, Throttled(s) \/ NotThrottled(s)
            \/ (\E p \in Players : HandlePlayerMovement(s, p)) \/ RecvFails(s) \/ SavePlayer(s) \/ StreamEnds(s) PROVE NoStaleConnection'
  BY <1>2 DEF Throttled, NotThrottled, HandlePlayerMovement, RecvFails, SavePlayer,
     StreamEnds, AfterBroadcast, Goto, streamVars, stopVars
<1>3. ASSUME NEW s \in Streams, NEW P \in SUBSET Players, BroadcastPlayerUpdate(s, P)
      PROVE  NoStaleConnection'
  BY <1>3 DEF BroadcastPlayerUpdate, AfterBroadcast, Goto, streamVars, stopVars
<1>4. ASSUME NEW s \in Streams, CloseConn(s) PROVE NoStaleConnection'
  BY <1>4 DEF CloseConn, Goto, MuFree, streamVars, stopVars
<1>5. ASSUME ClientsDisconnected PROVE NoStaleConnection'
  BY <1>5 DEF ClientsDisconnected, streamVars, stopVars
<1>6. CASE UNCHANGED <<clientStreams, owner, handler, say>>
  BY <1>6
<1>7. QED
  BY <1>1, <1>2, <1>3, <1>4, <1>5, <1>6
  DEF Next, ClientStep, HandlerStep, StopStep, vars, streamVars, stopVars, JoinGame,
     IntervalPasses, BroadcastWorldEvent, DisconnectAllClients, DisconnectClient,
     StopSavesPlayer, StopWritesPlayer, StopReturns, GracefulStopReturns

(* Queues are closed as their connection leaves clientStreams, except by  *)
(* DisconnectAllClients, which lets nobody see the map until it is empty. *)
LEMMA RegisteredIsOpenStep ==
  TypeOK /\ NoStaleConnection /\ RegisteredIsOpen /\ [Next]_vars => RegisteredIsOpen'
<1> SUFFICES ASSUME TypeOK, NoStaleConnection, RegisteredIsOpen, [Next]_vars
             PROVE  RegisteredIsOpen'
  OBVIOUS
<1> USE ConstantsAssumption DEF TypeOK, NoStaleConnection, RegisteredIsOpen, Connected,
     Conns, BeforeLeaving, Open
<1>1. ASSUME NEW s \in Streams, NEW p \in Players, GameStream(s, p) PROVE RegisteredIsOpen'
  BY <1>1 DEF GameStream, Goto, MuFree, streamVars, stopVars
<1>2. ASSUME NEW s \in Streams, Throttled(s) \/ NotThrottled(s)
            \/ (\E p \in Players : HandlePlayerMovement(s, p)) \/ RecvFails(s) \/ SavePlayer(s) \/ StreamEnds(s) PROVE RegisteredIsOpen'
  BY <1>2 DEF Throttled, NotThrottled, HandlePlayerMovement, RecvFails, SavePlayer,
     StreamEnds, AfterBroadcast, Goto, streamVars, stopVars
<1>3. ASSUME NEW s \in Streams, NEW P \in SUBSET Players, BroadcastPlayerUpdate(s, P)
      PROVE  RegisteredIsOpen'
  BY <1>3 DEF BroadcastPlayerUpdate, AfterBroadcast, Goto, Send, streamVars, stopVars
<1>4. ASSUME NEW s \in Streams, CloseConn(s) PROVE RegisteredIsOpen'
  BY <1>4 DEF CloseConn, Goto, MuFree, streamVars, stopVars
<1>5. ASSUME DisconnectAllClients PROVE RegisteredIsOpen'
  BY <1>5 DEF DisconnectAllClients, streamVars, stopVars
<1>6. ASSUME NEW s \in Streams, DisconnectClient(s) PROVE RegisteredIsOpen'
  <2>1. stop = "draining" /\ s \notin closed
    BY <1>6 DEF DisconnectClient
  <2>2. \A p \in Connected :
          clientStreams[p] \in closed \cup draining
    BY <2>1
  <2>3. /\ closed' = closed \cup {s} /\ draining' = draining \ {s}
        /\ stop' = "draining" /\ clientStreams' = clientStreams /\ handler' = handler
    BY <1>6 DEF DisconnectClient, streamVars
  <2>4. s \in draining /\ handler[s] # "none"
    BY <1>6 DEF DisconnectClient
  <2>5. ASSUME NEW p \in Players, clientStreams[p] # NoStream
        PROVE  IF clientStreams[p] \in closed'
               THEN clientStreams[p] \notin draining'
               ELSE clientStreams[p] \in draining'
    BY <2>1, <2>2, <2>3, <2>5
  <2>6. \A t \in draining' : t \notin closed' /\ handler'[t] # "none"
    BY <2>3
  <2>7. \A t \in Streams : handler'[t] = "none" => t \notin closed'
    BY <2>3, <2>4
  <2>8. QED
    BY <2>3, <2>5, <2>6, <2>7
<1>7. ASSUME ClientsDisconnected PROVE RegisteredIsOpen'
  BY <1>7 DEF ClientsDisconnected, streamVars, stopVars
<1>8. ASSUME StopReturns PROVE RegisteredIsOpen'
  BY <1>8 DEF StopReturns, streamVars, stopVars
<1>9. ASSUME GracefulStopReturns PROVE RegisteredIsOpen'
  BY <1>9 DEF GracefulStopReturns, streamVars, stopVars
<1>10. CASE UNCHANGED <<clientStreams, closed, stop, draining, handler>>
  BY <1>10
<1>11. QED
  BY <1>1, <1>2, <1>3, <1>4, <1>5, <1>6, <1>7, <1>8, <1>9, <1>10
  DEF Next, ClientStep, HandlerStep, StopStep, vars, streamVars, stopVars, JoinGame,
     IntervalPasses, BroadcastWorldEvent, StopSavesPlayer, StopWritesPlayer

(* A second stream of a player is noticed when it opens. *)
LEMMA OneAtATimeStep ==
  TypeOK /\ OneAtATime /\ [Next]_vars => OneAtATime'
<1> SUFFICES ASSUME TypeOK, OneAtATime, [Next]_vars PROVE OneAtATime'
  OBVIOUS
<1> USE ConstantsAssumption DEF TypeOK, OneAtATime, Open
<1>1. ASSUME NEW s \in Streams, NEW p \in Players, GameStream(s, p) PROVE OneAtATime'
  BY <1>1 DEF GameStream, Goto, MuFree, streamVars, stopVars
<1>2. ASSUME NEW s \in Streams, Throttled(s) \/ NotThrottled(s)
            \/ (\E p \in Players : HandlePlayerMovement(s, p)) \/ RecvFails(s) \/ CloseConn(s) \/ SavePlayer(s) \/ StreamEnds(s)
     PROVE  OneAtATime'
  BY <1>2 DEF Throttled, NotThrottled, HandlePlayerMovement, RecvFails, CloseConn,
     SavePlayer, StreamEnds, AfterBroadcast, Goto, MuFree, streamVars, stopVars
<1>3. ASSUME NEW s \in Streams, NEW P \in SUBSET Players, BroadcastPlayerUpdate(s, P)
      PROVE  OneAtATime'
  BY <1>3 DEF BroadcastPlayerUpdate, AfterBroadcast, Goto, Send, Conns, Connected,
     streamVars, stopVars
<1>4. CASE UNCHANGED <<owner, handler, overlapped>>
  BY <1>4
<1>5. QED
  BY <1>1, <1>2, <1>3, <1>4
  DEF Next, ClientStep, HandlerStep, StopStep, vars, streamVars, stopVars, JoinGame,
     IntervalPasses, BroadcastWorldEvent, DisconnectAllClients, DisconnectClient,
     ClientsDisconnected, StopSavesPlayer, StopWritesPlayer, StopReturns,
     GracefulStopReturns

(* An entry of clientStreams is taken out only with its queues closed. *)
LEMMA SomeoneClosesStep ==
  /\ TypeOK /\ StreamIsRegistered /\ RegisteredIsOpen /\ NoStaleConnection
  /\ OneAtATime /\ SomeoneCloses
  /\ [Next]_vars
  => SomeoneCloses'
<1> SUFFICES ASSUME TypeOK, StreamIsRegistered, RegisteredIsOpen, NoStaleConnection,
                    OneAtATime, SomeoneCloses, [Next]_vars
             PROVE  SomeoneCloses'
  OBVIOUS
<1> USE ConstantsAssumption DEF TypeOK, StreamIsRegistered, RegisteredIsOpen,
     NoStaleConnection, OneAtATime, SomeoneCloses, BeforeLeaving, Open
<1>1. ASSUME NEW s \in Streams, NEW p \in Players, GameStream(s, p) PROVE SomeoneCloses'
  BY <1>1 DEF GameStream, Goto, MuFree, streamVars, stopVars
<1>2. ASSUME NEW s \in Streams, Throttled(s) \/ NotThrottled(s)
            \/ (\E p \in Players : HandlePlayerMovement(s, p)) \/ RecvFails(s) \/ SavePlayer(s) \/ StreamEnds(s) PROVE SomeoneCloses'
  BY <1>2 DEF Throttled, NotThrottled, HandlePlayerMovement, RecvFails, SavePlayer,
     StreamEnds, AfterBroadcast, Goto, streamVars, stopVars
<1>3. ASSUME NEW s \in Streams, NEW P \in SUBSET Players, BroadcastPlayerUpdate(s, P)
      PROVE  SomeoneCloses'
  BY <1>3 DEF BroadcastPlayerUpdate, AfterBroadcast, Goto, Send, Conns, Connected,
     streamVars, stopVars
<1>4. ASSUME NEW s \in Streams, CloseConn(s) PROVE SomeoneCloses'
  BY <1>4 DEF CloseConn, Goto, MuFree, streamVars, stopVars
<1>5. ASSUME NEW s \in Streams, DisconnectClient(s) PROVE SomeoneCloses'
  BY <1>5 DEF DisconnectClient, streamVars, stopVars
<1>6. ASSUME ClientsDisconnected PROVE SomeoneCloses'
  <2>1. \A p \in Connected : clientStreams[p] \in closed
    BY <1>6 DEF ClientsDisconnected, Connected
  <2>2. ASSUME NEW s \in Streams, handler[s] # "none", owner[s] \notin overlapped
        PROVE  s \in closed
    <3>1. owner[s] \in Players
      BY <2>2
    <3>2. s \in closed \/ clientStreams[owner[s]] = s
      BY <2>2
    <3>3. QED
      BY <2>1, <3>1, <3>2 DEF Connected
  <2>3. QED
    BY <1>6, <2>2 DEF ClientsDisconnected, streamVars
<1>7. CASE UNCHANGED <<owner, handler, say, overlapped, closed, clientStreams>>
  BY <1>7
<1>8. QED
  BY <1>1, <1>2, <1>3, <1>4, <1>5, <1>6, <1>7
  DEF Next, ClientStep, HandlerStep, StopStep, vars, streamVars, stopVars, JoinGame,
     IntervalPasses, BroadcastWorldEvent, DisconnectAllClients, StopSavesPlayer,
     StopWritesPlayer, StopReturns, GracefulStopReturns

(* Only another stream of the player or DisconnectAllClients could replace the *)
(* entry of a stream that is being served.                                     *)
LEMMA StreamIsRegisteredStep ==
  TypeOK /\ OneAtATime /\ StreamIsRegistered /\ [Next]_vars => StreamIsRegistered'
<1> SUFFICES ASSUME TypeOK, OneAtATime, StreamIsRegistered, [Next]_vars
             PROVE  StreamIsRegistered'
  OBVIOUS
<1> USE ConstantsAssumption DEF TypeOK, OneAtATime, StreamIsRegistered, BeforeLeaving, Open
<1>1. ASSUME NEW s \in Streams, NEW p \in Players, GameStream(s, p)
      PROVE  StreamIsRegistered'
  BY <1>1 DEF GameStream, Goto, MuFree, streamVars, stopVars
<1>2. ASSUME NEW s \in Streams, Throttled(s) \/ NotThrottled(s)
            \/ (\E p \in Players : HandlePlayerMovement(s, p)) \/ RecvFails(s) \/ SavePlayer(s) \/ StreamEnds(s) PROVE StreamIsRegistered'
  BY <1>2 DEF Throttled, NotThrottled, HandlePlayerMovement, RecvFails, SavePlayer,
     StreamEnds, AfterBroadcast, Goto, streamVars, stopVars
<1>3. ASSUME NEW s \in Streams, NEW P \in SUBSET Players, BroadcastPlayerUpdate(s, P)
      PROVE  StreamIsRegistered'
  BY <1>3 DEF BroadcastPlayerUpdate, AfterBroadcast, Goto, Connected, streamVars, stopVars
<1>4. ASSUME NEW s \in Streams, CloseConn(s) PROVE StreamIsRegistered'
  BY <1>4 DEF CloseConn, Goto, MuFree, streamVars, stopVars
<1>5. ASSUME ClientsDisconnected PROVE StreamIsRegistered'
  BY <1>5 DEF ClientsDisconnected, streamVars, stopVars
<1>6. CASE UNCHANGED <<owner, handler, say, overlapped, cutOff, clientStreams>>
  BY <1>6
<1>7. QED
  BY <1>1, <1>2, <1>3, <1>4, <1>5, <1>6
  DEF Next, ClientStep, HandlerStep, StopStep, vars, streamVars, stopVars, JoinGame,
     IntervalPasses, BroadcastWorldEvent, DisconnectAllClients, DisconnectClient,
     StopSavesPlayer, StopWritesPlayer, StopReturns, GracefulStopReturns

(* A player's own stream does not move the player during the write, other *)
(* streams of the player overlap with it, and those of others are noticed. *)
LEMMA SavesCurrentStep ==
  TypeOK /\ OneAtATime /\ SavesCurrent /\ [Next]_vars => SavesCurrent'
<1> SUFFICES ASSUME TypeOK, OneAtATime, SavesCurrent, [Next]_vars PROVE SavesCurrent'
  OBVIOUS
<1> USE ConstantsAssumption DEF TypeOK, OneAtATime, SavesCurrent, Open
<1>1. ASSUME NEW s \in Streams, NEW p \in Players, GameStream(s, p) PROVE SavesCurrent'
  BY <1>1 DEF GameStream, Goto, MuFree, streamVars, stopVars
<1>2. ASSUME NEW s \in Streams, Throttled(s) \/ NotThrottled(s) \/ RecvFails(s)
            \/ CloseConn(s) PROVE SavesCurrent'
  BY <1>2 DEF Throttled, NotThrottled, RecvFails, CloseConn, AfterBroadcast, Goto, MuFree,
     streamVars, stopVars
<1>3. ASSUME NEW s \in Streams, NEW P \in SUBSET Players, BroadcastPlayerUpdate(s, P)
      PROVE  SavesCurrent'
  BY <1>3 DEF BroadcastPlayerUpdate, AfterBroadcast, Goto, Send, Conns, Connected,
     streamVars, stopVars
<1>4. ASSUME NEW s \in Streams, NEW p \in Players, HandlePlayerMovement(s, p)
      PROVE  SavesCurrent'
  BY <1>4 DEF HandlePlayerMovement, Goto, Listed, streamVars, stopVars
<1>5. ASSUME NEW s \in Streams, SavePlayer(s) PROVE SavesCurrent'
  BY <1>5 DEF SavePlayer, Goto, streamVars, stopVars
<1>6. ASSUME NEW s \in Streams, StreamEnds(s) PROVE SavesCurrent'
  BY <1>6 DEF StreamEnds, Goto, streamVars, stopVars
<1>7. ASSUME ClientsDisconnected PROVE SavesCurrent'
  BY <1>7 DEF ClientsDisconnected, streamVars, stopVars
<1>8. ASSUME NEW p \in Players, StopSavesPlayer(p) PROVE SavesCurrent'
  BY <1>8 DEF StopSavesPlayer, streamVars, stopVars
<1>9. ASSUME StopWritesPlayer PROVE SavesCurrent'
  BY <1>9 DEF StopWritesPlayer, streamVars, stopVars
<1>10. ASSUME StopReturns \/ DisconnectAllClients PROVE SavesCurrent'
  BY <1>10 DEF StopReturns, DisconnectAllClients, streamVars, stopVars
<1>11. ASSUME GracefulStopReturns PROVE SavesCurrent'
  BY <1>11 DEF GracefulStopReturns, streamVars, stopVars
<1>12. CASE UNCHANGED <<owner, handler, overlapped, strayed, changed, saved, pos, stop,
                       stopSaving, stopPos>>
  BY <1>12
<1>13. QED
  BY <1>1, <1>2, <1>3, <1>4, <1>5, <1>6, <1>7, <1>8, <1>9, <1>10, <1>11, <1>12
  DEF Next, ClientStep, HandlerStep, StopStep, vars, streamVars, stopVars, JoinGame,
     IntervalPasses, BroadcastWorldEvent, DisconnectClient

(* Stop reads a position after it has listed the player, and a handler that *)
(* has not written yet has read the same one, or one more recent.            *)
LEMMA ListedAreSavedStep ==
  TypeOK /\ SavesCurrent /\ ListedAreSaved /\ [Next]_vars => ListedAreSaved'
<1> SUFFICES ASSUME TypeOK, SavesCurrent, ListedAreSaved, [Next]_vars
             PROVE  ListedAreSaved'
  OBVIOUS
<1> USE ConstantsAssumption DEF TypeOK, SavesCurrent, ListedAreSaved, Excepted, Listed
<1>1. ASSUME NEW p \in Players, JoinGame(p) PROVE ListedAreSaved'
  BY <1>1 DEF JoinGame, streamVars, stopVars
<1>2. ASSUME NEW s \in Streams, NEW p \in Players, GameStream(s, p) PROVE ListedAreSaved'
  BY <1>2 DEF GameStream, Goto, streamVars, stopVars
<1>3. ASSUME NEW s \in Streams, Throttled(s) \/ NotThrottled(s) \/ RecvFails(s)
            \/ CloseConn(s) PROVE ListedAreSaved'
  BY <1>3 DEF Throttled, NotThrottled, RecvFails, CloseConn, AfterBroadcast, Goto,
     streamVars, stopVars
<1>4. ASSUME NEW s \in Streams, NEW P \in SUBSET Players, BroadcastPlayerUpdate(s, P)
      PROVE  ListedAreSaved'
  BY <1>4 DEF BroadcastPlayerUpdate, AfterBroadcast, Goto, streamVars, stopVars
<1>5. ASSUME NEW s \in Streams, NEW p \in Players, HandlePlayerMovement(s, p)
      PROVE  ListedAreSaved'
  BY <1>5 DEF HandlePlayerMovement, Goto, streamVars, stopVars
<1>6. ASSUME NEW s \in Streams, SavePlayer(s) PROVE ListedAreSaved'
  BY <1>6 DEF SavePlayer, Goto, streamVars, stopVars
<1>7. ASSUME NEW s \in Streams, StreamEnds(s) PROVE ListedAreSaved'
  BY <1>7 DEF StreamEnds, Goto, streamVars, stopVars
<1>8. ASSUME ClientsDisconnected PROVE ListedAreSaved'
  BY <1>8 DEF ClientsDisconnected, streamVars, stopVars
<1>9. ASSUME NEW p \in Players, StopSavesPlayer(p) PROVE ListedAreSaved'
  BY <1>9 DEF StopSavesPlayer, streamVars, stopVars
<1>10. ASSUME StopWritesPlayer PROVE ListedAreSaved'
  BY <1>10 DEF StopWritesPlayer, streamVars, stopVars
<1>11. ASSUME StopReturns \/ GracefulStopReturns \/ DisconnectAllClients
       PROVE  ListedAreSaved'
  BY <1>11 DEF StopReturns, GracefulStopReturns, DisconnectAllClients, streamVars, stopVars
<1>12. CASE UNCHANGED <<players, owner, handler, overlapped, strayed, changed, file, pos,
                       stop, stopSaves, stopSaving>>
  BY <1>12
<1>13. QED
  BY <1>1, <1>2, <1>3, <1>4, <1>5, <1>6, <1>7, <1>8, <1>9, <1>10, <1>11, <1>12
  DEF Next, ClientStep, HandlerStep, StopStep, vars, streamVars, stopVars,
     IntervalPasses, BroadcastWorldEvent, DisconnectClient

(* The last write is the one of the stream that ends last, or of Stop. *)
LEMMA LeftIsSavedStep ==
  TypeOK /\ SavesCurrent /\ ListedAreSaved /\ LeftIsSaved /\ [Next]_vars => LeftIsSaved'
<1> SUFFICES ASSUME TypeOK, SavesCurrent, ListedAreSaved, LeftIsSaved, [Next]_vars
             PROVE  LeftIsSaved'
  OBVIOUS
<1> USE ConstantsAssumption DEF TypeOK, SavesCurrent, LeftIsSaved, Excepted, HasOpenStream,
     Open
<1>1. ASSUME NEW p \in Players, JoinGame(p) PROVE LeftIsSaved'
  BY <1>1 DEF JoinGame, Listed, streamVars, stopVars
<1>2. ASSUME NEW s \in Streams, NEW p \in Players, GameStream(s, p) PROVE LeftIsSaved'
  BY <1>2 DEF GameStream, Goto, MuFree, streamVars, stopVars
<1>3. ASSUME NEW s \in Streams, Throttled(s) \/ NotThrottled(s) \/ RecvFails(s)
            \/ CloseConn(s) \/ SavePlayer(s) PROVE LeftIsSaved'
  BY <1>3 DEF Throttled, NotThrottled, RecvFails, CloseConn, SavePlayer, AfterBroadcast,
     Goto, MuFree, streamVars, stopVars
<1>4. ASSUME NEW s \in Streams, NEW P \in SUBSET Players, BroadcastPlayerUpdate(s, P)
      PROVE  LeftIsSaved'
  BY <1>4 DEF BroadcastPlayerUpdate, AfterBroadcast, Goto, streamVars, stopVars
<1>5. ASSUME NEW s \in Streams, NEW p \in Players, HandlePlayerMovement(s, p)
      PROVE  LeftIsSaved'
  BY <1>5 DEF HandlePlayerMovement, Goto, streamVars, stopVars
<1>6. ASSUME NEW s \in Streams, StreamEnds(s) PROVE LeftIsSaved'
  BY <1>6 DEF StreamEnds, Goto, streamVars, stopVars
<1>7. ASSUME StopWritesPlayer PROVE LeftIsSaved'
  BY <1>7 DEF StopWritesPlayer, streamVars, stopVars
<1>8. ASSUME StopReturns PROVE LeftIsSaved'
  BY <1>8 DEF StopReturns, ListedAreSaved, Listed, streamVars, stopVars
<1>9. ASSUME GracefulStopReturns \/ DisconnectAllClients \/ ClientsDisconnected
      PROVE  LeftIsSaved'
  BY <1>9 DEF GracefulStopReturns, DisconnectAllClients, ClientsDisconnected, streamVars,
     stopVars
<1>10. CASE UNCHANGED <<players, owner, handler, overlapped, strayed, changed, file, pos,
                       stop>>
  BY <1>10
<1>11. QED
  BY <1>1, <1>2, <1>3, <1>4, <1>5, <1>6, <1>7, <1>8, <1>9, <1>10
  DEF Next, ClientStep, HandlerStep, StopStep, vars, streamVars, stopVars,
     IntervalPasses, BroadcastWorldEvent, DisconnectClient, StopSavesPlayer

(* Initially nobody is connected. *)
LEMMA InitInvariant == Init => IndInv
<1> SUFFICES ASSUME Init PROVE IndInv
  OBVIOUS
<1> USE ConstantsAssumption DEF Init
<1>1. TypeOK
  <2>1. 0 \in 0..MaxMoves /\ -1 \in -1..MaxMoves
    OBVIOUS
  <2>2. pos \in [Players -> 0..MaxMoves] /\ file \in [Players -> -1..MaxMoves]
    BY <2>1
  <2>3. saved \in [Streams -> 0..MaxMoves] /\ stopPos \in 0..MaxMoves
    BY <2>1
  <2>4. QED
    BY <2>2, <2>3 DEF TypeOK
<1>2. NoPanic
  BY DEF NoPanic
<1>3. NoStaleConnection /\ RegisteredIsOpen
  BY DEF NoStaleConnection, RegisteredIsOpen, Connected
<1>4. OneAtATime /\ SomeoneCloses /\ StreamIsRegistered
  BY DEF OneAtATime, SomeoneCloses, StreamIsRegistered, BeforeLeaving, Open
<1>5. SavesCurrent /\ ListedAreSaved /\ LeftIsSaved
  BY DEF SavesCurrent, ListedAreSaved, Listed, LeftIsSaved
<1>6. QED
  BY <1>1, <1>2, <1>3, <1>4, <1>5 DEF IndInv

(* The parts of the invariant hold in every reachable state, whatever the  *)
(* numbers of players, streams and movements.                              *)
THEOREM Invariance == Spec => []IndInv
<1>1. Init => IndInv
  BY InitInvariant
<1>2. IndInv /\ [Next]_vars => IndInv'
  BY TypeStep, NoPanicStep, NoStaleConnectionStep, RegisteredIsOpenStep, OneAtATimeStep,
     SomeoneClosesStep, StreamIsRegisteredStep, SavesCurrentStep, ListedAreSavedStep,
     LeftIsSavedStep
  DEF IndInv
<1>3. QED
  BY <1>1, <1>2, PTL DEF Spec

(* The variables of the service keep their types. *)
THEOREM TypeCorrect == Spec => []TypeOK
<1>1. IndInv => TypeOK
  BY DEF IndInv
<1>2. QED
  BY <1>1, Invariance, PTL

(* However handlers, broadcasts and Stop interleave, no message is sent on a *)
(* closed queue and no queue is closed twice.                                *)
THEOREM NeverPanics == Spec => []NoPanic
<1>1. IndInv => NoPanic
  BY DEF IndInv
<1>2. QED
  BY <1>1, Invariance, PTL

(* Every connection in clientStreams is served by a handler of its player that *)
(* has still to take it out.                                                   *)
THEOREM ConnectionsAreServed == Spec => []NoStaleConnection
<1>1. IndInv => NoStaleConnection
  BY DEF IndInv
<1>2. QED
  BY <1>1, Invariance, PTL

(* A player with one stream at a time is reached by the broadcasts while the  *)
(* stream is served, also when it has opened after DisconnectAllClients.      *)
THEOREM ServedAreRegistered == Spec => []StreamIsRegistered
<1>1. IndInv => StreamIsRegistered
  BY DEF IndInv
<1>2. QED
  BY <1>1, Invariance, PTL

(* When the stream of a player with one stream at a time has ended, its queues *)
(* are closed: from SomeoneCloses, as the handler is past closing them.        *)
THEOREM EndedAreClosed == Spec => []EndedIsClosed
<1>1. IndInv => EndedIsClosed
  BY DEF IndInv, SomeoneCloses, EndedIsClosed, BeforeLeaving
<1>2. QED
  BY <1>1, Invariance, PTL

(* The saved position of a player who has left, or whom Stop has saved, is the *)
(* last one, unless the player moved after it was read or had two streams.     *)
THEOREM LeftAreSaved == Spec => []LeftIsSaved
<1>1. IndInv => LeftIsSaved
  BY DEF IndInv
<1>2. QED
  BY <1>1, Invariance, PTL
=============================================================================
