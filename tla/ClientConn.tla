----------------------------- MODULE ClientConn -----------------------------
(***************************************************************************)
(* One client connection of internal/service: the two bounded queues of a  *)
(* clientConn, the sender goroutine GameStream starts for it, the          *)
(* broadcasts that fill the queues, and the two ways they are closed, by   *)
(* the handler at the end of the stream and by DisconnectAllClients.       *)
(* clientStreams holds one connection per player, so another stream of     *)
(* the same player may take the place of this connection in it, or close   *)
(* its queues; which stream does what to whom is in ClientStreams.         *)
(*                                                                         *)
(* highQueue holds global world events and the shutdown event; of the      *)
(* messages in normalQueue only the number matters.                        *)
(***************************************************************************)
EXTENDS Integers, Sequences

CONSTANTS
  SendQueueSize,    \* capacity of both queues (1024 in the code)
  MaxOvertaken      \* bound of a history variable: overtaken counts no further

ASSUME ConstantsAssumption ==
  SendQueueSize \in Nat \ {0} /\ MaxOvertaken \in Nat \ {0, 1}

VARIABLES
  handler,   \* GameStream: "opening" until its first broadcast is done, "serving",
             \* "lost" (the stream failed), "leaving" (queues closed), "ended"
  registered,             \* clientStreams holds this connection for its player
  high, normal, closed,   \* the queues
  sender,    \* progress of the sender goroutine
  held,      \* the message it sends
  net,       \* the transport: "up", "stalled" while the client does not read, "down"
  stop       \* DisconnectAllClients: "running", "blocked" in its send, "done"

(***************************************************************************)
(* History variables.                                                      *)
(***************************************************************************)
VARIABLES
  overtaken,   \* normal messages taken since the first of highQueue came to be there
  received     \* the shutdown event has reached the client

vars == <<handler, registered, high, normal, closed, sender, held, net, stop,
          overtaken, received>>

(* s.mu is held while DisconnectAllClients waits for room in highQueue. *)
MuFree == stop # "blocked"

Full == Len(high) = SendQueueSize

(***************************************************************************)
(* Definitions whose name starts with Faulty are variants with a plausible *)
(* bug; no other definition uses them.  Each shows that some property      *)
(* would catch the bug.                                                    *)
(***************************************************************************)

(***************************************************************************)
(* send without blocking, from a broadcast that found the connection in    *)
(* clientStreams: a full queue drops the message.                          *)
(***************************************************************************)
SendUnchanged == UNCHANGED <<handler, registered, closed, sender, held, net, stop, received>>

SendHigh ==
  /\ MuFree /\ registered
  /\ ~Full
  /\ high' = Append(high, "event")
  /\ UNCHANGED <<normal, overtaken>>
  /\ SendUnchanged

SendNormal ==
  /\ MuFree /\ registered
  /\ normal < SendQueueSize
  /\ normal' = normal + 1
  /\ UNCHANGED <<high, overtaken>>
  /\ SendUnchanged

(***************************************************************************)
(* The handler.  The sender starts after the first broadcast, which needs  *)
(* s.mu; the end of the stream needs it too, to close the connection and   *)
(* for its last broadcast.                                                 *)
(***************************************************************************)
HandlerUnchanged == UNCHANGED <<high, normal, held, stop, overtaken, received>>

StartSender ==
  /\ handler = "opening"
  /\ MuFree
  /\ handler' = "serving"
  /\ sender' = "select"
  /\ UNCHANGED <<registered, closed, net>>
  /\ HandlerUnchanged

(* The client is gone. *)
ConnectionBreaks ==
  /\ net # "down"
  /\ net' = "down"
  /\ UNCHANGED <<handler, registered, closed, sender>>
  /\ HandlerUnchanged

(* The client reads nothing, and flow control lets nothing through. *)
ClientStalls ==
  /\ net = "up"
  /\ net' = "stalled"
  /\ UNCHANGED <<handler, registered, closed, sender>>
  /\ HandlerUnchanged

ClientReads ==
  /\ net = "stalled"
  /\ net' = "up"
  /\ UNCHANGED <<handler, registered, closed, sender>>
  /\ HandlerUnchanged

(* The client has hung up and may still receive. *)
ClientHangsUp ==
  /\ handler = "serving"
  /\ net # "down"
  /\ handler' = "lost"
  /\ UNCHANGED <<registered, closed, sender, net>>
  /\ HandlerUnchanged

RecvFails ==
  /\ handler = "serving"
  /\ net = "down"
  /\ handler' = "lost"
  /\ UNCHANGED <<registered, closed, sender, net>>
  /\ HandlerUnchanged

(* The handler closes and deletes what clientStreams holds for its player:  *)
(* this connection, another one of the player, or none.                     *)
CloseConn ==
  /\ handler = "lost"
  /\ MuFree
  /\ closed' = (closed \/ registered)
  /\ registered' = FALSE
  /\ handler' = "leaving"
  /\ UNCHANGED <<sender, net>>
  /\ HandlerUnchanged

(* The handler has told the others, and returns: gRPC ends the stream. *)
StreamEnds ==
  /\ handler = "leaving"
  /\ MuFree
  /\ handler' = "ended"
  /\ net' = "down"
  /\ UNCHANGED <<registered, closed, sender>>
  /\ HandlerUnchanged

(***************************************************************************)
(* Another stream of the player: a newer one takes the place of this       *)
(* connection, an older one that ends closes whatever it finds.            *)
(***************************************************************************)
RegisterAnother ==
  /\ MuFree /\ registered
  /\ registered' = FALSE
  /\ UNCHANGED <<handler, closed, sender, net>>
  /\ HandlerUnchanged

ClosedByAnother ==
  /\ MuFree /\ registered
  /\ closed' = TRUE
  /\ registered' = FALSE
  /\ UNCHANGED <<handler, sender, net>>
  /\ HandlerUnchanged

(***************************************************************************)
(* The sender: highQueue if it is ready, else whichever queue is first.  A *)
(* closed queue yields what it holds, then nil, which is sent as an empty  *)
(* message.                                                                *)
(***************************************************************************)
SenderUnchanged == UNCHANGED <<handler, registered, closed, net, stop>>

Receive(msg) == sender' = "send" /\ held' = msg

(* A priority select without its default: normalQueue waits for highQueue. *)
FaultyTakeHigh ==
  /\ sender = "wait"
  /\ high # <<>>
  /\ Receive(Head(high))
  /\ high' = Tail(high)
  /\ overtaken' = 0
  /\ UNCHANGED <<normal, received>>
  /\ SenderUnchanged

TakeHigh ==
  /\ sender \in {"select", "wait"}
  /\ high # <<>>
  /\ Receive(Head(high))
  /\ high' = Tail(high)
  /\ overtaken' = 0
  /\ UNCHANGED <<normal, received>>
  /\ SenderUnchanged

(* Waits on both queues although highQueue is ready. *)
FaultyNothingHigh ==
  /\ sender = "select"
  /\ ~closed
  /\ sender' = "wait"
  /\ UNCHANGED <<held, high, normal, overtaken, received>>
  /\ SenderUnchanged

NothingHigh ==
  /\ sender = "select"
  /\ high = <<>> /\ ~closed
  /\ sender' = "wait"
  /\ UNCHANGED <<held, high, normal, overtaken, received>>
  /\ SenderUnchanged

TakeNormal ==
  /\ sender = "wait"
  /\ normal > 0
  /\ Receive("normal")
  /\ normal' = normal - 1
  /\ overtaken' = IF high # <<>> /\ overtaken < MaxOvertaken THEN overtaken + 1 ELSE overtaken
  /\ UNCHANGED <<high, received>>
  /\ SenderUnchanged

TakeNil ==
  /\ closed
  /\ \/ sender \in {"select", "wait"} /\ high = <<>>
     \/ sender = "wait" /\ normal = 0
  /\ Receive("nil")
  /\ UNCHANGED <<high, normal, overtaken, received>>
  /\ SenderUnchanged

(* stream.Send returns when flow control lets the message through. *)
SendSucceeds ==
  /\ sender = "send"
  /\ net = "up"
  /\ received' = (received \/ held = "shutdown")
  /\ sender' = "select"
  /\ held' = "none"
  /\ UNCHANGED <<high, normal, overtaken>>
  /\ SenderUnchanged

(* Goes on after an error. *)
FaultySendFails ==
  /\ sender = "send"
  /\ net = "down"
  /\ sender' = "select"
  /\ held' = "none"
  /\ UNCHANGED <<high, normal, overtaken, received>>
  /\ SenderUnchanged

SendFails ==
  /\ sender = "send"
  /\ net = "down"
  /\ sender' = "stopped"
  /\ held' = "none"
  /\ UNCHANGED <<high, normal, overtaken, received>>
  /\ SenderUnchanged

(***************************************************************************)
(* DisconnectAllClients, under s.mu: send(shutdownMsg, true) waits for     *)
(* room in highQueue, then both queues are closed and the connection is    *)
(* forgotten with all others.                                              *)
(***************************************************************************)
DisconnectUnchanged == UNCHANGED <<handler, normal, sender, held, net, overtaken, received>>

DisconnectBegins ==
  /\ stop = "running"
  /\ registered
  /\ stop' = "blocked"
  /\ UNCHANGED <<registered, high, closed>>
  /\ DisconnectUnchanged

(* Sends without blocking. *)
FaultyDisconnectCloses ==
  /\ stop = "blocked"
  /\ high' = IF Full THEN high ELSE Append(high, "shutdown")
  /\ closed' = TRUE
  /\ registered' = FALSE
  /\ stop' = "done"
  /\ DisconnectUnchanged

(* Leaves closing to the handler. *)
FaultyDisconnectSends ==
  /\ stop = "blocked"
  /\ ~Full
  /\ high' = Append(high, "shutdown")
  /\ stop' = "done"
  /\ UNCHANGED <<registered, closed>>
  /\ DisconnectUnchanged

DisconnectCloses ==
  /\ stop = "blocked"
  /\ ~Full
  /\ high' = Append(high, "shutdown")
  /\ closed' = TRUE
  /\ registered' = FALSE
  /\ stop' = "done"
  /\ DisconnectUnchanged

-----------------------------------------------------------------------------

Init ==
  /\ handler = "opening" /\ registered = TRUE
  /\ high = <<>> /\ normal = 0 /\ closed = FALSE
  /\ sender = "none" /\ held = "none"
  /\ net = "up"
  /\ stop = "running"
  /\ overtaken = 0 /\ received = FALSE

HandlerStep == StartSender \/ RecvFails \/ CloseConn \/ StreamEnds

ClientStep == ConnectionBreaks \/ ClientStalls \/ ClientReads \/ ClientHangsUp

SenderStep ==
  TakeHigh \/ NothingHigh \/ TakeNormal \/ TakeNil \/ SendSucceeds \/ SendFails

Next ==
  \/ SendHigh \/ SendNormal
  \/ HandlerStep \/ ClientStep
  \/ RegisterAnother \/ ClosedByAnother
  \/ SenderStep
  \/ DisconnectBegins \/ DisconnectCloses

Spec == Init /\ [][Next]_vars

(***************************************************************************)
(* The sender goroutine and DisconnectAllClients run, and a client that    *)
(* reads again and again lets a waiting Send through in the end; it need   *)
(* not read.  Nothing is assumed of the handler, which waits for s.mu:     *)
(* DisconnectAllClients may hold that for ever at another connection.      *)
(***************************************************************************)
Fairness ==
  /\ WF_vars(SenderStep)
  /\ SF_vars(SendSucceeds)
  /\ WF_vars(DisconnectCloses)

FairSpec == Spec /\ Fairness

-----------------------------------------------------------------------------

TypeOK ==
  /\ handler \in {"opening", "serving", "lost", "leaving", "ended"}
  /\ high \in Seq({"event", "shutdown"}) /\ Len(high) <= SendQueueSize
  /\ normal \in 0..SendQueueSize
  /\ registered \in BOOLEAN /\ closed \in BOOLEAN
  /\ sender \in {"none", "select", "wait", "send", "stopped"}
  /\ held \in {"none", "nil", "normal", "event", "shutdown"}
  /\ net \in {"up", "stalled", "down"}
  /\ stop \in {"running", "blocked", "done"}
  /\ overtaken \in 0..MaxOvertaken
  /\ received \in BOOLEAN
  /\ held # "none" <=> sender = "send"
  /\ sender = "none" <=> handler = "opening"

(***************************************************************************)
(* highQueue has priority: the oldest event in it is overtaken by at most  *)
(* one normal message, the one the sender took after it had seen highQueue *)
(* empty (client_conn.go:8, handlers.go:78).                               *)
(***************************************************************************)
AtMostOneOvertakes == overtaken <= 1

(***************************************************************************)
(* Nothing of content follows the shutdown event: it is the last event in  *)
(* highQueue, and once it is taken the closed queue is always ready, so    *)
(* that the sender never looks at normalQueue again and sends the client   *)
(* empty messages alone (nil, handlers.go:78) until the stream ends.       *)
(***************************************************************************)
ShutdownIsLast ==
  /\ received \/ held = "shutdown" => closed /\ high = <<>>
  /\ received => sender # "wait" /\ held \in {"none", "nil"}
  /\ \A i \in 1..Len(high) : high[i] = "shutdown" => closed /\ i = Len(high)

(***************************************************************************)
(* A client that keeps reading gets the shutdown event once                *)
(* DisconnectAllClients has come to it, even when its high queue was full. *)
(* The exceptions are a connection that breaks, a client that stops        *)
(* reading for good, and a sender that never starts, as it does after a    *)
(* broadcast that waits for s.mu.                                          *)
(***************************************************************************)
ShutdownDelivered ==
  stop = "blocked" ~>
    received \/ net = "down" \/ [](net = "stalled") \/ [](sender = "none")

(***************************************************************************)
(* DisconnectAllClients gets past the connection, and past the lock of     *)
(* all streams that it holds, unless the queue stays full: the sender has  *)
(* not started or was stopped by an error, or the client stops reading     *)
(* for good.                                                               *)
(***************************************************************************)
DisconnectEnds ==
  stop = "blocked" ~>
    stop = "done" \/ [](Full /\ (sender \in {"none", "stopped"} \/ net = "stalled"))

(***************************************************************************)
(* The sender goroutine of a stream that has ended stops, unless another   *)
(* stream of the player had taken its place in clientStreams, so that      *)
(* nobody closes its queues (handlers.go:104).                             *)
(***************************************************************************)
SenderEnds == handler = "ended" ~> sender = "stopped" \/ [](~closed /\ ~registered)

-----------------------------------------------------------------------------
(***************************************************************************)
(* The inductive invariant behind the safety properties, in named parts.   *)
(***************************************************************************)

(* An overtaken event is still there, and the sender is not about to choose *)
(* between the queues again.                                                *)
OvertakenIsNext == overtaken > 0 => high # <<>> /\ sender # "wait"

(* The queues of a registered connection are open, and the one that         *)
(* DisconnectAllClients sends to stays registered.                          *)
RegisteredIsOpen == (registered => ~closed) /\ (stop = "blocked" => registered)

IndInv == TypeOK /\ AtMostOneOvertakes /\ OvertakenIsNext /\ RegisteredIsOpen /\ ShutdownIsLast
=============================================================================
