-------------------------- MODULE ClientConn_proofs -------------------------
(***************************************************************************)
(* Proofs about ClientConn, for every size of the queues.                  *)
(***************************************************************************)
EXTENDS ClientConn, TLAPS

(* Every variable has its type: no send takes a queue beyond its capacity. *)
LEMMA TypeStep == TypeOK /\ [Next]_vars => TypeOK'
<1> SUFFICES ASSUME TypeOK, [Next]_vars PROVE TypeOK'
  OBVIOUS
<1> USE ConstantsAssumption DEF TypeOK
<1>1. CASE SendHigh
  BY <1>1 DEF SendHigh, SendUnchanged, MuFree, Full
<1>2. CASE SendNormal
  BY <1>2 DEF SendNormal, SendUnchanged, MuFree
<1>3. CASE StartSender
  BY <1>3 DEF StartSender, HandlerUnchanged, MuFree
<1>4. CASE RecvFails
  BY <1>4 DEF RecvFails, HandlerUnchanged
<1>5. CASE CloseConn
  BY <1>5 DEF CloseConn, HandlerUnchanged, MuFree
<1>6. CASE StreamEnds
  BY <1>6 DEF StreamEnds, HandlerUnchanged
<1>7. CASE ConnectionBreaks
  BY <1>7 DEF ConnectionBreaks, HandlerUnchanged
<1>8. CASE ClientHangsUp
  BY <1>8 DEF ClientHangsUp, HandlerUnchanged
<1>9. CASE TakeHigh
  BY <1>9 DEF TakeHigh, Receive, SenderUnchanged
<1>10. CASE NothingHigh
  BY <1>10 DEF NothingHigh, SenderUnchanged
<1>11. CASE TakeNormal
  BY <1>11 DEF TakeNormal, Receive, SenderUnchanged
<1>12. CASE TakeNil
  BY <1>12 DEF TakeNil, Receive, SenderUnchanged
<1>13. CASE SendSucceeds
  BY <1>13 DEF SendSucceeds, SenderUnchanged
<1>14. CASE SendFails
  BY <1>14 DEF SendFails, SenderUnchanged
<1>15. CASE DisconnectBegins
  BY <1>15 DEF DisconnectBegins, DisconnectUnchanged
<1>16. CASE DisconnectCloses
  <2> USE <1>16 DEF DisconnectCloses, DisconnectUnchanged
  <2>1. high' \in Seq({"event", "shutdown"}) /\ Len(high') = Len(high) + 1
    OBVIOUS
  <2>2. Len(high') <= SendQueueSize
    BY <2>1 DEF Full
  <2>3. QED
    BY <2>1, <2>2
<1>17. CASE ClientStalls
  BY <1>17 DEF ClientStalls, HandlerUnchanged
<1>18. CASE ClientReads
  BY <1>18 DEF ClientReads, HandlerUnchanged
<1>19. CASE RegisterAnother
  BY <1>19 DEF RegisterAnother, HandlerUnchanged
<1>20. CASE ClosedByAnother
  BY <1>20 DEF ClosedByAnother, HandlerUnchanged
<1>21. CASE UNCHANGED vars
  BY <1>21 DEF vars
<1>22. QED
  BY <1>1, <1>2, <1>3, <1>4, <1>5, <1>6, <1>7, <1>8, <1>9, <1>10, <1>11, <1>12,
     <1>13, <1>14, <1>15, <1>16, <1>17, <1>18, <1>19, <1>20, <1>21
  DEF Next, HandlerStep, ClientStep, SenderStep


(* The sender takes a normal message past an event of highQueue only where it *)
(* has seen highQueue empty, and looks there again before the next message.   *)
LEMMA OvertakesStep ==
  TypeOK /\ AtMostOneOvertakes /\ OvertakenIsNext /\ [Next]_vars
  => (AtMostOneOvertakes /\ OvertakenIsNext)'
<1> SUFFICES ASSUME TypeOK, AtMostOneOvertakes, OvertakenIsNext, [Next]_vars
             PROVE  (AtMostOneOvertakes /\ OvertakenIsNext)'
  OBVIOUS
<1> USE ConstantsAssumption DEF TypeOK, AtMostOneOvertakes, OvertakenIsNext
<1>1. CASE SendHigh
  BY <1>1 DEF SendHigh, SendUnchanged
<1>2. CASE DisconnectCloses
  BY <1>2 DEF DisconnectCloses, DisconnectUnchanged
<1>3. CASE StartSender
  BY <1>3 DEF StartSender, HandlerUnchanged
<1>4. CASE TakeHigh
  BY <1>4 DEF TakeHigh, Receive
<1>5. CASE NothingHigh
  BY <1>5 DEF NothingHigh
<1>6. CASE TakeNormal
  BY <1>6 DEF TakeNormal, Receive
<1>7. CASE TakeNil \/ SendSucceeds \/ SendFails
  BY <1>7 DEF TakeNil, SendSucceeds, SendFails, Receive
<1>8. CASE UNCHANGED <<high, sender, overtaken>>
  BY <1>8
<1>9. QED
  BY <1>1, <1>2, <1>3, <1>4, <1>5, <1>6, <1>7, <1>8
  DEF Next, HandlerStep, ClientStep, SenderStep, SendNormal, RecvFails, CloseConn,
      StreamEnds, ConnectionBreaks, ClientStalls, ClientReads, ClientHangsUp,
      RegisterAnother, ClosedByAnother, DisconnectBegins, SendUnchanged,
      HandlerUnchanged, DisconnectUnchanged, vars

(* The shutdown event and the closing of the queue it ends are one section of *)
(* s.mu, in which no handler closes the queue; from then on highQueue is      *)
(* ready, and the sender never waits on both queues again.                    *)
LEMMA ShutdownStep ==
  TypeOK /\ RegisteredIsOpen /\ ShutdownIsLast /\ [Next]_vars
  => (RegisteredIsOpen /\ ShutdownIsLast)'
<1> SUFFICES ASSUME TypeOK, RegisteredIsOpen, ShutdownIsLast, [Next]_vars
             PROVE  (RegisteredIsOpen /\ ShutdownIsLast)'
  OBVIOUS
<1> USE ConstantsAssumption DEF TypeOK, RegisteredIsOpen, ShutdownIsLast
<1>1. CASE SendHigh
  BY <1>1 DEF SendHigh, SendUnchanged, MuFree
<1>2. CASE CloseConn
  BY <1>2 DEF CloseConn, HandlerUnchanged, MuFree
<1>3. CASE TakeHigh
  BY <1>3 DEF TakeHigh, Receive, SenderUnchanged
<1>4. CASE TakeNormal
  BY <1>4 DEF TakeNormal, Receive, SenderUnchanged
<1>5. CASE TakeNil
  BY <1>5 DEF TakeNil, Receive, SenderUnchanged
<1>6. CASE SendSucceeds
  BY <1>6 DEF SendSucceeds, SenderUnchanged
<1>7. CASE SendFails
  BY <1>7 DEF SendFails, SenderUnchanged
<1>8. CASE DisconnectBegins
  BY <1>8 DEF DisconnectBegins, DisconnectUnchanged
<1>9. CASE DisconnectCloses
  BY <1>9 DEF DisconnectCloses, DisconnectUnchanged
<1>10. CASE StartSender
  BY <1>10 DEF StartSender, HandlerUnchanged
<1>11. CASE NothingHigh
  BY <1>11 DEF NothingHigh, SenderUnchanged
<1>12. CASE RegisterAnother \/ ClosedByAnother
  BY <1>12 DEF RegisterAnother, ClosedByAnother, HandlerUnchanged, MuFree
<1>13. CASE UNCHANGED <<registered, high, closed, sender, held, stop, received>>
  BY <1>13
<1>14. QED
  BY <1>1, <1>2, <1>3, <1>4, <1>5, <1>6, <1>7, <1>8, <1>9, <1>10, <1>11, <1>12, <1>13
  DEF Next, HandlerStep, ClientStep, SenderStep, SendNormal, RecvFails, StreamEnds,
      ConnectionBreaks, ClientStalls, ClientReads, ClientHangsUp, SendUnchanged,
      HandlerUnchanged, vars

(* The parts of the invariant hold in every reachable state. *)
THEOREM Invariance == Spec => []IndInv
<1>1. Init => IndInv
  <2> SUFFICES ASSUME Init PROVE IndInv
    OBVIOUS
  <2> USE ConstantsAssumption DEF Init
  <2>1. high \in Seq({"event", "shutdown"}) /\ Len(high) = 0 /\ 0 <= SendQueueSize
    OBVIOUS
  <2>2. normal \in 0..SendQueueSize /\ overtaken \in 0..MaxOvertaken
    OBVIOUS
  <2>3. (held # "none" <=> sender = "send") /\ (sender = "none" <=> handler = "opening")
    OBVIOUS
  <2>4. TypeOK
    BY ONLY Init, <2>1, <2>2, <2>3 DEF TypeOK
  <2>5. AtMostOneOvertakes /\ OvertakenIsNext /\ RegisteredIsOpen
    BY DEF AtMostOneOvertakes, OvertakenIsNext, RegisteredIsOpen
  <2>6. ShutdownIsLast
    BY <2>1 DEF ShutdownIsLast
  <2>7. QED
    BY <2>4, <2>5, <2>6 DEF IndInv
<1>2. IndInv /\ [Next]_vars => IndInv'
  BY TypeStep, OvertakesStep, ShutdownStep DEF IndInv
<1>3. QED
  BY <1>1, <1>2, PTL DEF Spec

(* The two queues stay within their capacity and the sender exists from the *)
(* first broadcast on.                                                      *)
THEOREM TypeCorrect == Spec => []TypeOK
<1>1. IndInv => TypeOK
  BY DEF IndInv
<1>2. QED
  BY <1>1, Invariance, PTL

(* However many messages are queued, the oldest event of highQueue waits for *)
(* one normal message at most.                                               *)
THEOREM EventsHavePriority == Spec => []AtMostOneOvertakes
<1>1. IndInv => AtMostOneOvertakes
  BY DEF IndInv
<1>2. QED
  BY <1>1, Invariance, PTL

(* Nothing is queued behind the shutdown event, and the sender sends nothing *)
(* after it but the empty messages it takes from the closed queue.           *)
THEOREM ShutdownEndsQueue == Spec => []ShutdownIsLast
<1>1. IndInv => ShutdownIsLast
  BY DEF IndInv
<1>2. QED
  BY <1>1, Invariance, PTL
=============================================================================
