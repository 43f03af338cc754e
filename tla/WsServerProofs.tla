---------------------------- MODULE WsServerProofs ----------------------------
(***************************************************************************)
(* Proofs about WsServer, for any sets of connections and of application   *)
(* goroutines, along the lines of TcpServerProofs: LifeInv follows a       *)
(* connection from clients to OnClose, SweepInv what OnSystemExit has yet  *)
(* to visit.  Here a handler sends as well, and the process ends.          *)
(***************************************************************************)
EXTENDS WsServer, TLAPS

-----------------------------------------------------------------------------
(***************************************************************************)
(* Types                                                                   *)
(***************************************************************************)
\* Every step keeps every variable in its type.
LEMMA TypeStep == TypeOK /\ [Next]_vars => TypeOK'
<1>. SUFFICES ASSUME TypeOK, [Next]_vars PROVE TypeOK'
  OBVIOUS
<1>. USE ThreadAssumption
     DEF TypeOK, Threads, HandlerPCs, ClosePCs, SendPCs, Goto, Moves
<1>1. ASSUME NEW c \in Conns, Accept(c) PROVE TypeOK'
  BY <1>1 DEF Accept
<1>2. ASSUME NEW c \in Conns, HandlerStore(c) PROVE TypeOK'
  BY <1>2 DEF HandlerStore
<1>3. ASSUME NEW c \in Conns, OnAcceptReturns(c) PROVE TypeOK'
  BY <1>3 DEF OnAcceptReturns
<1>4. ASSUME NEW c \in Conns, OnAcceptPanics(c) PROVE TypeOK'
  BY <1>4 DEF OnAcceptPanics
<1>5. ASSUME NEW c \in Conns, ReadMessage(c) PROVE TypeOK'
  BY <1>5 DEF ReadMessage
<1>6. ASSUME NEW c \in Conns, ReadFails(c) PROVE TypeOK'
  BY <1>6 DEF ReadFails
<1>7. ASSUME NEW c \in Conns, ReadIdle(c) PROVE TypeOK'
  BY <1>7 DEF ReadIdle
<1>8. ASSUME NEW c \in Conns, OnIdleTimeoutReturns(c) PROVE TypeOK'
  BY <1>8 DEF OnIdleTimeoutReturns
<1>9. ASSUME NEW c \in Conns, ExtractFails(c) PROVE TypeOK'
  BY <1>9 DEF ExtractFails
<1>10. ASSUME NEW c \in Conns, DecodeFails(c) PROVE TypeOK'
  BY <1>10 DEF DecodeFails
<1>11. ASSUME NEW c \in Conns, Executed(c) PROVE TypeOK'
  BY <1>11 DEF Executed
<1>12. ASSUME NEW c \in Conns, Answer(c) PROVE TypeOK'
  BY <1>12 DEF Answer
<1>13. ASSUME NEW a \in Apps, NEW c \in Conns, SendCall(a, c) PROVE TypeOK'
  BY <1>13 DEF SendCall
<1>14. ASSUME NEW a \in Apps, NEW c \in Conns, AppClose(a, c) PROVE TypeOK'
  BY <1>14 DEF AppClose
<1>15. ASSUME NEW t \in Conns \cup Apps, SendLock(t) PROVE TypeOK'
  BY <1>15 DEF SendLock
<1>16. ASSUME NEW t \in Conns \cup Apps, SendWritten(t) PROVE TypeOK'
  BY <1>16 DEF SendWritten, AfterSend
<1>17. ASSUME NEW t \in Conns \cup Apps, SendBroken(t) PROVE TypeOK'
  BY <1>17 DEF SendBroken
<1>18. ASSUME NEW t \in Conns \cup Apps, SendClose(t) PROVE TypeOK'
  BY <1>18 DEF SendClose, AfterSend
<1>19. ASSUME NEW t \in Threads, CloseDelete(t) PROVE TypeOK'
  BY <1>19 DEF CloseDelete, Back
<1>20. ASSUME NEW t \in Threads, CloseConn(t) PROVE TypeOK'
  BY <1>20 DEF CloseConn
<1>21. ASSUME NEW t \in Threads, CloseNotify(t) PROVE TypeOK'
  BY <1>21 DEF CloseNotify, Back
<1>22. CASE Signal
  BY <1>22 DEF Signal
<1>23. CASE ExitRange
  BY <1>23 DEF ExitRange
<1>24. ASSUME NEW c \in Conns, ExitVisit(c) PROVE TypeOK'
  BY <1>24 DEF ExitVisit
<1>25. CASE ProcessExit
  BY <1>25 DEF ProcessExit
<1>26. ASSUME NEW c \in Conns, ConnBreaks(c) PROVE TypeOK'
  BY <1>26 DEF ConnBreaks
<1>27. CASE UNCHANGED vars
  BY <1>27 DEF vars
<1>. QED
  BY <1>1, <1>2, <1>3, <1>4, <1>5, <1>6, <1>7, <1>8, <1>9, <1>10,
     <1>11, <1>12, <1>13, <1>14, <1>15, <1>16, <1>17, <1>18, <1>19, <1>20,
     <1>21, <1>22, <1>23, <1>24, <1>25, <1>26, <1>27
  DEF Next, Handler, Application, SendMessage, CloseContext, WaitElegantExit, Threads

\* Every variable keeps its type and a handler works on its own connection.
THEOREM TypeCorrect == Spec => []TypeOK
<1>1. Init => TypeOK
  <2>. SUFFICES ASSUME Init PROVE TypeOK
    OBVIOUS
  <2>1. /\ \A c \in Conns : pc[c] = "off" /\ target[c] = c
        /\ \A a \in Apps : pc[a] = "idle"
        /\ pc[Main] = "wait"
    BY ThreadAssumption DEF Init, Threads
  <2>2. target \in [Threads -> Conns \cup {None}]
    BY DEF Init
  <2>3. \A t \in Threads : pc[t] \notin ClosePCs \cup SendPCs
    BY <2>1 DEF Threads, ClosePCs, SendPCs
  <2>. QED
    BY <2>1, <2>2, <2>3 DEF Init, TypeOK, HandlerPCs
<1>. QED
  BY <1>1, TypeStep, PTL DEF Spec

-----------------------------------------------------------------------------
(***************************************************************************)
(* The life of a connection                                                *)
(***************************************************************************)
Taking(t) == pc[t] \in {"close", "onclose"}

\* A connection is in clients, or one goroutine took it out and OnClose is yet
\* to be called, or OnClose was called once; and it is closed by then.
LifeInv ==
  /\ \A c \in Conns : sock[c] = "none" <=> pc[c] = "off"
  /\ \A c \in Conns : ~Known(c) => c \notin clients /\ closes[c] = 0 /\ ~Removing(c)
  /\ \A t \in Apps \cup {Main} : pc[t] \in ClosePCs \cup SendPCs => Known(target[t])
  /\ toVisit \subseteq {c \in Conns : Known(c)}
  /\ \A c \in clients : closes[c] = 0
  /\ \A t, u \in Threads : Taking(t) /\ Taking(u) /\ target[t] = target[u] => t = u
  /\ \A t \in Threads : Taking(t) => target[t] \notin clients /\ closes[target[t]] = 0
  /\ \A t \in Threads : pc[t] = "onclose" => sock[target[t]] = "closed"
  /\ \A c \in Conns : closes[c] = 0 \/ (closes[c] = 1 /\ sock[c] = "closed")
  /\ \A c \in Conns : Known(c) => c \in clients \/ Removing(c) \/ closes[c] = 1

\* Every step keeps LifeInv.
LEMMA LifeStep == TypeOK /\ LifeInv /\ [Next]_vars => LifeInv'
<1>. SUFFICES ASSUME TypeOK, LifeInv, [Next]_vars PROVE LifeInv'
  OBVIOUS
<1>. USE ThreadAssumption
     DEF TypeOK, LifeInv, Known, Removing, Taking, Threads, HandlerPCs, ClosePCs,
         SendPCs, Goto, Moves
<1>1. ASSUME NEW c \in Conns, Accept(c) PROVE LifeInv'
  BY <1>1 DEF Accept
<1>2. ASSUME NEW c \in Conns, HandlerStore(c) PROVE LifeInv'
  BY <1>2 DEF HandlerStore
<1>3. ASSUME NEW c \in Conns, OnAcceptReturns(c) PROVE LifeInv'
  BY <1>3 DEF OnAcceptReturns
<1>4. ASSUME NEW c \in Conns, OnAcceptPanics(c) PROVE LifeInv'
  BY <1>4 DEF OnAcceptPanics
<1>5. ASSUME NEW c \in Conns, ReadMessage(c) PROVE LifeInv'
  BY <1>5 DEF ReadMessage
<1>6. ASSUME NEW c \in Conns, ReadFails(c) PROVE LifeInv'
  BY <1>6 DEF ReadFails
<1>7. ASSUME NEW c \in Conns, ReadIdle(c) PROVE LifeInv'
  BY <1>7 DEF ReadIdle
<1>8. ASSUME NEW c \in Conns, OnIdleTimeoutReturns(c) PROVE LifeInv'
  BY <1>8 DEF OnIdleTimeoutReturns
<1>9. ASSUME NEW c \in Conns, ExtractFails(c) PROVE LifeInv'
  BY <1>9 DEF ExtractFails
<1>10. ASSUME NEW c \in Conns, DecodeFails(c) PROVE LifeInv'
  BY <1>10 DEF DecodeFails
<1>11. ASSUME NEW c \in Conns, Executed(c) PROVE LifeInv'
  BY <1>11 DEF Executed
<1>12. ASSUME NEW c \in Conns, Answer(c) PROVE LifeInv'
  BY <1>12 DEF Answer
<1>13. ASSUME NEW a \in Apps, NEW c \in Conns, SendCall(a, c) PROVE LifeInv'
  BY <1>13 DEF SendCall
<1>14. ASSUME NEW a \in Apps, NEW c \in Conns, AppClose(a, c) PROVE LifeInv'
  BY <1>14 DEF AppClose
<1>15. ASSUME NEW t \in Conns \cup Apps, SendLock(t) PROVE LifeInv'
  BY <1>15 DEF SendLock
<1>16. ASSUME NEW t \in Conns \cup Apps, SendWritten(t) PROVE LifeInv'
  BY <1>16 DEF SendWritten, AfterSend
<1>17. ASSUME NEW t \in Conns \cup Apps, SendBroken(t) PROVE LifeInv'
  BY <1>17 DEF SendBroken
<1>18. ASSUME NEW t \in Conns \cup Apps, SendClose(t) PROVE LifeInv'
  BY <1>18 DEF SendClose, AfterSend
<1>19. ASSUME NEW t \in Threads, CloseDelete(t) PROVE LifeInv'
  BY <1>19 DEF CloseDelete, Back
<1>20. ASSUME NEW t \in Threads, CloseConn(t) PROVE LifeInv'
  BY <1>20 DEF CloseConn
<1>21. ASSUME NEW t \in Threads, CloseNotify(t) PROVE LifeInv'
  BY <1>21 DEF CloseNotify, Back
<1>22. CASE Signal
  BY <1>22 DEF Signal
<1>23. CASE ExitRange
  BY <1>23 DEF ExitRange
<1>24. ASSUME NEW c \in Conns, ExitVisit(c) PROVE LifeInv'
  BY <1>24 DEF ExitVisit
<1>25. CASE ProcessExit
  BY <1>25 DEF ProcessExit
<1>26. ASSUME NEW c \in Conns, ConnBreaks(c) PROVE LifeInv'
  BY <1>26 DEF ConnBreaks
<1>27. CASE UNCHANGED vars
  BY <1>27 DEF vars
<1>. QED
  BY <1>1, <1>2, <1>3, <1>4, <1>5, <1>6, <1>7, <1>8, <1>9, <1>10,
     <1>11, <1>12, <1>13, <1>14, <1>15, <1>16, <1>17, <1>18, <1>19, <1>20,
     <1>21, <1>22, <1>23, <1>24, <1>25, <1>26, <1>27
  DEF Next, Handler, Application, SendMessage, CloseContext, WaitElegantExit, Threads

\* LifeInv is an invariant of the server.
LEMMA LifeCorrect == Spec => []LifeInv
<1>1. Init => LifeInv
  BY ThreadAssumption
  DEF Init, LifeInv, Known, Removing, Taking, Threads, ClosePCs, SendPCs
<1>. QED
  BY <1>1, LifeStep, TypeCorrect, PTL DEF Spec

-----------------------------------------------------------------------------
(***************************************************************************)
(* The end of the process                                                  *)
(***************************************************************************)
\* From the start of Range on, a client that was not stored since is one that
\* Range has yet to visit, or is visiting.
SweepInv ==
  /\ pc[Main] \in {"sweep", "exited"} \cup ClosePCs =>
       \A c \in clients \ late :
         c \in toVisit \/ (pc[Main] = "remove" /\ target[Main] = c)
  /\ pc[Main] = "exited" => toVisit = {}

\* Every step keeps SweepInv.
LEMMA SweepStep == TypeOK /\ SweepInv /\ [Next]_vars => SweepInv'
<1>. SUFFICES ASSUME TypeOK, SweepInv, [Next]_vars PROVE SweepInv'
  OBVIOUS
<1>. USE ThreadAssumption
     DEF TypeOK, SweepInv, Threads, HandlerPCs, ClosePCs, SendPCs, Goto, Moves
<1>1. ASSUME NEW c \in Conns, Accept(c) PROVE SweepInv'
  BY <1>1 DEF Accept
<1>2. ASSUME NEW c \in Conns, HandlerStore(c) PROVE SweepInv'
  BY <1>2 DEF HandlerStore
<1>3. ASSUME NEW c \in Conns, OnAcceptReturns(c) PROVE SweepInv'
  BY <1>3 DEF OnAcceptReturns
<1>4. ASSUME NEW c \in Conns, OnAcceptPanics(c) PROVE SweepInv'
  BY <1>4 DEF OnAcceptPanics
<1>5. ASSUME NEW c \in Conns, ReadMessage(c) PROVE SweepInv'
  BY <1>5 DEF ReadMessage
<1>6. ASSUME NEW c \in Conns, ReadFails(c) PROVE SweepInv'
  BY <1>6 DEF ReadFails
<1>7. ASSUME NEW c \in Conns, ReadIdle(c) PROVE SweepInv'
  BY <1>7 DEF ReadIdle
<1>8. ASSUME NEW c \in Conns, OnIdleTimeoutReturns(c) PROVE SweepInv'
  BY <1>8 DEF OnIdleTimeoutReturns
<1>9. ASSUME NEW c \in Conns, ExtractFails(c) PROVE SweepInv'
  BY <1>9 DEF ExtractFails
<1>10. ASSUME NEW c \in Conns, DecodeFails(c) PROVE SweepInv'
  BY <1>10 DEF DecodeFails
<1>11. ASSUME NEW c \in Conns, Executed(c) PROVE SweepInv'
  BY <1>11 DEF Executed
<1>12. ASSUME NEW c \in Conns, Answer(c) PROVE SweepInv'
  BY <1>12 DEF Answer
<1>13. ASSUME NEW a \in Apps, NEW c \in Conns, SendCall(a, c) PROVE SweepInv'
  BY <1>13 DEF SendCall
<1>14. ASSUME NEW a \in Apps, NEW c \in Conns, AppClose(a, c) PROVE SweepInv'
  BY <1>14 DEF AppClose
<1>15. ASSUME NEW t \in Conns \cup Apps, SendLock(t) PROVE SweepInv'
  BY <1>15 DEF SendLock
<1>16. ASSUME NEW t \in Conns \cup Apps, SendWritten(t) PROVE SweepInv'
  BY <1>16 DEF SendWritten, AfterSend
<1>17. ASSUME NEW t \in Conns \cup Apps, SendBroken(t) PROVE SweepInv'
  BY <1>17 DEF SendBroken
<1>18. ASSUME NEW t \in Conns \cup Apps, SendClose(t) PROVE SweepInv'
  BY <1>18 DEF SendClose, AfterSend
<1>19. ASSUME NEW t \in Threads, CloseDelete(t) PROVE SweepInv'
  BY <1>19 DEF CloseDelete, Back
<1>20. ASSUME NEW t \in Threads, CloseConn(t) PROVE SweepInv'
  BY <1>20 DEF CloseConn
<1>21. ASSUME NEW t \in Threads, CloseNotify(t) PROVE SweepInv'
  BY <1>21 DEF CloseNotify, Back
<1>22. CASE Signal
  BY <1>22 DEF Signal
<1>23. CASE ExitRange
  BY <1>23 DEF ExitRange
<1>24. ASSUME NEW c \in Conns, ExitVisit(c) PROVE SweepInv'
  BY <1>24 DEF ExitVisit
<1>25. CASE ProcessExit
  BY <1>25 DEF ProcessExit
<1>26. ASSUME NEW c \in Conns, ConnBreaks(c) PROVE SweepInv'
  BY <1>26 DEF ConnBreaks
<1>27. CASE UNCHANGED vars
  BY <1>27 DEF vars
<1>. QED
  BY <1>1, <1>2, <1>3, <1>4, <1>5, <1>6, <1>7, <1>8, <1>9, <1>10,
     <1>11, <1>12, <1>13, <1>14, <1>15, <1>16, <1>17, <1>18, <1>19, <1>20,
     <1>21, <1>22, <1>23, <1>24, <1>25, <1>26, <1>27
  DEF Next, Handler, Application, SendMessage, CloseContext, WaitElegantExit, Threads

\* When the process ends, OnClose has been called, or is being called by a
\* goroutine that is cut short, for every connection stored before the exit.
THEOREM ExitTellsAll == Spec => []ExitNotifies
<1>1. Init => SweepInv
  BY ThreadAssumption DEF Init, SweepInv, Threads, ClosePCs
<1>2. LifeInv /\ SweepInv => ExitNotifies
  BY DEF LifeInv, SweepInv, ExitNotifies
<1>. QED
  BY <1>1, <1>2, SweepStep, LifeCorrect, TypeCorrect, PTL DEF Spec

-----------------------------------------------------------------------------
(***************************************************************************)
(* The server implements Sessions                                          *)
(***************************************************************************)
Held == {c \in Conns : sock[c] \in {"open", "broken"}}

\* A step after which each connection is where it was, and is open if it was,
\* is no step of Sessions.
LEMMA NoSessionStep ==
  ASSUME clients' = clients, closes' = closes,
         \A c \in Conns : sock'[c] = sock[c] \/ {sock[c], sock'[c]} = {"open", "broken"},
         \A c \in Conns : Removing(c)' <=> Removing(c)
  PROVE  UNCHANGED S!vars
<1>1. sessionPhase' = sessionPhase
  BY DEF sessionPhase
<1>2. Held' = Held
  BY DEF Held
<1>. QED
  BY <1>1, <1>2 DEF S!vars, Held

\* Where a step takes one connection the others stay.
LEMMA PhaseOfOne ==
  ASSUME NEW c \in Conns,
         \A d \in Conns \ {c} :
           /\ d \in clients' <=> d \in clients
           /\ closes'[d] = closes[d] /\ sock'[d] = sock[d]
           /\ Removing(d)' <=> Removing(d)
  PROVE  sessionPhase' = [sessionPhase EXCEPT ![c] = sessionPhase'[c]]
BY DEF sessionPhase

\* A socket that is closed while its connection is known was closed before, or
\* is hung up.
LEMMA HangupStep ==
  ASSUME TypeOK, LifeInv, NEW c \in Conns, Known(c),
         sock' = [sock EXCEPT ![c] = "closed"],
         clients' = clients, closes' = closes,
         \A d \in Conns : Removing(d)' <=> Removing(d)
  PROVE  [S!Next]_(S!vars)
<1>1. sock[c] # "none"
  BY DEF LifeInv, Known
<1>2. CASE closes[c] = 1
  BY <1>2, NoSessionStep DEF LifeInv, TypeOK
<1>3. CASE closes[c] = 0
  <2>1. sessionPhase[c] \in {"live", "closing"} /\ sessionPhase' = sessionPhase
    BY <1>1, <1>3 DEF TypeOK, LifeInv, sessionPhase
  <2>2. S!Hangup(c)
    BY <2>1 DEF TypeOK, S!Hangup
  <2>. QED
    BY <2>2 DEF S!Next
<1>. QED
  BY <1>2, <1>3 DEF LifeInv

\* Every step of the server is a step of Sessions or none.
LEMMA SessionStep ==
  ASSUME TypeOK, LifeInv, TypeOK', LifeInv', [Next]_vars
  PROVE  [S!Next]_(S!vars)
<1>. USE ThreadAssumption
     DEF TypeOK, Known, Removing, Taking, Threads, HandlerPCs, ClosePCs, SendPCs,
         Goto, Moves
<1>1. ASSUME NEW c \in Conns, OnAcceptReturns(c) PROVE UNCHANGED S!vars
  BY <1>1, NoSessionStep DEF OnAcceptReturns
<1>2. ASSUME NEW c \in Conns, OnAcceptPanics(c) PROVE UNCHANGED S!vars
  BY <1>2, NoSessionStep DEF OnAcceptPanics
<1>3. ASSUME NEW c \in Conns, ReadMessage(c) PROVE UNCHANGED S!vars
  BY <1>3, NoSessionStep DEF ReadMessage
<1>4. ASSUME NEW c \in Conns, ReadFails(c) PROVE UNCHANGED S!vars
  BY <1>4, NoSessionStep DEF ReadFails
<1>5. ASSUME NEW c \in Conns, ReadIdle(c) PROVE UNCHANGED S!vars
  BY <1>5, NoSessionStep DEF ReadIdle
<1>6. ASSUME NEW c \in Conns, OnIdleTimeoutReturns(c) PROVE UNCHANGED S!vars
  BY <1>6, NoSessionStep DEF OnIdleTimeoutReturns
<1>7. ASSUME NEW c \in Conns, DecodeFails(c) PROVE UNCHANGED S!vars
  BY <1>7, NoSessionStep DEF DecodeFails
<1>8. ASSUME NEW c \in Conns, Executed(c) PROVE UNCHANGED S!vars
  BY <1>8, NoSessionStep DEF Executed
<1>9. ASSUME NEW c \in Conns, Answer(c) PROVE UNCHANGED S!vars
  BY <1>9, NoSessionStep DEF Answer
<1>10. ASSUME NEW a \in Apps, NEW c \in Conns, SendCall(a, c) PROVE UNCHANGED S!vars
  BY <1>10, NoSessionStep DEF SendCall
<1>11. ASSUME NEW a \in Apps, NEW c \in Conns, AppClose(a, c) PROVE UNCHANGED S!vars
  BY <1>11, NoSessionStep DEF AppClose
<1>12. ASSUME NEW t \in Conns \cup Apps, SendLock(t) PROVE UNCHANGED S!vars
  BY <1>12, NoSessionStep DEF SendLock
<1>13. ASSUME NEW t \in Conns \cup Apps, SendWritten(t) PROVE UNCHANGED S!vars
  BY <1>13, NoSessionStep DEF SendWritten, AfterSend
<1>14. ASSUME NEW t \in Conns \cup Apps, SendBroken(t) PROVE UNCHANGED S!vars
  BY <1>14, NoSessionStep DEF SendBroken
<1>15. CASE Signal
  BY <1>15, NoSessionStep DEF Signal
<1>16. CASE ExitRange
  BY <1>16, NoSessionStep DEF ExitRange
<1>17. ASSUME NEW c \in Conns, ExitVisit(c) PROVE UNCHANGED S!vars
  BY <1>17, NoSessionStep DEF ExitVisit
<1>18. CASE ProcessExit
  BY <1>18, NoSessionStep DEF ProcessExit
<1>19. ASSUME NEW c \in Conns, ConnBreaks(c) PROVE UNCHANGED S!vars
  BY <1>19, NoSessionStep DEF ConnBreaks
<1>20. ASSUME NEW c \in Conns, Accept(c) PROVE S!Next
  <2>1. sessionPhase[c] = "none" /\ sessionPhase'[c] = "accepted"
    BY <1>20 DEF Accept, LifeInv, sessionPhase
  <2>2. sessionPhase' = [sessionPhase EXCEPT ![c] = "accepted"]
    BY <1>20, <2>1, PhaseOfOne DEF Accept
  <2>3. S!Connect(c)
    BY <1>20, <2>1, <2>2 DEF Accept, S!Connect, S!Step
  <2>. QED
    BY <2>3 DEF S!Next
<1>21. ASSUME NEW c \in Conns, HandlerStore(c) PROVE S!Next
  <2>1. sessionPhase[c] = "accepted" /\ sessionPhase'[c] = "live"
    BY <1>21 DEF HandlerStore, LifeInv, sessionPhase
  <2>2. sessionPhase' = [sessionPhase EXCEPT ![c] = "live"]
    BY <1>21, <2>1, PhaseOfOne DEF HandlerStore
  <2>3. S!Register(c)
    BY <1>21, <2>1, <2>2 DEF HandlerStore, S!Register, S!Step
  <2>. QED
    BY <2>3 DEF S!Next
<1>22. ASSUME NEW c \in Conns, ExtractFails(c) PROVE [S!Next]_(S!vars)
  <2>1. Known(c) /\ \A d \in Conns : Removing(d)' <=> Removing(d)
    BY <1>22 DEF ExtractFails
  <2>. QED
    BY <1>22, <2>1, HangupStep DEF ExtractFails
<1>23. ASSUME NEW t \in Conns \cup Apps, SendClose(t) PROVE [S!Next]_(S!vars)
  <2>1. PICK c \in Conns : c = target[t]
    BY <1>23 DEF SendClose
  <2>2. Known(c) /\ \A d \in Conns : Removing(d)' <=> Removing(d)
    BY <1>23, <2>1 DEF SendClose, AfterSend, LifeInv
  <2>. QED
    BY <1>23, <2>1, <2>2, HangupStep DEF SendClose
<1>24. ASSUME NEW t \in Threads, CloseConn(t) PROVE [S!Next]_(S!vars)
  <2>1. PICK c \in Conns : c = target[t]
    BY <1>24 DEF CloseConn
  <2>2. Known(c) /\ \A d \in Conns : Removing(d)' <=> Removing(d)
    BY <1>24, <2>1 DEF CloseConn, LifeInv
  <2>. QED
    BY <1>24, <2>1, <2>2, HangupStep DEF CloseConn
<1>25. ASSUME NEW t \in Threads, CloseDelete(t), target[t] \in clients PROVE S!Next
  <2>1. PICK c \in Conns : c = target[t]
    BY <1>25 DEF CloseDelete
  <2>2. sessionPhase[c] = "live" /\ Removing(c)'
    BY <1>25, <2>1 DEF CloseDelete, LifeInv, sessionPhase
  <2>3. sessionPhase'[c] = "closing"
    BY <1>25, <2>1, <2>2 DEF CloseDelete, LifeInv, sessionPhase
  <2>4. sessionPhase' = [sessionPhase EXCEPT ![c] = "closing"]
    BY <1>25, <2>1, <2>3, PhaseOfOne DEF CloseDelete
  <2>5. S!Remove(c)
    BY <1>25, <2>1, <2>2, <2>4 DEF CloseDelete, S!Remove, S!Step
  <2>. QED
    BY <2>5 DEF S!Next
<1>26. ASSUME NEW t \in Threads, CloseDelete(t), target[t] \notin clients
       PROVE  UNCHANGED S!vars
  BY <1>26, NoSessionStep DEF CloseDelete, Back
<1>27. ASSUME NEW t \in Threads, CloseNotify(t) PROVE S!Next
  <2>1. PICK c \in Conns : c = target[t]
    BY <1>27 DEF CloseNotify
  <2>2. sock[c] = "closed" /\ sessionPhase[c] = "closing"
    BY <1>27, <2>1 DEF CloseNotify, LifeInv, sessionPhase
  <2>3. sessionPhase'[c] = "closed"
    BY <1>27, <2>1 DEF CloseNotify, LifeInv, sessionPhase
  <2>4. sessionPhase' = [sessionPhase EXCEPT ![c] = "closed"]
    BY <1>27, <2>1, <2>3, PhaseOfOne DEF CloseNotify, Back
  <2>5. S!OnClose(c)
    BY <1>27, <2>1, <2>2, <2>4 DEF CloseNotify, S!OnClose, S!Step
  <2>. QED
    BY <2>5 DEF S!Next
<1>28. CASE UNCHANGED vars
  BY <1>28, NoSessionStep DEF vars
<1>. QED
  BY <1>1, <1>2, <1>3, <1>4, <1>5, <1>6, <1>7, <1>8, <1>9, <1>10,
     <1>11, <1>12, <1>13, <1>14, <1>15, <1>16, <1>17, <1>18, <1>19, <1>20,
     <1>21, <1>22, <1>23, <1>24, <1>25, <1>26, <1>27, <1>28
  DEF Next, Handler, Application, SendMessage, CloseContext, WaitElegantExit, Threads

\* The server treats its connections as Sessions says.
THEOREM SessionsImplemented == Spec => ImplementsSessions
<1>1. Init => S!Init
  <2>. SUFFICES ASSUME Init PROVE S!Init
    OBVIOUS
  <2>1. \A c \in Conns : ~Removing(c)
    BY ThreadAssumption DEF Init, Threads, Removing
  <2>. QED
    BY <2>1 DEF Init, S!Init, sessionPhase
<1>2. TypeOK /\ LifeInv /\ TypeOK' /\ LifeInv' /\ [Next]_vars => [S!Next]_(S!vars)
  BY SessionStep
<1>. QED
  BY <1>1, <1>2, LifeCorrect, TypeCorrect, PTL DEF Spec, ImplementsSessions, S!Spec

\* What Sessions promises of the end of a session: it has been told once, and
\* the socket is closed, exactly when the session is closed.
LEMMA SessionEnd == S!Spec => []S!EndToldOnce
<1>. DEFINE sockets == {c \in Conns : sock[c] \in {"open", "broken"}}
            End(c) == \/ closes[c] = 0 /\ sessionPhase[c] # "closed"
                      \/ closes[c] = 1 /\ sessionPhase[c] = "closed" /\ c \notin sockets
            EndInv == /\ closes = [c \in Conns |-> closes[c]]
                      /\ \A c \in Conns : End(c)
<1>1. DOMAIN sessionPhase = Conns
  BY DEF sessionPhase
<1>2. DOMAIN sessionPhase' = Conns
  BY DEF sessionPhase
<1>3. S!Init => EndInv
  BY DEF S!Init
<1>4. ASSUME EndInv, [S!Next]_(S!vars) PROVE EndInv'
  <2>. HIDE DEF sockets
  <2>1. ASSUME NEW c \in Conns, S!Connect(c) PROVE EndInv'
    BY <1>1, <1>4, <2>1 DEF S!Connect, S!Step, sockets
  <2>2. ASSUME NEW c \in Conns, S!Register(c) PROVE EndInv'
    BY <1>1, <1>4, <2>2 DEF S!Register, S!Step, sockets
  <2>3. ASSUME NEW c \in Conns, S!Hangup(c) PROVE EndInv'
    BY <1>1, <1>4, <2>3 DEF S!Hangup, sockets
  <2>4. ASSUME NEW c \in Conns, S!Remove(c) PROVE EndInv'
    BY <1>1, <1>4, <2>4 DEF S!Remove, S!Step, sockets
  <2>5. ASSUME NEW c \in Conns, S!OnClose(c) PROVE EndInv'
    BY <1>1, <1>4, <2>5 DEF S!OnClose, S!Step, sockets
  <2>6. CASE UNCHANGED S!vars
    BY <1>4, <2>6 DEF S!vars, sockets
  <2>. QED
    BY <1>4, <2>1, <2>2, <2>3, <2>4, <2>5, <2>6 DEF S!Next
<1>5. EndInv => S!EndToldOnce
  BY DEF S!EndToldOnce
<1>. HIDE DEF EndInv
<1>. QED
  BY <1>3, <1>4, <1>5, PTL DEF S!Spec

\* The WebSocket server calls OnClose once at most for a connection, and has
\* closed its socket by then, however many goroutines end it at once.
THEOREM OnCloseOnce == Spec => []S!EndToldOnce
BY SessionsImplemented, SessionEnd, PTL DEF ImplementsSessions

=============================================================================
