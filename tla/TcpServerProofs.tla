--------------------------- MODULE TcpServerProofs ---------------------------
(***************************************************************************)
(* Proofs about TcpServer, for any sets of connections and of application  *)
(* goroutines.  The life of a connection (LifeInv) is that of a token: in  *)
(* clients, then with the one goroutine that took it out, then spent by    *)
(* OnClose.  SweepInv adds what OnSystemExit has yet to visit.             *)
(***************************************************************************)
EXTENDS TcpServer, TLAPS

-----------------------------------------------------------------------------
(***************************************************************************)
(* Types                                                                   *)
(***************************************************************************)
\* Every step keeps every variable in its type.
LEMMA TypeStep == TypeOK /\ [Next]_vars => TypeOK'
<1>. SUFFICES ASSUME TypeOK, [Next]_vars PROVE TypeOK'
  OBVIOUS
<1>. USE ThreadAssumption
     DEF TypeOK, Threads, HandlerPCs, RemovePCs, SendPCs, Goto, Moves, conn
<1>1. CASE AcceptHead
  BY <1>1 DEF AcceptHead
<1>2. ASSUME NEW c \in Conns, AcceptConn(c) PROVE TypeOK'
  BY <1>2 DEF AcceptConn
<1>3. CASE AcceptError
  BY <1>3 DEF AcceptError
<1>4. ASSUME NEW c \in Conns, HandlerAdd(c) PROVE TypeOK'
  BY <1>4 DEF HandlerAdd
<1>5. ASSUME NEW c \in Conns, OnAcceptReturns(c) PROVE TypeOK'
  BY <1>5 DEF OnAcceptReturns
<1>6. ASSUME NEW c \in Conns, OnAcceptPanics(c) PROVE TypeOK'
  BY <1>6 DEF OnAcceptPanics
<1>7. ASSUME NEW c \in Conns, HandlerHead(c) PROVE TypeOK'
  BY <1>7 DEF HandlerHead
<1>8. ASSUME NEW c \in Conns, ReadFrame(c) PROVE TypeOK'
  BY <1>8 DEF ReadFrame
<1>9. ASSUME NEW c \in Conns, ReadFails(c) PROVE TypeOK'
  BY <1>9 DEF ReadFails
<1>10. ASSUME NEW c \in Conns, ReadIdle(c) PROVE TypeOK'
  BY <1>10 DEF ReadIdle
<1>11. ASSUME NEW c \in Conns, OnIdleTimeoutReturns(c) PROVE TypeOK'
  BY <1>11 DEF OnIdleTimeoutReturns
<1>12. ASSUME NEW c \in Conns, DecodeFails(c) PROVE TypeOK'
  BY <1>12 DEF DecodeFails
<1>13. ASSUME NEW c \in Conns, Executed(c) PROVE TypeOK'
  BY <1>13 DEF Executed
<1>14. ASSUME NEW t \in Threads \ {Acceptor}, RemoveDelete(t) PROVE TypeOK'
  BY <1>14 DEF RemoveDelete, Back
<1>15. ASSUME NEW t \in Threads \ {Acceptor}, RemoveStop(t) PROVE TypeOK'
  BY <1>15 DEF RemoveStop
<1>16. ASSUME NEW t \in Threads \ {Acceptor}, RemoveClose(t) PROVE TypeOK'
  BY <1>16 DEF RemoveClose
<1>17. ASSUME NEW t \in Threads \ {Acceptor}, RemoveNotify(t) PROVE TypeOK'
  BY <1>17 DEF RemoveNotify, Back
<1>18. ASSUME NEW a \in Apps, NEW c \in Conns, AppRemove(a, c) PROVE TypeOK'
  BY <1>18 DEF AppRemove
<1>19. ASSUME NEW a \in Apps, NEW c \in Conns, AppSend(a, c) PROVE TypeOK'
  BY <1>19 DEF AppSend
<1>20. ASSUME NEW a \in Apps, SendWritten(a) PROVE TypeOK'
  BY <1>20 DEF SendWritten
<1>21. ASSUME NEW a \in Apps, SendBroken(a) PROVE TypeOK'
  BY <1>21 DEF SendBroken
<1>22. ASSUME NEW a \in Apps, SendClose(a) PROVE TypeOK'
  BY <1>22 DEF SendClose
<1>23. ASSUME NEW a \in Apps, SendStop(a) PROVE TypeOK'
  BY <1>23 DEF SendStop
<1>24. CASE ExitCall
  BY <1>24 DEF ExitCall
<1>25. CASE ExitUnlisten
  BY <1>25 DEF ExitUnlisten
<1>26. CASE ExitRange
  BY <1>26 DEF ExitRange
<1>27. ASSUME NEW c \in Conns, ExitVisit(c) PROVE TypeOK'
  BY <1>27 DEF ExitVisit
<1>28. CASE ExitReturns
  BY <1>28 DEF ExitReturns
<1>29. ASSUME NEW c \in Conns, NetworkBreaks(c) PROVE TypeOK'
  BY <1>29 DEF NetworkBreaks
<1>30. CASE UNCHANGED vars
  BY <1>30 DEF vars
<1>. QED
  BY <1>1, <1>2, <1>3, <1>4, <1>5, <1>6, <1>7, <1>8, <1>9, <1>10, <1>11, <1>12,
     <1>13, <1>14, <1>15, <1>16, <1>17, <1>18, <1>19, <1>20, <1>21, <1>22,
     <1>23, <1>24, <1>25, <1>26, <1>27, <1>28, <1>29, <1>30
  DEF Next, Accept, HandleConnection, RemoveConnect, Application, SendMessage,
      OnSystemExit, Threads

\* Every variable keeps its type and a handler works on its own connection.
THEOREM TypeCorrect == Spec => []TypeOK
<1>1. Init => TypeOK
  <2>. SUFFICES ASSUME Init PROVE TypeOK
    OBVIOUS
  <2>1. /\ \A c \in Conns : pc[c] = "off" /\ target[c] = c
        /\ \A a \in Apps : pc[a] = "idle" /\ target[a] = Acceptor
        /\ pc[Acceptor] = "loop"
        /\ pc[Exit] = "idle"
        /\ target[Acceptor] = Acceptor
        /\ target[Exit] = Acceptor
    BY ThreadAssumption DEF Init, Threads
  <2>2. target \in [Threads -> Conns \cup {Acceptor}]
    BY DEF Init
  <2>3. \A t \in Threads : pc[t] \notin RemovePCs \cup SendPCs
    BY <2>1 DEF Threads, RemovePCs, SendPCs
  <2>. QED
    BY <2>1, <2>2, <2>3 DEF Init, TypeOK, HandlerPCs
<1>. QED
  BY <1>1, TypeStep, PTL DEF Spec

-----------------------------------------------------------------------------
(***************************************************************************)
(* The life of a connection                                                *)
(***************************************************************************)
\* A connection is in clients, or one goroutine took it out and OnClose is yet
\* to be called, or OnClose was called once; and it is closed by then.
LifeInv ==
  /\ \A c \in Conns : sock[c] = "none" => pc[c] = "off"
  /\ \A c \in Conns : ~Known(c) => c \notin clients /\ closes[c] = 0 /\ ~Removing(c)
  /\ \A a \in Apps \cup {Exit} : pc[a] \in RemovePCs \cup SendPCs => Known(target[a])
  /\ toVisit \subseteq {c \in Conns : Known(c)}
  /\ \A c \in clients : closes[c] = 0
  /\ \A t, u \in Threads : Taking(t) /\ Taking(u) /\ target[t] = target[u] => t = u
  /\ \A t \in Threads : Taking(t) => target[t] \notin clients /\ closes[target[t]] = 0
  /\ \A t \in Threads : pc[t] = "onclose" => sock[target[t]] = "closed"
  /\ \A c \in Conns : closes[c] = 0 \/ (closes[c] = 1 /\ sock[c] = "closed")
  /\ \A c \in Conns : Known(c) => c \in clients \/ Removing(c) \/ closes[c] = 1

\* Every step keeps LifeInv.
LEMMA LifeStep == TypeOK /\ LifeInv /\ [Next]_vars => LifeInv'
<1>. SUFFICES ASSUME TypeOK, LifeInv, [Next]_vars PROVE LifeInv'
  OBVIOUS
<1>. USE ThreadAssumption
     DEF TypeOK, LifeInv, Known, Removing, Taking, Threads, HandlerPCs, RemovePCs,
         SendPCs, Goto, Moves, conn
<1>1. CASE AcceptHead
  BY <1>1 DEF AcceptHead
<1>2. ASSUME NEW c \in Conns, AcceptConn(c) PROVE LifeInv'
  BY <1>2 DEF AcceptConn
<1>3. CASE AcceptError
  BY <1>3 DEF AcceptError
<1>4. ASSUME NEW c \in Conns, HandlerAdd(c) PROVE LifeInv'
  BY <1>4 DEF HandlerAdd
<1>5. ASSUME NEW c \in Conns, OnAcceptReturns(c) PROVE LifeInv'
  BY <1>5 DEF OnAcceptReturns
<1>6. ASSUME NEW c \in Conns, OnAcceptPanics(c) PROVE LifeInv'
  BY <1>6 DEF OnAcceptPanics
<1>7. ASSUME NEW c \in Conns, HandlerHead(c) PROVE LifeInv'
  BY <1>7 DEF HandlerHead
<1>8. ASSUME NEW c \in Conns, ReadFrame(c) PROVE LifeInv'
  BY <1>8 DEF ReadFrame
<1>9. ASSUME NEW c \in Conns, ReadFails(c) PROVE LifeInv'
  BY <1>9 DEF ReadFails
<1>10. ASSUME NEW c \in Conns, ReadIdle(c) PROVE LifeInv'
  BY <1>10 DEF ReadIdle
<1>11. ASSUME NEW c \in Conns, OnIdleTimeoutReturns(c) PROVE LifeInv'
  BY <1>11 DEF OnIdleTimeoutReturns
<1>12. ASSUME NEW c \in Conns, DecodeFails(c) PROVE LifeInv'
  BY <1>12 DEF DecodeFails
<1>13. ASSUME NEW c \in Conns, Executed(c) PROVE LifeInv'
  BY <1>13 DEF Executed
<1>14. ASSUME NEW t \in Threads \ {Acceptor}, RemoveDelete(t) PROVE LifeInv'
  BY <1>14 DEF RemoveDelete, Back
<1>15. ASSUME NEW t \in Threads \ {Acceptor}, RemoveStop(t) PROVE LifeInv'
  BY <1>15 DEF RemoveStop
<1>16. ASSUME NEW t \in Threads \ {Acceptor}, RemoveClose(t) PROVE LifeInv'
  BY <1>16 DEF RemoveClose
<1>17. ASSUME NEW t \in Threads \ {Acceptor}, RemoveNotify(t) PROVE LifeInv'
  BY <1>17 DEF RemoveNotify, Back
<1>18. ASSUME NEW a \in Apps, NEW c \in Conns, AppRemove(a, c) PROVE LifeInv'
  BY <1>18 DEF AppRemove
<1>19. ASSUME NEW a \in Apps, NEW c \in Conns, AppSend(a, c) PROVE LifeInv'
  BY <1>19 DEF AppSend
<1>20. ASSUME NEW a \in Apps, SendWritten(a) PROVE LifeInv'
  BY <1>20 DEF SendWritten
<1>21. ASSUME NEW a \in Apps, SendBroken(a) PROVE LifeInv'
  BY <1>21 DEF SendBroken
<1>22. ASSUME NEW a \in Apps, SendClose(a) PROVE LifeInv'
  BY <1>22 DEF SendClose
<1>23. ASSUME NEW a \in Apps, SendStop(a) PROVE LifeInv'
  BY <1>23 DEF SendStop
<1>24. CASE ExitCall
  BY <1>24 DEF ExitCall
<1>25. CASE ExitUnlisten
  BY <1>25 DEF ExitUnlisten
<1>26. CASE ExitRange
  BY <1>26 DEF ExitRange
<1>27. ASSUME NEW c \in Conns, ExitVisit(c) PROVE LifeInv'
  BY <1>27 DEF ExitVisit
<1>28. CASE ExitReturns
  BY <1>28 DEF ExitReturns
<1>29. ASSUME NEW c \in Conns, NetworkBreaks(c) PROVE LifeInv'
  BY <1>29 DEF NetworkBreaks
<1>30. CASE UNCHANGED vars
  BY <1>30 DEF vars
<1>. QED
  BY <1>1, <1>2, <1>3, <1>4, <1>5, <1>6, <1>7, <1>8, <1>9, <1>10, <1>11, <1>12,
     <1>13, <1>14, <1>15, <1>16, <1>17, <1>18, <1>19, <1>20, <1>21, <1>22,
     <1>23, <1>24, <1>25, <1>26, <1>27, <1>28, <1>29, <1>30
  DEF Next, Accept, HandleConnection, RemoveConnect, Application, SendMessage,
      OnSystemExit, Threads

\* LifeInv is an invariant of the server.
LEMMA LifeCorrect == Spec => []LifeInv
<1>1. Init => LifeInv
  BY ThreadAssumption
  DEF Init, LifeInv, Known, Removing, Taking, Threads, RemovePCs, SendPCs
<1>. QED
  BY <1>1, LifeStep, TypeCorrect, PTL DEF Spec

\* However many goroutines end a connection at once, OnClose is called once.
THEOREM OnCloseOnce == Spec => []OneOnClose
<1>1. LifeInv => OneOnClose
  <2>. SUFFICES ASSUME LifeInv, NEW c \in Conns PROVE closes[c] <= 1
    BY DEF OneOnClose
  <2>1. closes[c] = 0 \/ closes[c] = 1
    BY DEF LifeInv
  <2>. QED
    BY <2>1
<1>. QED
  BY <1>1, LifeCorrect, PTL

\* OnClose is called on a closed connection that nobody can look up any more.
THEOREM OnCloseIsLast == Spec => []ClosedBeforeOnClose
<1>1. TypeOK /\ LifeInv => ClosedBeforeOnClose
  BY DEF TypeOK, LifeInv, ClosedBeforeOnClose
<1>. QED
  BY <1>1, LifeCorrect, TypeCorrect, PTL

-----------------------------------------------------------------------------
(***************************************************************************)
(* The end of a handler                                                    *)
(***************************************************************************)
\* A handler that ends by RemoveConnect has its connection out of clients.
LEMMA DoneStep ==
  ASSUME TypeOK, LifeInv, [Next]_vars,
         \A c \in clients : pc[c] # "done"
  PROVE  (\A c \in clients : pc[c] # "done")'
<1>. USE ThreadAssumption
     DEF TypeOK, LifeInv, Known, Taking, Threads, HandlerPCs, RemovePCs, SendPCs,
         Goto, Moves, conn
<1>1. CASE AcceptHead
  BY <1>1 DEF AcceptHead
<1>2. ASSUME NEW c \in Conns, AcceptConn(c) PROVE (\A d \in clients : pc[d] # "done")'
  BY <1>2 DEF AcceptConn
<1>3. CASE AcceptError
  BY <1>3 DEF AcceptError
<1>4. ASSUME NEW c \in Conns, HandlerAdd(c) PROVE (\A d \in clients : pc[d] # "done")'
  BY <1>4 DEF HandlerAdd
<1>5. ASSUME NEW c \in Conns, OnAcceptReturns(c) PROVE (\A d \in clients : pc[d] # "done")'
  BY <1>5 DEF OnAcceptReturns
<1>6. ASSUME NEW c \in Conns, OnAcceptPanics(c) PROVE (\A d \in clients : pc[d] # "done")'
  BY <1>6 DEF OnAcceptPanics
<1>7. ASSUME NEW c \in Conns, HandlerHead(c) PROVE (\A d \in clients : pc[d] # "done")'
  BY <1>7 DEF HandlerHead
<1>8. ASSUME NEW c \in Conns, ReadFrame(c) PROVE (\A d \in clients : pc[d] # "done")'
  BY <1>8 DEF ReadFrame
<1>9. ASSUME NEW c \in Conns, ReadFails(c) PROVE (\A d \in clients : pc[d] # "done")'
  BY <1>9 DEF ReadFails
<1>10. ASSUME NEW c \in Conns, ReadIdle(c) PROVE (\A d \in clients : pc[d] # "done")'
  BY <1>10 DEF ReadIdle
<1>11. ASSUME NEW c \in Conns, OnIdleTimeoutReturns(c) PROVE (\A d \in clients : pc[d] # "done")'
  BY <1>11 DEF OnIdleTimeoutReturns
<1>12. ASSUME NEW c \in Conns, DecodeFails(c) PROVE (\A d \in clients : pc[d] # "done")'
  BY <1>12 DEF DecodeFails
<1>13. ASSUME NEW c \in Conns, Executed(c) PROVE (\A d \in clients : pc[d] # "done")'
  BY <1>13 DEF Executed
<1>14. ASSUME NEW t \in Threads \ {Acceptor}, RemoveDelete(t) PROVE (\A d \in clients : pc[d] # "done")'
  BY <1>14 DEF RemoveDelete, Back
<1>15. ASSUME NEW t \in Threads \ {Acceptor}, RemoveStop(t) PROVE (\A d \in clients : pc[d] # "done")'
  BY <1>15 DEF RemoveStop
<1>16. ASSUME NEW t \in Threads \ {Acceptor}, RemoveClose(t) PROVE (\A d \in clients : pc[d] # "done")'
  BY <1>16 DEF RemoveClose
<1>17. ASSUME NEW t \in Threads \ {Acceptor}, RemoveNotify(t) PROVE (\A d \in clients : pc[d] # "done")'
  BY <1>17 DEF RemoveNotify, Back
<1>18. ASSUME NEW a \in Apps, NEW c \in Conns, AppRemove(a, c) PROVE (\A d \in clients : pc[d] # "done")'
  BY <1>18 DEF AppRemove
<1>19. ASSUME NEW a \in Apps, NEW c \in Conns, AppSend(a, c) PROVE (\A d \in clients : pc[d] # "done")'
  BY <1>19 DEF AppSend
<1>20. ASSUME NEW a \in Apps, SendWritten(a) PROVE (\A d \in clients : pc[d] # "done")'
  BY <1>20 DEF SendWritten
<1>21. ASSUME NEW a \in Apps, SendBroken(a) PROVE (\A d \in clients : pc[d] # "done")'
  BY <1>21 DEF SendBroken
<1>22. ASSUME NEW a \in Apps, SendClose(a) PROVE (\A d \in clients : pc[d] # "done")'
  BY <1>22 DEF SendClose
<1>23. ASSUME NEW a \in Apps, SendStop(a) PROVE (\A d \in clients : pc[d] # "done")'
  BY <1>23 DEF SendStop
<1>24. CASE ExitCall
  BY <1>24 DEF ExitCall
<1>25. CASE ExitUnlisten
  BY <1>25 DEF ExitUnlisten
<1>26. CASE ExitRange
  BY <1>26 DEF ExitRange
<1>27. ASSUME NEW c \in Conns, ExitVisit(c) PROVE (\A d \in clients : pc[d] # "done")'
  BY <1>27 DEF ExitVisit
<1>28. CASE ExitReturns
  BY <1>28 DEF ExitReturns
<1>29. ASSUME NEW c \in Conns, NetworkBreaks(c) PROVE (\A d \in clients : pc[d] # "done")'
  BY <1>29 DEF NetworkBreaks
<1>30. CASE UNCHANGED vars
  BY <1>30 DEF vars
<1>. QED
  BY <1>1, <1>2, <1>3, <1>4, <1>5, <1>6, <1>7, <1>8, <1>9, <1>10, <1>11, <1>12,
     <1>13, <1>14, <1>15, <1>16, <1>17, <1>18, <1>19, <1>20, <1>21, <1>22,
     <1>23, <1>24, <1>25, <1>26, <1>27, <1>28, <1>29, <1>30
  DEF Next, Accept, HandleConnection, RemoveConnect, Application, SendMessage,
      OnSystemExit, Threads

\* A handler that is gone leaves nothing behind, unless its OnAccept panicked.
THEOREM HandlerCleansUp == Spec => []CleanedUp
<1>. DEFINE Done == \A c \in clients : pc[c] # "done"
<1>1. Init => Done
  BY DEF Init
<1>2. TypeOK /\ LifeInv /\ Done /\ [Next]_vars => Done'
  BY DoneStep
<1>3. LifeInv /\ Done => CleanedUp
  BY DEF LifeInv, CleanedUp, Known
<1>. HIDE DEF Done
<1>. QED
  BY <1>1, <1>2, <1>3, LifeCorrect, TypeCorrect, PTL DEF Spec

-----------------------------------------------------------------------------
(***************************************************************************)
(* The exit                                                                *)
(***************************************************************************)
\* From the start of Range on, a client whose handler reads or executes a frame
\* is one that Range has yet to visit, or is visiting.
SweepInv ==
  /\ running <=> pc[Exit] = "idle"
  /\ pc[Exit] \in {"sweep", "done"} \cup RemovePCs =>
       \A c \in clients : pc[c] \in {"read", "exec"} =>
         c \in toVisit \/ (pc[Exit] = "remove" /\ target[Exit] = c)
  /\ pc[Exit] = "done" => toVisit = {}

\* Every step keeps SweepInv.
LEMMA SweepStep == TypeOK /\ SweepInv /\ [Next]_vars => SweepInv'
<1>. SUFFICES ASSUME TypeOK, SweepInv, [Next]_vars PROVE SweepInv'
  OBVIOUS
<1>. USE ThreadAssumption
     DEF TypeOK, SweepInv, Threads, HandlerPCs, RemovePCs, SendPCs, Goto, Moves, conn
<1>1. CASE AcceptHead
  BY <1>1 DEF AcceptHead
<1>2. ASSUME NEW c \in Conns, AcceptConn(c) PROVE SweepInv'
  BY <1>2 DEF AcceptConn
<1>3. CASE AcceptError
  BY <1>3 DEF AcceptError
<1>4. ASSUME NEW c \in Conns, HandlerAdd(c) PROVE SweepInv'
  BY <1>4 DEF HandlerAdd
<1>5. ASSUME NEW c \in Conns, OnAcceptReturns(c) PROVE SweepInv'
  BY <1>5 DEF OnAcceptReturns
<1>6. ASSUME NEW c \in Conns, OnAcceptPanics(c) PROVE SweepInv'
  BY <1>6 DEF OnAcceptPanics
<1>7. ASSUME NEW c \in Conns, HandlerHead(c) PROVE SweepInv'
  BY <1>7 DEF HandlerHead
<1>8. ASSUME NEW c \in Conns, ReadFrame(c) PROVE SweepInv'
  BY <1>8 DEF ReadFrame
<1>9. ASSUME NEW c \in Conns, ReadFails(c) PROVE SweepInv'
  BY <1>9 DEF ReadFails
<1>10. ASSUME NEW c \in Conns, ReadIdle(c) PROVE SweepInv'
  BY <1>10 DEF ReadIdle
<1>11. ASSUME NEW c \in Conns, OnIdleTimeoutReturns(c) PROVE SweepInv'
  BY <1>11 DEF OnIdleTimeoutReturns
<1>12. ASSUME NEW c \in Conns, DecodeFails(c) PROVE SweepInv'
  BY <1>12 DEF DecodeFails
<1>13. ASSUME NEW c \in Conns, Executed(c) PROVE SweepInv'
  BY <1>13 DEF Executed
<1>14. ASSUME NEW t \in Threads \ {Acceptor}, RemoveDelete(t) PROVE SweepInv'
  BY <1>14 DEF RemoveDelete, Back
<1>15. ASSUME NEW t \in Threads \ {Acceptor}, RemoveStop(t) PROVE SweepInv'
  BY <1>15 DEF RemoveStop
<1>16. ASSUME NEW t \in Threads \ {Acceptor}, RemoveClose(t) PROVE SweepInv'
  BY <1>16 DEF RemoveClose
<1>17. ASSUME NEW t \in Threads \ {Acceptor}, RemoveNotify(t) PROVE SweepInv'
  BY <1>17 DEF RemoveNotify, Back
<1>18. ASSUME NEW a \in Apps, NEW c \in Conns, AppRemove(a, c) PROVE SweepInv'
  BY <1>18 DEF AppRemove
<1>19. ASSUME NEW a \in Apps, NEW c \in Conns, AppSend(a, c) PROVE SweepInv'
  BY <1>19 DEF AppSend
<1>20. ASSUME NEW a \in Apps, SendWritten(a) PROVE SweepInv'
  BY <1>20 DEF SendWritten
<1>21. ASSUME NEW a \in Apps, SendBroken(a) PROVE SweepInv'
  BY <1>21 DEF SendBroken
<1>22. ASSUME NEW a \in Apps, SendClose(a) PROVE SweepInv'
  BY <1>22 DEF SendClose
<1>23. ASSUME NEW a \in Apps, SendStop(a) PROVE SweepInv'
  BY <1>23 DEF SendStop
<1>24. CASE ExitCall
  BY <1>24 DEF ExitCall
<1>25. CASE ExitUnlisten
  BY <1>25 DEF ExitUnlisten
<1>26. CASE ExitRange
  BY <1>26 DEF ExitRange
<1>27. ASSUME NEW c \in Conns, ExitVisit(c) PROVE SweepInv'
  BY <1>27 DEF ExitVisit
<1>28. CASE ExitReturns
  BY <1>28 DEF ExitReturns
<1>29. ASSUME NEW c \in Conns, NetworkBreaks(c) PROVE SweepInv'
  BY <1>29 DEF NetworkBreaks
<1>30. CASE UNCHANGED vars
  BY <1>30 DEF vars
<1>. QED
  BY <1>1, <1>2, <1>3, <1>4, <1>5, <1>6, <1>7, <1>8, <1>9, <1>10, <1>11, <1>12,
     <1>13, <1>14, <1>15, <1>16, <1>17, <1>18, <1>19, <1>20, <1>21, <1>22,
     <1>23, <1>24, <1>25, <1>26, <1>27, <1>28, <1>29, <1>30
  DEF Next, Accept, HandleConnection, RemoveConnect, Application, SendMessage,
      OnSystemExit, Threads

\* When OnSystemExit has returned, no handler is left waiting on an open
\* connection, whatever was accepted or removed meanwhile.
THEOREM ExitSweepsAll == Spec => []ExitReachesAll
<1>1. Init => SweepInv
  BY ThreadAssumption DEF Init, SweepInv, Threads, RemovePCs
<1>2. LifeInv /\ SweepInv => ExitReachesAll
  BY DEF LifeInv, SweepInv, ExitReachesAll, Known
<1>. QED
  BY <1>1, <1>2, SweepStep, LifeCorrect, TypeCorrect, PTL DEF Spec

-----------------------------------------------------------------------------
(***************************************************************************)
(* The server implements Sessions                                          *)
(***************************************************************************)
Held == {c \in Conns : sock[c] \in {"open", "broken"}}

\* A step after which each connection is where it was, and is open if it was,
\* is no step of Sessions.
LEMMA NoSessionStep ==
  ASSUME clients' = clients, closes' = closes,
         \A c \in Conns : sock'[c] = sock[c] \/ {sock[c], sock'[c]} = {"open", "broken"},
         \A c \in Conns : Removing(c)' <=> Removing(c)
  PROVE  UNCHANGED S!vars
<1>1. sessionPhase' = sessionPhase
  BY DEF sessionPhase
<1>2. Held' = Held
  BY DEF Held
<1>. QED
  BY <1>1, <1>2 DEF S!vars, Held

\* Where a step takes one connection the others stay.
LEMMA PhaseOfOne ==
  ASSUME NEW c \in Conns,
         \A d \in Conns \ {c} :
           /\ d \in clients' <=> d \in clients
           /\ closes'[d] = closes[d] /\ sock'[d] = sock[d]
           /\ Removing(d)' <=> Removing(d)
  PROVE  sessionPhase' = [sessionPhase EXCEPT ![c] = sessionPhase'[c]]
BY DEF sessionPhase

\* Every step of the server is a step of Sessions or none.
LEMMA SessionStep ==
  ASSUME TypeOK, LifeInv, TypeOK', LifeInv', [Next]_vars
  PROVE  [S!Next]_(S!vars)
<1>. USE ThreadAssumption
     DEF TypeOK, Known, Removing, Taking, Threads, HandlerPCs, RemovePCs, SendPCs,
         Goto, Moves, conn
<1>1. CASE AcceptHead
  BY <1>1, NoSessionStep DEF AcceptHead
<1>2. CASE AcceptError
  BY <1>2, NoSessionStep DEF AcceptError
<1>3. ASSUME NEW c \in Conns, OnAcceptReturns(c) PROVE UNCHANGED S!vars
  BY <1>3, NoSessionStep DEF OnAcceptReturns
<1>4. ASSUME NEW c \in Conns, OnAcceptPanics(c) PROVE UNCHANGED S!vars
  BY <1>4, NoSessionStep DEF OnAcceptPanics
<1>5. ASSUME NEW c \in Conns, HandlerHead(c) PROVE UNCHANGED S!vars
  BY <1>5, NoSessionStep DEF HandlerHead
<1>6. ASSUME NEW c \in Conns, ReadFrame(c) PROVE UNCHANGED S!vars
  BY <1>6, NoSessionStep DEF ReadFrame
<1>7. ASSUME NEW c \in Conns, ReadFails(c) PROVE UNCHANGED S!vars
  BY <1>7, NoSessionStep DEF ReadFails
<1>8. ASSUME NEW c \in Conns, ReadIdle(c) PROVE UNCHANGED S!vars
  BY <1>8, NoSessionStep DEF ReadIdle
<1>9. ASSUME NEW c \in Conns, OnIdleTimeoutReturns(c) PROVE UNCHANGED S!vars
  BY <1>9, NoSessionStep DEF OnIdleTimeoutReturns
<1>10. ASSUME NEW c \in Conns, DecodeFails(c) PROVE UNCHANGED S!vars
  BY <1>10, NoSessionStep DEF DecodeFails
<1>11. ASSUME NEW c \in Conns, Executed(c) PROVE UNCHANGED S!vars
  BY <1>11, NoSessionStep DEF Executed
<1>12. ASSUME NEW t \in Threads \ {Acceptor}, RemoveStop(t) PROVE UNCHANGED S!vars
  BY <1>12, NoSessionStep DEF RemoveStop
<1>13. ASSUME NEW a \in Apps, NEW c \in Conns, AppRemove(a, c) PROVE UNCHANGED S!vars
  BY <1>13, NoSessionStep DEF AppRemove
<1>14. ASSUME NEW a \in Apps, NEW c \in Conns, AppSend(a, c) PROVE UNCHANGED S!vars
  BY <1>14, NoSessionStep DEF AppSend
<1>15. ASSUME NEW a \in Apps, SendWritten(a) PROVE UNCHANGED S!vars
  BY <1>15, NoSessionStep DEF SendWritten
<1>16. ASSUME NEW a \in Apps, SendBroken(a) PROVE UNCHANGED S!vars
  BY <1>16, NoSessionStep DEF SendBroken
<1>17. ASSUME NEW a \in Apps, SendStop(a) PROVE UNCHANGED S!vars
  BY <1>17, NoSessionStep DEF SendStop
<1>18. CASE ExitCall
  BY <1>18, NoSessionStep DEF ExitCall
<1>19. CASE ExitUnlisten
  BY <1>19, NoSessionStep DEF ExitUnlisten
<1>20. CASE ExitRange
  BY <1>20, NoSessionStep DEF ExitRange
<1>21. ASSUME NEW c \in Conns, ExitVisit(c) PROVE UNCHANGED S!vars
  BY <1>21, NoSessionStep DEF ExitVisit
<1>22. CASE ExitReturns
  BY <1>22, NoSessionStep DEF ExitReturns
<1>23. ASSUME NEW c \in Conns, NetworkBreaks(c) PROVE UNCHANGED S!vars
  BY <1>23, NoSessionStep DEF NetworkBreaks
<1>24. ASSUME NEW c \in Conns, AcceptConn(c) PROVE S!Next
  <2>1. sessionPhase[c] = "none" /\ sessionPhase'[c] = "accepted"
    BY <1>24 DEF AcceptConn, LifeInv, sessionPhase
  <2>2. sessionPhase' = [sessionPhase EXCEPT ![c] = "accepted"]
    BY <1>24, <2>1, PhaseOfOne DEF AcceptConn
  <2>3. S!Connect(c)
    BY <1>24, <2>1, <2>2 DEF AcceptConn, S!Connect, S!Step
  <2>. QED
    BY <2>3 DEF S!Next
<1>25. ASSUME NEW c \in Conns, HandlerAdd(c) PROVE S!Next
  <2>1. sessionPhase[c] = "accepted" /\ sessionPhase'[c] = "live"
    BY <1>25 DEF HandlerAdd, LifeInv, sessionPhase
  <2>2. sessionPhase' = [sessionPhase EXCEPT ![c] = "live"]
    BY <1>25, <2>1, PhaseOfOne DEF HandlerAdd
  <2>3. S!Register(c)
    BY <1>25, <2>1, <2>2 DEF HandlerAdd, S!Register, S!Step
  <2>. QED
    BY <2>3 DEF S!Next
<1>26. ASSUME NEW t \in Threads \ {Acceptor}, RemoveDelete(t), target[t] \in clients
       PROVE  S!Next
  <2>1. PICK c \in Conns : c = target[t]
    BY <1>26 DEF RemoveDelete
  <2>2. sessionPhase[c] = "live" /\ Removing(c)'
    BY <1>26, <2>1 DEF RemoveDelete, LifeInv, sessionPhase
  <2>3. sessionPhase'[c] = "closing"
    BY <1>26, <2>1, <2>2 DEF RemoveDelete, LifeInv, sessionPhase
  <2>4. sessionPhase' = [sessionPhase EXCEPT ![c] = "closing"]
    BY <1>26, <2>1, <2>3, PhaseOfOne DEF RemoveDelete
  <2>5. S!Remove(c)
    BY <1>26, <2>1, <2>2, <2>4 DEF RemoveDelete, S!Remove, S!Step
  <2>. QED
    BY <2>5 DEF S!Next
<1>27. ASSUME NEW t \in Threads \ {Acceptor}, RemoveDelete(t), target[t] \notin clients
       PROVE  UNCHANGED S!vars
  BY <1>27, NoSessionStep DEF RemoveDelete, Back
<1>28. ASSUME NEW t \in Threads \ {Acceptor}, RemoveClose(t) PROVE S!Next
  <2>1. PICK c \in Conns : c = target[t]
    BY <1>28 DEF RemoveClose
  <2>2. \A d \in Conns : Removing(d)' <=> Removing(d)
    BY <1>28 DEF RemoveClose
  <2>3. sessionPhase[c] = "closing" /\ sessionPhase' = sessionPhase
    BY <1>28, <2>1, <2>2 DEF RemoveClose, LifeInv, sessionPhase
  <2>4. S!Hangup(c)
    BY <1>28, <2>1, <2>3 DEF RemoveClose, S!Hangup
  <2>. QED
    BY <2>4 DEF S!Next
<1>29. ASSUME NEW t \in Threads \ {Acceptor}, RemoveNotify(t) PROVE S!Next
  <2>1. PICK c \in Conns : c = target[t]
    BY <1>29 DEF RemoveNotify
  <2>2. sock[c] = "closed" /\ sessionPhase[c] = "closing"
    BY <1>29, <2>1 DEF RemoveNotify, LifeInv, sessionPhase
  <2>3. sessionPhase'[c] = "closed"
    BY <1>29, <2>1 DEF RemoveNotify, LifeInv, sessionPhase
  <2>4. sessionPhase' = [sessionPhase EXCEPT ![c] = "closed"]
    BY <1>29, <2>1, <2>3, PhaseOfOne DEF RemoveNotify, Back
  <2>5. S!OnClose(c)
    BY <1>29, <2>1, <2>2, <2>4 DEF RemoveNotify, S!OnClose, S!Step
  <2>. QED
    BY <2>5 DEF S!Next
<1>30. ASSUME NEW a \in Apps, SendClose(a) PROVE S!Next \/ UNCHANGED S!vars
  <2>1. PICK c \in Conns : c = target[a]
    BY <1>30 DEF SendClose
  <2>2. sock[c] # "none" /\ Known(c)
    BY <1>30, <2>1 DEF SendClose, LifeInv
  <2>3. \A d \in Conns : Removing(d)' <=> Removing(d)
    BY <1>30 DEF SendClose
  <2>4. CASE closes[c] = 1
    BY <1>30, <2>1, <2>3, <2>4, NoSessionStep DEF SendClose, LifeInv
  <2>5. CASE closes[c] = 0
    <3>1. sessionPhase[c] \in {"live", "closing"} /\ sessionPhase' = sessionPhase
      BY <1>30, <2>1, <2>2, <2>3, <2>5 DEF SendClose, LifeInv, sessionPhase
    <3>2. S!Hangup(c)
      BY <1>30, <2>1, <3>1 DEF SendClose, S!Hangup
    <3>. QED
      BY <3>2 DEF S!Next
  <2>. QED
    BY <2>4, <2>5 DEF LifeInv
<1>31. CASE UNCHANGED vars
  BY <1>31, NoSessionStep DEF vars
<1>. QED
  BY <1>1, <1>2, <1>3, <1>4, <1>5, <1>6, <1>7, <1>8, <1>9, <1>10, <1>11, <1>12,
     <1>13, <1>14, <1>15, <1>16, <1>17, <1>18, <1>19, <1>20, <1>21, <1>22,
     <1>23, <1>24, <1>25, <1>26, <1>27, <1>28, <1>29, <1>30, <1>31
  DEF Next, Accept, HandleConnection, RemoveConnect, Application, SendMessage,
      OnSystemExit, Threads

\* The server treats its connections as Sessions says.
THEOREM SessionsImplemented == Spec => ImplementsSessions
<1>1. Init => S!Init
  <2>. SUFFICES ASSUME Init PROVE S!Init
    OBVIOUS
  <2>1. \A t \in Threads : pc[t] \in {"off", "loop", "idle"}
    BY ThreadAssumption DEF Init, Threads
  <2>2. \A c \in Conns : ~Removing(c)
    BY <2>1 DEF Removing, Taking
  <2>. QED
    BY <2>2 DEF Init, S!Init, sessionPhase
<1>2. TypeOK /\ LifeInv /\ TypeOK' /\ LifeInv' /\ [Next]_vars => [S!Next]_(S!vars)
  BY SessionStep
<1>. QED
  BY <1>1, <1>2, LifeCorrect, TypeCorrect, PTL DEF Spec, ImplementsSessions, S!Spec

=============================================================================
