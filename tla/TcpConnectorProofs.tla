------------------------- MODULE TcpConnectorProofs -------------------------
(***************************************************************************)
(* Proofs about TcpConnector, for any sets of goroutines and sockets.      *)
(* Three inductive invariants are shown one upon the other: the types,     *)
(* then the flags and the ownership of sockets, which hold however the     *)
(* connector is used, then what one call of Connect adds.                  *)
(***************************************************************************)
EXTENDS TcpConnector, TLAPS

-----------------------------------------------------------------------------
(***************************************************************************)
(* Types                                                                   *)
(***************************************************************************)
\* Every step keeps every variable in its type and every used socket non-nil.
LEMMA TypeStep == TypeOK /\ [Next]_vars => TypeOK'
<1>. SUFFICES ASSUME TypeOK, [Next]_vars PROVE TypeOK'
  OBVIOUS
<1>. USE ThreadAssumption, ConnAssumption, OptionAssumption
     DEF TypeOK, Threads, Callers, CallerPCs, ReaderPCs, UsesSocket, Goto, Moves, Hold,
         flags, link, Closing
<1>1. ASSUME NEW t \in Dialers, ConnectCall(t) PROVE TypeOK'
  BY <1>1 DEF ConnectCall
<1>2. ASSUME NEW t \in Dialers, ConnectDialed(t) PROVE TypeOK'
  BY <1>2 DEF ConnectDialed, DialOnce
<1>3. ASSUME NEW t \in Dialers, ConnectFailed(t) PROVE TypeOK'
  BY <1>3 DEF ConnectFailed
<1>4. ASSUME NEW t \in Dialers, ConnectStore(t) PROVE TypeOK'
  BY <1>4 DEF ConnectStore
<1>5. ASSUME NEW t \in Dialers, ConnectStart(t) PROVE TypeOK'
  BY <1>5 DEF ConnectStart
<1>6. ASSUME NEW t \in Senders, SendCall(t) PROVE TypeOK'
  BY <1>6 DEF SendCall
<1>7. ASSUME NEW t \in Senders, SendSnapshot(t) PROVE TypeOK'
  BY <1>7 DEF SendSnapshot
<1>8. ASSUME NEW t \in Senders, SendDeadline(t) PROVE TypeOK'
  BY <1>8 DEF SendDeadline
<1>9. ASSUME NEW t \in Senders, SendLock(t) PROVE TypeOK'
  BY <1>9 DEF SendLock
<1>10. ASSUME NEW t \in Senders, SendWritten(t) PROVE TypeOK'
  BY <1>10 DEF SendWritten
<1>11. ASSUME NEW t \in Senders, SendBroken(t) PROVE TypeOK'
  BY <1>11 DEF SendBroken
<1>12. ASSUME NEW t \in Senders, SendFail(t) PROVE TypeOK'
  BY <1>12 DEF SendFail, IsCurrent
<1>13. ASSUME NEW t \in Senders, SendClear(t) PROVE TypeOK'
  BY <1>13 DEF SendClear
<1>14. ASSUME NEW t \in Closers \cup {Reader}, CloseCall(t) PROVE TypeOK'
  BY <1>14 DEF CloseCall
<1>15. ASSUME NEW t \in Closers \cup {Reader}, CloseCancel(t) PROVE TypeOK'
  BY <1>15 DEF CloseCancel
<1>16. ASSUME NEW t \in Closers \cup {Reader}, CloseShut(t) PROVE TypeOK'
  BY <1>16 DEF CloseShut
<1>17. CASE LoopHead
  BY <1>17 DEF LoopHead
<1>18. CASE LoopSnapshot
  BY <1>18 DEF LoopSnapshot
<1>19. CASE ReadTimeout
  BY <1>19 DEF ReadTimeout
<1>20. CASE ReadFrame
  BY <1>20 DEF ReadFrame
<1>21. CASE ReadBroken
  BY <1>21 DEF ReadBroken, ReadClose
<1>22. CASE ReadProtocolError
  BY <1>22 DEF ReadProtocolError, ReadClose
<1>23. CASE ReadUndecodable
  BY <1>23 DEF ReadUndecodable, ReadClose
<1>24. CASE ReadPanic
  BY <1>24 DEF ReadPanic
<1>25. CASE HandlerReturns
  BY <1>25 DEF HandlerReturns
<1>26. CASE DropFailed
  BY <1>26 DEF DropFailed, Drop, IsCurrent
<1>27. CASE DropUndecodable
  BY <1>27 DEF DropUndecodable, Drop, IsCurrent
<1>28. CASE ReaderExit
  BY <1>28 DEF ReaderExit
<1>29. CASE ReconnectEnter
  BY <1>29 DEF ReconnectEnter
<1>30. CASE ReconnectRefused
  BY <1>30 DEF ReconnectRefused
<1>31. CASE RedialCall
  BY <1>31 DEF RedialCall
<1>32. CASE RedialStopped
  BY <1>32 DEF RedialStopped, ReconnectReturn
<1>33. CASE RedialDialed
  BY <1>33 DEF RedialDialed, DialOnce
<1>34. CASE RedialFailed
  BY <1>34 DEF RedialFailed
<1>35. CASE Install
  BY <1>35 DEF Install
<1>36. CASE Retire
  BY <1>36 DEF Retire, ReconnectReturn
<1>37. CASE BackoffElapsed
  BY <1>37 DEF BackoffElapsed
<1>38. CASE BackoffCancelled
  BY <1>38 DEF BackoffCancelled, ReconnectReturn
<1>39. ASSUME NEW x \in Conns, NetworkBreaks(x) PROVE TypeOK'
  BY <1>39 DEF NetworkBreaks
<1>40. CASE UNCHANGED vars
  BY <1>40 DEF vars
<1>. QED
  BY <1>1, <1>2, <1>3, <1>4, <1>5, <1>6, <1>7, <1>8, <1>9, <1>10, <1>11, <1>12,
     <1>13, <1>14, <1>15, <1>16, <1>17, <1>18, <1>19, <1>20, <1>21, <1>22,
     <1>23, <1>24, <1>25, <1>26, <1>27, <1>28, <1>29, <1>30, <1>31, <1>32,
     <1>33, <1>34, <1>35, <1>36, <1>37, <1>38, <1>39, <1>40
  DEF Next, Connect, SendMessage, Close, ReadLoop, ReadStep, Reconnect

\* The connector never uses a nil socket and every variable keeps its type.
THEOREM TypeCorrect == Spec => []TypeOK
<1>1. Init => TypeOK
  <2>. SUFFICES ASSUME Init PROVE TypeOK
    OBVIOUS
  <2>1. \A t \in Threads : pc[t] = IF t = Reader THEN "off" ELSE "idle"
    BY DEF Init
  <2>2. \A t \in Threads : pc[t] \in CallerPCs \cup ReaderPCs /\ pc[t] \notin UsesSocket
    BY <2>1 DEF CallerPCs, ReaderPCs, UsesSocket
  <2>3. (\A t \in Callers : pc[t] \in CallerPCs) /\ pc[Reader] \in ReaderPCs
    BY <2>1, ThreadAssumption DEF CallerPCs, ReaderPCs, Threads
  <2>4. pc \in [Threads -> CallerPCs \cup ReaderPCs]
    BY <2>2 DEF Init
  <2>. QED
    BY <2>2, <2>3, <2>4 DEF Init, TypeOK
<1>. QED
  BY <1>1, TypeStep, PTL DEF Spec

-----------------------------------------------------------------------------
(***************************************************************************)
(* Flags                                                                   *)
(***************************************************************************)
\* reconning is set inside reconnectWithBackoff only, and whoever is past the
\* compare-and-swap of Close, or past readLoop, left running clear.  readLoop
\* is not running before startOnce has fired.
FlagInv ==
  /\ reconning => pc[Reader] \in {"redial", "redialing", "install", "retire", "backoff"}
  /\ \A t \in Threads : pc[t] \in {"cancel", "shut", "done"} => ~running
  /\ ~started => pc[Reader] = "off"

\* Every step keeps FlagInv.
LEMMA FlagStep == TypeOK /\ FlagInv /\ [Next]_vars => FlagInv'
<1>. SUFFICES ASSUME TypeOK, FlagInv, [Next]_vars PROVE FlagInv'
  OBVIOUS
<1>. USE ThreadAssumption
     DEF TypeOK, FlagInv, Threads, Callers, CallerPCs, ReaderPCs, Goto, Moves, flags
<1>1. ASSUME NEW t \in Dialers, ConnectCall(t) PROVE FlagInv'
  BY <1>1 DEF ConnectCall
<1>2. ASSUME NEW t \in Dialers, ConnectDialed(t) PROVE FlagInv'
  BY <1>2 DEF ConnectDialed
<1>3. ASSUME NEW t \in Dialers, ConnectFailed(t) PROVE FlagInv'
  BY <1>3 DEF ConnectFailed
<1>4. ASSUME NEW t \in Dialers, ConnectStore(t) PROVE FlagInv'
  BY <1>4 DEF ConnectStore
<1>5. ASSUME NEW t \in Dialers, ConnectStart(t) PROVE FlagInv'
  BY <1>5 DEF ConnectStart
<1>6. ASSUME NEW t \in Senders, SendCall(t) PROVE FlagInv'
  BY <1>6 DEF SendCall
<1>7. ASSUME NEW t \in Senders, SendSnapshot(t) PROVE FlagInv'
  BY <1>7 DEF SendSnapshot
<1>8. ASSUME NEW t \in Senders, SendDeadline(t) PROVE FlagInv'
  BY <1>8 DEF SendDeadline
<1>9. ASSUME NEW t \in Senders, SendLock(t) PROVE FlagInv'
  BY <1>9 DEF SendLock
<1>10. ASSUME NEW t \in Senders, SendWritten(t) PROVE FlagInv'
  BY <1>10 DEF SendWritten
<1>11. ASSUME NEW t \in Senders, SendBroken(t) PROVE FlagInv'
  BY <1>11 DEF SendBroken
<1>12. ASSUME NEW t \in Senders, SendFail(t) PROVE FlagInv'
  BY <1>12 DEF SendFail
<1>13. ASSUME NEW t \in Senders, SendClear(t) PROVE FlagInv'
  BY <1>13 DEF SendClear
<1>14. ASSUME NEW t \in Closers \cup {Reader}, CloseCall(t) PROVE FlagInv'
  BY <1>14 DEF CloseCall
<1>15. ASSUME NEW t \in Closers \cup {Reader}, CloseCancel(t) PROVE FlagInv'
  BY <1>15 DEF CloseCancel
<1>16. ASSUME NEW t \in Closers \cup {Reader}, CloseShut(t) PROVE FlagInv'
  BY <1>16 DEF CloseShut
<1>17. CASE LoopHead
  BY <1>17 DEF LoopHead
<1>18. CASE LoopSnapshot
  BY <1>18 DEF LoopSnapshot
<1>19. CASE ReadTimeout
  BY <1>19 DEF ReadTimeout
<1>20. CASE ReadFrame
  BY <1>20 DEF ReadFrame
<1>21. CASE ReadBroken
  BY <1>21 DEF ReadBroken, ReadClose
<1>22. CASE ReadProtocolError
  BY <1>22 DEF ReadProtocolError, ReadClose
<1>23. CASE ReadUndecodable
  BY <1>23 DEF ReadUndecodable, ReadClose
<1>24. CASE ReadPanic
  BY <1>24 DEF ReadPanic
<1>25. CASE HandlerReturns
  BY <1>25 DEF HandlerReturns
<1>26. CASE DropFailed
  BY <1>26 DEF DropFailed, Drop
<1>27. CASE DropUndecodable
  BY <1>27 DEF DropUndecodable, Drop
<1>28. CASE ReaderExit
  BY <1>28 DEF ReaderExit
<1>29. CASE ReconnectEnter
  BY <1>29 DEF ReconnectEnter
<1>30. CASE ReconnectRefused
  BY <1>30 DEF ReconnectRefused
<1>31. CASE RedialCall
  BY <1>31 DEF RedialCall
<1>32. CASE RedialStopped
  BY <1>32 DEF RedialStopped, ReconnectReturn
<1>33. CASE RedialDialed
  BY <1>33 DEF RedialDialed
<1>34. CASE RedialFailed
  BY <1>34 DEF RedialFailed
<1>35. CASE Install
  BY <1>35 DEF Install
<1>36. CASE Retire
  BY <1>36 DEF Retire, ReconnectReturn
<1>37. CASE BackoffElapsed
  BY <1>37 DEF BackoffElapsed
<1>38. CASE BackoffCancelled
  BY <1>38 DEF BackoffCancelled, ReconnectReturn
<1>39. ASSUME NEW x \in Conns, NetworkBreaks(x) PROVE FlagInv'
  BY <1>39 DEF NetworkBreaks
<1>40. CASE UNCHANGED vars
  BY <1>40 DEF vars
<1>. QED
  BY <1>1, <1>2, <1>3, <1>4, <1>5, <1>6, <1>7, <1>8, <1>9, <1>10, <1>11, <1>12,
     <1>13, <1>14, <1>15, <1>16, <1>17, <1>18, <1>19, <1>20, <1>21, <1>22,
     <1>23, <1>24, <1>25, <1>26, <1>27, <1>28, <1>29, <1>30, <1>31, <1>32,
     <1>33, <1>34, <1>35, <1>36, <1>37, <1>38, <1>39, <1>40
  DEF Next, Connect, SendMessage, Close, ReadLoop, ReadStep, Reconnect

\* FlagInv is an invariant of the connector.
LEMMA FlagCorrect == Spec => []FlagInv
<1>1. Init => FlagInv
  BY ThreadAssumption DEF Init, FlagInv, Threads, Callers
<1>. QED
  BY <1>1, FlagStep, TypeCorrect, PTL DEF Spec

\* The compare-and-swap of reconnectWithBackoff never fails, whatever the
\* callers do: nobody ever waits in it for another goroutine to reconnect.
THEOREM Uncontended == Spec => []ReconnectUncontended
<1>1. FlagInv => ReconnectUncontended
  BY DEF FlagInv, ReconnectUncontended
<1>. QED
  BY <1>1, FlagCorrect, PTL

\* When readLoop has exited the connector is stopped.
THEOREM ReaderGone == Spec => []ReaderGoneMeansStopped
<1>1. FlagInv => ReaderGoneMeansStopped
  BY DEF FlagInv, ReaderGoneMeansStopped, Threads
<1>. QED
  BY <1>1, FlagCorrect, PTL

\* The flags never contradict what readLoop does, whatever the callers do.
THEOREM FlagsReliable == Spec => []FlagsSound
<1>. QED
  BY Uncontended, ReaderGone, PTL DEF FlagsSound

\* No step takes Connector.Conn away but Close and those who saw it fail.
LEMMA ClearStep ==
  ASSUME TypeOK, FlagInv, [Next]_vars, cur # None, cur' = None
  PROVE  \/ ~running
         \/ \E t \in Threads : pc[t] \in {"fail", "drop", "dropbad"} /\ hold[t] = cur
<1>. DEFINE P == \/ ~running
                 \/ \E t \in Threads : pc[t] \in {"fail", "drop", "dropbad"} /\ hold[t] = cur
<1>. USE ThreadAssumption, ConnAssumption
     DEF TypeOK, FlagInv, Threads, Callers, UsesSocket, Goto, Moves, Hold, link, Closing
<1>1. ASSUME NEW t \in Dialers, ConnectCall(t) PROVE P
  BY <1>1 DEF ConnectCall
<1>2. ASSUME NEW t \in Dialers, ConnectDialed(t) PROVE P
  BY <1>2 DEF ConnectDialed, DialOnce
<1>3. ASSUME NEW t \in Dialers, ConnectFailed(t) PROVE P
  BY <1>3 DEF ConnectFailed
<1>4. ASSUME NEW t \in Dialers, ConnectStore(t) PROVE P
  BY <1>4 DEF ConnectStore
<1>5. ASSUME NEW t \in Dialers, ConnectStart(t) PROVE P
  BY <1>5 DEF ConnectStart
<1>6. ASSUME NEW t \in Senders, SendCall(t) PROVE P
  BY <1>6 DEF SendCall
<1>7. ASSUME NEW t \in Senders, SendSnapshot(t) PROVE P
  BY <1>7 DEF SendSnapshot
<1>8. ASSUME NEW t \in Senders, SendDeadline(t) PROVE P
  BY <1>8 DEF SendDeadline
<1>9. ASSUME NEW t \in Senders, SendLock(t) PROVE P
  BY <1>9 DEF SendLock
<1>10. ASSUME NEW t \in Senders, SendWritten(t) PROVE P
  BY <1>10 DEF SendWritten
<1>11. ASSUME NEW t \in Senders, SendBroken(t) PROVE P
  BY <1>11 DEF SendBroken
<1>12. ASSUME NEW t \in Senders, SendFail(t) PROVE P
  BY <1>12 DEF SendFail, IsCurrent
<1>13. ASSUME NEW t \in Senders, SendClear(t) PROVE P
  BY <1>13 DEF SendClear
<1>14. ASSUME NEW t \in Closers \cup {Reader}, CloseCall(t) PROVE P
  BY <1>14 DEF CloseCall
<1>15. ASSUME NEW t \in Closers \cup {Reader}, CloseCancel(t) PROVE P
  BY <1>15 DEF CloseCancel
<1>16. ASSUME NEW t \in Closers \cup {Reader}, CloseShut(t) PROVE P
  BY <1>16 DEF CloseShut
<1>17. CASE LoopHead
  BY <1>17 DEF LoopHead
<1>18. CASE LoopSnapshot
  BY <1>18 DEF LoopSnapshot
<1>19. CASE ReadTimeout
  BY <1>19 DEF ReadTimeout
<1>20. CASE ReadFrame
  BY <1>20 DEF ReadFrame
<1>21. CASE ReadBroken
  BY <1>21 DEF ReadBroken, ReadClose
<1>22. CASE ReadProtocolError
  BY <1>22 DEF ReadProtocolError, ReadClose
<1>23. CASE ReadUndecodable
  BY <1>23 DEF ReadUndecodable, ReadClose
<1>24. CASE ReadPanic
  BY <1>24 DEF ReadPanic
<1>25. CASE HandlerReturns
  BY <1>25 DEF HandlerReturns
<1>26. CASE DropFailed
  BY <1>26 DEF DropFailed, Drop, IsCurrent
<1>27. CASE DropUndecodable
  BY <1>27 DEF DropUndecodable, Drop, IsCurrent
<1>28. CASE ReaderExit
  BY <1>28 DEF ReaderExit
<1>29. CASE ReconnectEnter
  BY <1>29 DEF ReconnectEnter
<1>30. CASE ReconnectRefused
  BY <1>30 DEF ReconnectRefused
<1>31. CASE RedialCall
  BY <1>31 DEF RedialCall
<1>32. CASE RedialStopped
  BY <1>32 DEF RedialStopped, ReconnectReturn
<1>33. CASE RedialDialed
  BY <1>33 DEF RedialDialed, DialOnce
<1>34. CASE RedialFailed
  BY <1>34 DEF RedialFailed
<1>35. CASE Install
  BY <1>35 DEF Install
<1>36. CASE Retire
  BY <1>36 DEF Retire, ReconnectReturn
<1>37. CASE BackoffElapsed
  BY <1>37 DEF BackoffElapsed
<1>38. CASE BackoffCancelled
  BY <1>38 DEF BackoffCancelled, ReconnectReturn
<1>39. ASSUME NEW x \in Conns, NetworkBreaks(x) PROVE P
  BY <1>39 DEF NetworkBreaks
<1>40. CASE UNCHANGED vars
  BY <1>40 DEF vars
<1>. QED
  BY <1>1, <1>2, <1>3, <1>4, <1>5, <1>6, <1>7, <1>8, <1>9, <1>10, <1>11, <1>12,
     <1>13, <1>14, <1>15, <1>16, <1>17, <1>18, <1>19, <1>20, <1>21, <1>22,
     <1>23, <1>24, <1>25, <1>26, <1>27, <1>28, <1>29, <1>30, <1>31, <1>32,
     <1>33, <1>34, <1>35, <1>36, <1>37, <1>38, <1>39, <1>40
  DEF Next, Connect, SendMessage, Close, ReadLoop, ReadStep, Reconnect

\* A failure seen on an old socket leaves the current one alone, whatever the
\* number of senders and reconnections.
THEOREM StaleHarmless == Spec => StaleFailureHarmless
<1>1. TypeOK /\ FlagInv /\ [Next]_vars =>
        [cur # None /\ cur' = None =>
           \/ ~running
           \/ \E t \in Threads : pc[t] \in {"fail", "drop", "dropbad"} /\ hold[t] = cur]_vars
  BY ClearStep
<1>. QED
  BY <1>1, TypeCorrect, FlagCorrect, PTL DEF Spec, StaleFailureHarmless

-----------------------------------------------------------------------------
(***************************************************************************)
(* Ownership of sockets                                                    *)
(***************************************************************************)
\* A dialled socket is open and nobody else's until it is stored; the socket
\* readLoop is about to close as the old one is not the current one; and the
\* current socket is closed only in the hands of readLoop.
Storing(t) == pc[t] \in {"store", "install"}

OwnInv ==
  /\ \A t \in Threads : Storing(t) =>
       /\ sock[hold[t]] # "closed"
       /\ hold[t] # cur
       /\ \A u \in Threads : u # t => hold[u] # hold[t]
  /\ pc[Reader] = "retire" => hold[Reader] = None \/ hold[Reader] # cur
  /\ ClosedNeverCurrent

\* Every step keeps OwnInv.
LEMMA OwnStep == TypeOK /\ FlagInv /\ OwnInv /\ [Next]_vars => OwnInv'
<1>. SUFFICES ASSUME TypeOK, FlagInv, OwnInv, [Next]_vars PROVE OwnInv'
  OBVIOUS
<1>. USE ThreadAssumption, ConnAssumption
     DEF TypeOK, FlagInv, OwnInv, Storing, ClosedNeverCurrent, Threads, Callers, CallerPCs,
         ReaderPCs, UsesSocket, Goto, Moves, Hold, link, Closing
<1>1. ASSUME NEW t \in Dialers, ConnectCall(t) PROVE OwnInv'
  BY <1>1 DEF ConnectCall
<1>2. ASSUME NEW t \in Dialers, ConnectDialed(t) PROVE OwnInv'
  BY <1>2 DEF ConnectDialed, DialOnce, Fresh
<1>3. ASSUME NEW t \in Dialers, ConnectFailed(t) PROVE OwnInv'
  BY <1>3 DEF ConnectFailed
<1>4. ASSUME NEW t \in Dialers, ConnectStore(t) PROVE OwnInv'
  BY <1>4 DEF ConnectStore
<1>5. ASSUME NEW t \in Dialers, ConnectStart(t) PROVE OwnInv'
  BY <1>5 DEF ConnectStart
<1>6. ASSUME NEW t \in Senders, SendCall(t) PROVE OwnInv'
  BY <1>6 DEF SendCall
<1>7. ASSUME NEW t \in Senders, SendSnapshot(t) PROVE OwnInv'
  BY <1>7 DEF SendSnapshot
<1>8. ASSUME NEW t \in Senders, SendDeadline(t) PROVE OwnInv'
  BY <1>8 DEF SendDeadline
<1>9. ASSUME NEW t \in Senders, SendLock(t) PROVE OwnInv'
  BY <1>9 DEF SendLock
<1>10. ASSUME NEW t \in Senders, SendWritten(t) PROVE OwnInv'
  BY <1>10 DEF SendWritten
<1>11. ASSUME NEW t \in Senders, SendBroken(t) PROVE OwnInv'
  BY <1>11 DEF SendBroken
<1>12. ASSUME NEW t \in Senders, SendFail(t) PROVE OwnInv'
  BY <1>12 DEF SendFail, IsCurrent
<1>13. ASSUME NEW t \in Senders, SendClear(t) PROVE OwnInv'
  BY <1>13 DEF SendClear
<1>14. ASSUME NEW t \in Closers \cup {Reader}, CloseCall(t) PROVE OwnInv'
  BY <1>14 DEF CloseCall
<1>15. ASSUME NEW t \in Closers \cup {Reader}, CloseCancel(t) PROVE OwnInv'
  BY <1>15 DEF CloseCancel
<1>16. ASSUME NEW t \in Closers \cup {Reader}, CloseShut(t) PROVE OwnInv'
  BY <1>16 DEF CloseShut
<1>17. CASE LoopHead
  BY <1>17 DEF LoopHead
<1>18. CASE LoopSnapshot
  BY <1>18 DEF LoopSnapshot
<1>19. CASE ReadTimeout
  BY <1>19 DEF ReadTimeout
<1>20. CASE ReadFrame
  BY <1>20 DEF ReadFrame
<1>21. CASE ReadBroken
  BY <1>21 DEF ReadBroken, ReadClose
<1>22. CASE ReadProtocolError
  BY <1>22 DEF ReadProtocolError, ReadClose
<1>23. CASE ReadUndecodable
  BY <1>23 DEF ReadUndecodable, ReadClose
<1>24. CASE ReadPanic
  BY <1>24 DEF ReadPanic
<1>25. CASE HandlerReturns
  BY <1>25 DEF HandlerReturns
<1>26. CASE DropFailed
  BY <1>26 DEF DropFailed, Drop, IsCurrent
<1>27. CASE DropUndecodable
  BY <1>27 DEF DropUndecodable, Drop, IsCurrent
<1>28. CASE ReaderExit
  BY <1>28 DEF ReaderExit
<1>29. CASE ReconnectEnter
  BY <1>29 DEF ReconnectEnter
<1>30. CASE ReconnectRefused
  BY <1>30 DEF ReconnectRefused
<1>31. CASE RedialCall
  BY <1>31 DEF RedialCall
<1>32. CASE RedialStopped
  BY <1>32 DEF RedialStopped, ReconnectReturn
<1>33. CASE RedialDialed
  BY <1>33 DEF RedialDialed, DialOnce, Fresh
<1>34. CASE RedialFailed
  BY <1>34 DEF RedialFailed
<1>35. CASE Install
  BY <1>35 DEF Install
<1>36. CASE Retire
  BY <1>36 DEF Retire, ReconnectReturn
<1>37. CASE BackoffElapsed
  BY <1>37 DEF BackoffElapsed
<1>38. CASE BackoffCancelled
  BY <1>38 DEF BackoffCancelled, ReconnectReturn
<1>39. ASSUME NEW x \in Conns, NetworkBreaks(x) PROVE OwnInv'
  BY <1>39 DEF NetworkBreaks
<1>40. CASE UNCHANGED vars
  BY <1>40 DEF vars
<1>. QED
  BY <1>1, <1>2, <1>3, <1>4, <1>5, <1>6, <1>7, <1>8, <1>9, <1>10, <1>11, <1>12,
     <1>13, <1>14, <1>15, <1>16, <1>17, <1>18, <1>19, <1>20, <1>21, <1>22,
     <1>23, <1>24, <1>25, <1>26, <1>27, <1>28, <1>29, <1>30, <1>31, <1>32,
     <1>33, <1>34, <1>35, <1>36, <1>37, <1>38, <1>39, <1>40
  DEF Next, Connect, SendMessage, Close, ReadLoop, ReadStep, Reconnect

\* Connector.Conn is a closed socket only while readLoop is about to clear it,
\* whatever the callers of Connect, SendMessage and Close do.
THEOREM ClosedCurrent == Spec => []ClosedNeverCurrent
<1>1. Init => OwnInv
  BY ThreadAssumption DEF Init, OwnInv, Storing, ClosedNeverCurrent, Threads, Callers
<1>2. OwnInv => ClosedNeverCurrent
  BY DEF OwnInv
<1>. QED
  BY <1>1, <1>2, OwnStep, TypeCorrect, FlagCorrect, PTL DEF Spec

-----------------------------------------------------------------------------
(***************************************************************************)
(* One call of Connect                                                     *)
(***************************************************************************)
\* One goroutine connects, and no more once it has succeeded.
OneConnect == ~Redial /\ \A d, e \in Dialers : d = e

\* The stages of a connection.  Until readLoop starts only Connect touches Conn;
\* from then on readLoop reads the current socket or one that was cleared, and
\* dials with nothing open.
StageInv ==
  /\ \A t \in Threads : pc[t] \in {"dialing", "store", "start"} => t \in Dialers /\ ~started
  /\ ~started /\ (\A d \in Dialers : pc[d] # "start") => cur = None
  /\ pc[Reader] \in {"reconnect", "redial", "redialing", "backoff", "install"} => cur = None
  /\ pc[Reader] = "retire" => hold[Reader] = None
  /\ pc[Reader] \in {"read", "handle", "drop", "dropbad"} => cur \in {None, hold[Reader]}
  /\ pc[Reader] \in {"drop", "dropbad"} => sock[hold[Reader]] = "closed"
  /\ \A x \in Conns : sock[x] # "closed" =>
       x = cur \/ \E t \in Threads : Storing(t) /\ hold[t] = x

\* Every step keeps StageInv when Connect is called once.
LEMMA StageStep ==
  OneConnect /\ TypeOK /\ FlagInv /\ OwnInv /\ StageInv /\ [Next]_vars => StageInv'
<1>. SUFFICES ASSUME OneConnect, TypeOK, FlagInv, OwnInv, StageInv, [Next]_vars PROVE StageInv'
  OBVIOUS
<1>. USE ThreadAssumption, ConnAssumption
     DEF OneConnect, TypeOK, FlagInv, OwnInv, Storing, StageInv, Threads, Callers, CallerPCs,
         ReaderPCs, UsesSocket, Goto, Moves, Hold, link, flags, Closing
<1>1. ASSUME NEW t \in Dialers, ConnectCall(t) PROVE StageInv'
  BY <1>1 DEF ConnectCall
<1>2. ASSUME NEW t \in Dialers, ConnectDialed(t) PROVE StageInv'
  BY <1>2 DEF ConnectDialed, DialOnce, Fresh
<1>3. ASSUME NEW t \in Dialers, ConnectFailed(t) PROVE StageInv'
  BY <1>3 DEF ConnectFailed
<1>4. ASSUME NEW t \in Dialers, ConnectStore(t) PROVE StageInv'
  BY <1>4 DEF ConnectStore
<1>5. ASSUME NEW t \in Dialers, ConnectStart(t) PROVE StageInv'
  BY <1>5 DEF ConnectStart
<1>6. ASSUME NEW t \in Senders, SendCall(t) PROVE StageInv'
  BY <1>6 DEF SendCall
<1>7. ASSUME NEW t \in Senders, SendSnapshot(t) PROVE StageInv'
  BY <1>7 DEF SendSnapshot
<1>8. ASSUME NEW t \in Senders, SendDeadline(t) PROVE StageInv'
  BY <1>8 DEF SendDeadline
<1>9. ASSUME NEW t \in Senders, SendLock(t) PROVE StageInv'
  BY <1>9 DEF SendLock
<1>10. ASSUME NEW t \in Senders, SendWritten(t) PROVE StageInv'
  BY <1>10 DEF SendWritten
<1>11. ASSUME NEW t \in Senders, SendBroken(t) PROVE StageInv'
  BY <1>11 DEF SendBroken
<1>12. ASSUME NEW t \in Senders, SendFail(t) PROVE StageInv'
  BY <1>12 DEF SendFail, IsCurrent
<1>13. ASSUME NEW t \in Senders, SendClear(t) PROVE StageInv'
  BY <1>13 DEF SendClear
<1>14. ASSUME NEW t \in Closers \cup {Reader}, CloseCall(t) PROVE StageInv'
  BY <1>14 DEF CloseCall
<1>15. ASSUME NEW t \in Closers \cup {Reader}, CloseCancel(t) PROVE StageInv'
  BY <1>15 DEF CloseCancel
<1>16. ASSUME NEW t \in Closers \cup {Reader}, CloseShut(t) PROVE StageInv'
  BY <1>16 DEF CloseShut
<1>17. CASE LoopHead
  BY <1>17 DEF LoopHead
<1>18. CASE LoopSnapshot
  BY <1>18 DEF LoopSnapshot
<1>19. CASE ReadTimeout
  BY <1>19 DEF ReadTimeout
<1>20. CASE ReadFrame
  BY <1>20 DEF ReadFrame
<1>21. CASE ReadBroken
  BY <1>21 DEF ReadBroken, ReadClose
<1>22. CASE ReadProtocolError
  BY <1>22 DEF ReadProtocolError, ReadClose
<1>23. CASE ReadUndecodable
  BY <1>23 DEF ReadUndecodable, ReadClose
<1>24. CASE ReadPanic
  BY <1>24 DEF ReadPanic
<1>25. CASE HandlerReturns
  BY <1>25 DEF HandlerReturns
<1>26. CASE DropFailed
  BY <1>26 DEF DropFailed, Drop, IsCurrent
<1>27. CASE DropUndecodable
  BY <1>27 DEF DropUndecodable, Drop, IsCurrent
<1>28. CASE ReaderExit
  BY <1>28 DEF ReaderExit
<1>29. CASE ReconnectEnter
  BY <1>29 DEF ReconnectEnter
<1>30. CASE ReconnectRefused
  BY <1>30 DEF ReconnectRefused
<1>31. CASE RedialCall
  BY <1>31 DEF RedialCall
<1>32. CASE RedialStopped
  BY <1>32 DEF RedialStopped, ReconnectReturn
<1>33. CASE RedialDialed
  BY <1>33 DEF RedialDialed, DialOnce, Fresh
<1>34. CASE RedialFailed
  BY <1>34 DEF RedialFailed
<1>35. CASE Install
  BY <1>35 DEF Install
<1>36. CASE Retire
  BY <1>36 DEF Retire, ReconnectReturn
<1>37. CASE BackoffElapsed
  BY <1>37 DEF BackoffElapsed
<1>38. CASE BackoffCancelled
  BY <1>38 DEF BackoffCancelled, ReconnectReturn
<1>39. ASSUME NEW x \in Conns, NetworkBreaks(x) PROVE StageInv'
  BY <1>39 DEF NetworkBreaks
<1>40. CASE UNCHANGED vars
  BY <1>40 DEF vars
<1>. QED
  BY <1>1, <1>2, <1>3, <1>4, <1>5, <1>6, <1>7, <1>8, <1>9, <1>10, <1>11, <1>12,
     <1>13, <1>14, <1>15, <1>16, <1>17, <1>18, <1>19, <1>20, <1>21, <1>22,
     <1>23, <1>24, <1>25, <1>26, <1>27, <1>28, <1>29, <1>30, <1>31, <1>32,
     <1>33, <1>34, <1>35, <1>36, <1>37, <1>38, <1>39, <1>40
  DEF Next, Connect, SendMessage, Close, ReadLoop, ReadStep, Reconnect

\* StageInv is an invariant of a connector that is connected once.
LEMMA StageCorrect == ASSUME OneConnect PROVE Spec => []StageInv
<1>1. Init => StageInv
  BY ThreadAssumption DEF Init, StageInv, Storing, Threads, Callers
<1>2. Init => OwnInv
  BY ThreadAssumption DEF Init, OwnInv, Storing, ClosedNeverCurrent, Threads, Callers
<1>. QED
  BY <1>1, <1>2, OwnStep, StageStep, TypeCorrect, FlagCorrect, PTL DEF Spec

\* Every open socket is current or about to be stored, so none leaks, for any
\* number of senders, failures and reconnections after one call of Connect.
THEOREM SocketsAccounted == ASSUME OneConnect PROVE Spec => []NoOrphan
<1>1. StageInv => NoOrphan
  BY DEF StageInv, Storing, NoOrphan, Live, InFlight
<1>. QED
  BY <1>1, StageCorrect, PTL

\* There never are two open sockets after one call of Connect.
THEOREM OneSocket == ASSUME OneConnect PROVE Spec => []SingleSocket
<1>1. TypeOK /\ FlagInv /\ StageInv => SingleSocket
  <2>. SUFFICES ASSUME TypeOK, FlagInv, StageInv, NEW x \in Live, NEW y \in Live
                PROVE  x = y
    BY DEF SingleSocket
  <2>1. \A t \in Threads : Storing(t) => cur = None
    BY DEF StageInv, FlagInv, Storing, TypeOK, Threads, CallerPCs, ReaderPCs, OneConnect
  <2>2. \A t, u \in Threads : Storing(t) /\ Storing(u) => t = u
    BY DEF StageInv, FlagInv, Storing, TypeOK, Threads, CallerPCs, ReaderPCs, OneConnect
  <2>3. x \in Conns /\ y \in Conns /\ sock[x] # "closed" /\ sock[y] # "closed"
    BY DEF Live
  <2>. QED
    BY <2>1, <2>2, <2>3, ConnAssumption DEF StageInv
<1>. QED
  BY <1>1, StageCorrect, TypeCorrect, FlagCorrect, PTL

-----------------------------------------------------------------------------
(***************************************************************************)
(* Torn frames                                                             *)
(***************************************************************************)
\* A socket with part of a frame on it is closed, or its sender is about to do so.
TornInv ==
  \A x \in torn : sock[x] = "closed" \/ \E u \in Senders : pc[u] = "fail" /\ hold[u] = x

\* Every step keeps TornInv when Connect is called once.
LEMMA TornStep == TypeOK /\ OwnInv /\ StageInv /\ TornInv /\ [Next]_vars => TornInv'
<1>. SUFFICES ASSUME TypeOK, OwnInv, StageInv, TornInv, [Next]_vars PROVE TornInv'
  OBVIOUS
<1>. USE ThreadAssumption, ConnAssumption
     DEF TypeOK, OwnInv, Storing, StageInv, TornInv, Threads, Callers, CallerPCs, ReaderPCs,
         UsesSocket, Goto, Moves, Hold, link, Closing
<1>1. ASSUME NEW t \in Dialers, ConnectCall(t) PROVE TornInv'
  BY <1>1 DEF ConnectCall
<1>2. ASSUME NEW t \in Dialers, ConnectDialed(t) PROVE TornInv'
  BY <1>2 DEF ConnectDialed, DialOnce, Fresh
<1>3. ASSUME NEW t \in Dialers, ConnectFailed(t) PROVE TornInv'
  BY <1>3 DEF ConnectFailed
<1>4. ASSUME NEW t \in Dialers, ConnectStore(t) PROVE TornInv'
  BY <1>4 DEF ConnectStore
<1>5. ASSUME NEW t \in Dialers, ConnectStart(t) PROVE TornInv'
  BY <1>5 DEF ConnectStart
<1>6. ASSUME NEW t \in Senders, SendCall(t) PROVE TornInv'
  BY <1>6 DEF SendCall
<1>7. ASSUME NEW t \in Senders, SendSnapshot(t) PROVE TornInv'
  BY <1>7 DEF SendSnapshot
<1>8. ASSUME NEW t \in Senders, SendDeadline(t) PROVE TornInv'
  BY <1>8 DEF SendDeadline
<1>9. ASSUME NEW t \in Senders, SendLock(t) PROVE TornInv'
  BY <1>9 DEF SendLock
<1>10. ASSUME NEW t \in Senders, SendWritten(t) PROVE TornInv'
  BY <1>10 DEF SendWritten
<1>11. ASSUME NEW t \in Senders, SendBroken(t) PROVE TornInv'
  BY <1>11 DEF SendBroken
<1>12. ASSUME NEW t \in Senders, SendFail(t) PROVE TornInv'
  BY <1>12 DEF SendFail, IsCurrent
<1>13. ASSUME NEW t \in Senders, SendClear(t) PROVE TornInv'
  BY <1>13 DEF SendClear
<1>14. ASSUME NEW t \in Closers \cup {Reader}, CloseCall(t) PROVE TornInv'
  BY <1>14 DEF CloseCall
<1>15. ASSUME NEW t \in Closers \cup {Reader}, CloseCancel(t) PROVE TornInv'
  BY <1>15 DEF CloseCancel
<1>16. ASSUME NEW t \in Closers \cup {Reader}, CloseShut(t) PROVE TornInv'
  BY <1>16 DEF CloseShut
<1>17. CASE LoopHead
  BY <1>17 DEF LoopHead
<1>18. CASE LoopSnapshot
  BY <1>18 DEF LoopSnapshot
<1>19. CASE ReadTimeout
  BY <1>19 DEF ReadTimeout
<1>20. CASE ReadFrame
  BY <1>20 DEF ReadFrame
<1>21. CASE ReadBroken
  BY <1>21 DEF ReadBroken, ReadClose
<1>22. CASE ReadProtocolError
  BY <1>22 DEF ReadProtocolError, ReadClose
<1>23. CASE ReadUndecodable
  BY <1>23 DEF ReadUndecodable, ReadClose
<1>24. CASE ReadPanic
  BY <1>24 DEF ReadPanic
<1>25. CASE HandlerReturns
  BY <1>25 DEF HandlerReturns
<1>26. CASE DropFailed
  BY <1>26 DEF DropFailed, Drop, IsCurrent
<1>27. CASE DropUndecodable
  BY <1>27 DEF DropUndecodable, Drop, IsCurrent
<1>28. CASE ReaderExit
  BY <1>28 DEF ReaderExit
<1>29. CASE ReconnectEnter
  BY <1>29 DEF ReconnectEnter
<1>30. CASE ReconnectRefused
  BY <1>30 DEF ReconnectRefused
<1>31. CASE RedialCall
  BY <1>31 DEF RedialCall
<1>32. CASE RedialStopped
  BY <1>32 DEF RedialStopped, ReconnectReturn
<1>33. CASE RedialDialed
  BY <1>33 DEF RedialDialed, DialOnce, Fresh
<1>34. CASE RedialFailed
  BY <1>34 DEF RedialFailed
<1>35. CASE Install
  BY <1>35 DEF Install
<1>36. CASE Retire
  BY <1>36 DEF Retire, ReconnectReturn
<1>37. CASE BackoffElapsed
  BY <1>37 DEF BackoffElapsed
<1>38. CASE BackoffCancelled
  BY <1>38 DEF BackoffCancelled, ReconnectReturn
<1>39. ASSUME NEW x \in Conns, NetworkBreaks(x) PROVE TornInv'
  BY <1>39 DEF NetworkBreaks
<1>40. CASE UNCHANGED vars
  BY <1>40 DEF vars
<1>. QED
  BY <1>1, <1>2, <1>3, <1>4, <1>5, <1>6, <1>7, <1>8, <1>9, <1>10, <1>11, <1>12,
     <1>13, <1>14, <1>15, <1>16, <1>17, <1>18, <1>19, <1>20, <1>21, <1>22,
     <1>23, <1>24, <1>25, <1>26, <1>27, <1>28, <1>29, <1>30, <1>31, <1>32,
     <1>33, <1>34, <1>35, <1>36, <1>37, <1>38, <1>39, <1>40
  DEF Next, Connect, SendMessage, Close, ReadLoop, ReadStep, Reconnect

\* A sender has written a whole frame only to a socket that is not closed.
LEMMA WrittenOpen ==
  ASSUME TypeOK, [Next]_vars, NEW t \in Senders, pc[t] = "write", pc'[t] = "clear"
  PROVE  sock[hold[t]] # "closed"
<1>. USE ThreadAssumption DEF TypeOK, Threads, Callers, Goto, Moves
<1>1. ASSUME NEW u \in Dialers, Connect(u) PROVE FALSE
  BY <1>1 DEF Connect, ConnectCall, ConnectDialed, ConnectFailed, ConnectStore, ConnectStart
<1>2. ASSUME NEW u \in Senders, SendMessage(u) PROVE SendWritten(t)
  BY <1>2 DEF SendMessage, SendCall, SendSnapshot, SendDeadline, SendLock, SendWritten,
              SendBroken, SendFail, SendClear
<1>3. ASSUME NEW u \in Closers \cup {Reader}, Close(u) PROVE FALSE
  BY <1>3 DEF Close, CloseCall, CloseCancel, CloseShut
<1>4. ASSUME LoopHead \/ LoopSnapshot \/ HandlerReturns \/ DropFailed \/ DropUndecodable
             \/ ReaderExit
      PROVE  FALSE
  BY <1>4 DEF LoopHead, LoopSnapshot, HandlerReturns, DropFailed, DropUndecodable, Drop,
              ReaderExit
<1>5. ASSUME ReadStep PROVE FALSE
  BY <1>5 DEF ReadStep, ReadTimeout, ReadFrame, ReadBroken, ReadProtocolError,
              ReadUndecodable, ReadPanic, ReadClose
<1>6. ASSUME Reconnect PROVE FALSE
  BY <1>6 DEF Reconnect, ReconnectEnter, ReconnectRefused, RedialCall, RedialStopped,
              RedialDialed, RedialFailed, Install, Retire, BackoffElapsed, BackoffCancelled,
              ReconnectReturn
<1>7. ASSUME NEW x \in Conns, NetworkBreaks(x) PROVE FALSE
  BY <1>7 DEF NetworkBreaks
<1>8. ~ UNCHANGED vars
  BY DEF vars
<1>9. SendWritten(t)
  BY <1>1, <1>2, <1>3, <1>4, <1>5, <1>6, <1>7, <1>8 DEF Next, ReadLoop
<1>. QED
  BY <1>9 DEF SendWritten

\* A frame follows a part of another only until the sender of that part, which has
\* given writeMu back, closes the socket, for any number of senders.
THEOREM FramesTornBriefly == ASSUME OneConnect PROVE Spec => TornIsShort
<1>1. Init => TornInv /\ OwnInv
  BY ThreadAssumption DEF Init, TornInv, OwnInv, Storing, ClosedNeverCurrent, Threads, Callers
<1>2. TypeOK /\ TornInv /\ [Next]_vars =>
        [\A t \in Senders : pc[t] = "write" /\ pc'[t] = "clear" /\ hold[t] \in torn =>
           \E u \in Senders : pc[u] = "fail" /\ hold[u] = hold[t]]_vars
  BY WrittenOpen DEF TornInv
<1>. QED
  BY <1>1, <1>2, OwnStep, TornStep, StageCorrect, TypeCorrect, FlagCorrect, PTL
  DEF Spec, TornIsShort

-----------------------------------------------------------------------------
(***************************************************************************)
(* The connector, connected once, implements Link                          *)
(***************************************************************************)
Dialing(t) == pc[t] \in {"dialing", "redialing"}

\* What StageInv says of the mapping to Link: one goroutine dials or has dialled,
\* and nothing is open then but what it dialled.
LinkInv ==
  /\ Lost = {}
  /\ \A t, u \in Threads : (Dialing(t) \/ Storing(t)) /\ (Dialing(u) \/ Storing(u)) => t = u
  /\ \A t \in Threads : Dialing(t) \/ Storing(t) => cur = None
  /\ \A t \in Threads : Storing(t) => hold[t] \in Conns /\ sock[hold[t]] # "closed"

\* LinkInv follows from the other invariants.
LEMMA LinkInvHolds ==
  ASSUME OneConnect, TypeOK, FlagInv, OwnInv, StageInv
  PROVE  LinkInv
<1>. USE DEF OneConnect, TypeOK, FlagInv, OwnInv, StageInv, Storing, Dialing, Threads,
             Callers, CallerPCs, ReaderPCs, UsesSocket
<1>1. Lost = {}
  BY DEF Lost, Live, Arriving
<1>2. ASSUME NEW t \in Threads, Dialing(t) \/ Storing(t)
      PROVE  t \in Dialers \cup {Reader} /\ cur = None
  BY <1>2
<1>3. \A t, u \in Threads : (Dialing(t) \/ Storing(t)) /\ (Dialing(u) \/ Storing(u)) => t = u
  BY <1>2
<1>. QED
  BY <1>1, <1>2, <1>3 DEF LinkInv

\* The mapping to Link while a goroutine dials, has dialled, or neither.
PhaseMap ==
  /\ \A t \in Threads : Dialing(t) => linkPhase = "dialing" /\ linkConn = None
  /\ \A t \in Threads : Storing(t) => linkPhase = "dialed" /\ linkConn = hold[t]
  /\ (\A t \in Threads : ~Dialing(t) /\ ~Storing(t)) =>
       /\ linkPhase = IF cur = None THEN "down" ELSE IF sock[cur] = "closed" THEN "dead" ELSE "up"
       /\ linkConn = cur

\* LinkInv decides the mapping.
LEMMA PhaseMapHolds == ASSUME LinkInv PROVE PhaseMap
<1>1. ASSUME NEW t \in Threads, Dialing(t) PROVE linkPhase = "dialing" /\ linkConn = None
  <2>1. Arriving = {}
    BY <1>1 DEF LinkInv, Arriving, Dialing, Storing
  <2>. QED
    BY <1>1, <2>1 DEF LinkInv, linkPhase, linkConn, Dialing
<1>2. ASSUME NEW t \in Threads, Storing(t) PROVE linkPhase = "dialed" /\ linkConn = hold[t]
  <2>1. Arriving = {t} /\ ~ \E u \in Threads : Dialing(u)
    BY <1>2 DEF LinkInv, Arriving, Dialing, Storing
  <2>. QED
    BY <2>1 DEF LinkInv, linkPhase, linkConn, Dialing
<1>3. ASSUME \A t \in Threads : ~Dialing(t) /\ ~Storing(t)
      PROVE  /\ linkPhase = IF cur = None THEN "down" ELSE IF sock[cur] = "closed" THEN "dead" ELSE "up"
             /\ linkConn = cur
  <2>1. Arriving = {}
    BY <1>3 DEF Arriving, Storing
  <2>. QED
    BY <1>3, <2>1 DEF LinkInv, linkPhase, linkConn, Dialing
<1>. QED
  BY <1>1, <1>2, <1>3 DEF PhaseMap

\* A step in which nobody begins or ends a dial or stores a socket, and which
\* leaves running, Conn and the socket in it as they are, is none of Link.
LEMMA NoLinkStep ==
  ASSUME PhaseMap, PhaseMap', running' = running, cur' = cur,
         cur # None => (sock'[cur] = "closed" <=> sock[cur] = "closed"),
         \A t \in Threads : /\ Dialing(t)' <=> Dialing(t)
                            /\ Storing(t)' <=> Storing(t)
                            /\ Storing(t) => hold'[t] = hold[t]
  PROVE  UNCHANGED L!vars
<1>1. CASE \E t \in Threads : Dialing(t) \/ Storing(t)
  BY <1>1 DEF PhaseMap, L!vars
<1>2. CASE \A t \in Threads : ~Dialing(t) /\ ~Storing(t)
  BY <1>2 DEF PhaseMap, L!vars
<1>. QED
  BY <1>1, <1>2

\* Every step of the connector is a step of Link or none.
LEMMA LinkStep ==
  ASSUME OneConnect, TypeOK, FlagInv, OwnInv, StageInv, LinkInv, PhaseMap,
         TypeOK', LinkInv', PhaseMap', [Next]_vars
  PROVE  [L!Next]_(L!vars)
<1>. USE ThreadAssumption, ConnAssumption
     DEF TypeOK, LinkInv, Dialing, Storing, Threads, Callers, CallerPCs, ReaderPCs,
         UsesSocket, Goto, Moves, Hold, link, flags
<1>1. ASSUME NEW t \in Dialers, ConnectStart(t) PROVE UNCHANGED L!vars
  BY <1>1, NoLinkStep DEF ConnectStart, FlagInv
<1>2. ASSUME NEW t \in Senders, SendCall(t) PROVE UNCHANGED L!vars
  BY <1>2, NoLinkStep DEF SendCall
<1>3. ASSUME NEW t \in Senders, SendSnapshot(t) PROVE UNCHANGED L!vars
  BY <1>3, NoLinkStep DEF SendSnapshot
<1>4. ASSUME NEW t \in Senders, SendDeadline(t) PROVE UNCHANGED L!vars
  BY <1>4, NoLinkStep DEF SendDeadline
<1>5. ASSUME NEW t \in Senders, SendLock(t) PROVE UNCHANGED L!vars
  BY <1>5, NoLinkStep DEF SendLock
<1>6. ASSUME NEW t \in Senders, SendWritten(t) PROVE UNCHANGED L!vars
  BY <1>6, NoLinkStep DEF SendWritten
<1>7. ASSUME NEW t \in Senders, SendBroken(t) PROVE UNCHANGED L!vars
  BY <1>7, NoLinkStep DEF SendBroken
<1>8. ASSUME NEW t \in Senders, SendClear(t) PROVE UNCHANGED L!vars
  BY <1>8, NoLinkStep DEF SendClear
<1>9. ASSUME NEW t \in Closers \cup {Reader}, CloseCancel(t) PROVE UNCHANGED L!vars
  BY <1>9, NoLinkStep DEF CloseCancel
<1>10. CASE LoopHead
  BY <1>10, NoLinkStep DEF LoopHead
<1>11. CASE LoopSnapshot
  BY <1>11, NoLinkStep DEF LoopSnapshot
<1>12. CASE ReadTimeout
  BY <1>12, NoLinkStep DEF ReadTimeout
<1>13. CASE ReadFrame
  BY <1>13, NoLinkStep DEF ReadFrame
<1>14. CASE ReadPanic
  BY <1>14, NoLinkStep DEF ReadPanic
<1>15. CASE HandlerReturns
  BY <1>15, NoLinkStep DEF HandlerReturns
<1>16. CASE ReaderExit
  BY <1>16, NoLinkStep DEF ReaderExit
<1>17. CASE ReconnectEnter
  BY <1>17, NoLinkStep DEF ReconnectEnter
<1>18. CASE ReconnectRefused
  BY <1>18, NoLinkStep DEF ReconnectRefused
<1>19. CASE RedialStopped
  BY <1>19, NoLinkStep DEF RedialStopped, ReconnectReturn
<1>20. CASE BackoffElapsed
  BY <1>20, NoLinkStep DEF BackoffElapsed
<1>21. CASE BackoffCancelled
  BY <1>21, NoLinkStep DEF BackoffCancelled, ReconnectReturn
<1>22. CASE Retire
  BY <1>22, NoLinkStep DEF Retire, ReconnectReturn, Closing, StageInv
<1>23. ASSUME NEW x \in Conns, NetworkBreaks(x) PROVE UNCHANGED L!vars
  BY <1>23, NoLinkStep DEF NetworkBreaks
<1>24. ASSUME NEW t \in Dialers, ConnectCall(t) PROVE L!Next
  BY <1>24 DEF ConnectCall, PhaseMap, L!Next, L!Dial, OneConnect, FlagInv, StageInv
<1>25. ASSUME NEW t \in Dialers, ConnectDialed(t) PROVE L!Next
  BY <1>25 DEF ConnectDialed, PhaseMap, L!Next, L!Dialed, DialOnce
<1>26. ASSUME NEW t \in Dialers, ConnectFailed(t) PROVE L!Next
  BY <1>26 DEF ConnectFailed, PhaseMap, L!Next, L!DialFails
<1>27. ASSUME NEW t \in Dialers, ConnectStore(t) PROVE L!Next
  BY <1>27 DEF ConnectStore, PhaseMap, L!Next, L!Install
<1>28. ASSUME NEW t \in Closers \cup {Reader}, CloseCall(t) PROVE L!Next
  BY <1>28 DEF CloseCall, PhaseMap, L!Next, L!Close
<1>29. ASSUME RedialCall PROVE L!Next
  BY <1>29 DEF RedialCall, PhaseMap, L!Next, L!Dial, FlagInv, StageInv
<1>30. ASSUME RedialDialed PROVE L!Next
  BY <1>30 DEF RedialDialed, PhaseMap, L!Next, L!Dialed, DialOnce
<1>31. ASSUME RedialFailed PROVE L!Next
  BY <1>31 DEF RedialFailed, PhaseMap, L!Next, L!DialFails
<1>32. ASSUME Install PROVE L!Next
  BY <1>32 DEF Install, PhaseMap, L!Next, L!Install
<1>33. ASSUME NEW t \in Senders, SendFail(t) PROVE L!Next \/ UNCHANGED L!vars
  <2>1. CASE cur = hold[t]
    BY <1>33, <2>1 DEF SendFail, PhaseMap, L!Next, L!Drop, IsCurrent, Closing
  <2>2. CASE cur # hold[t]
    BY <1>33, <2>2, NoLinkStep DEF SendFail, IsCurrent, Closing
  <2>. QED
    BY <2>1, <2>2
<1>34. ASSUME NEW t \in Closers \cup {Reader}, CloseShut(t) PROVE L!Next \/ UNCHANGED L!vars
  <2>1. CASE cur # None
    BY <1>34, <2>1 DEF CloseShut, PhaseMap, L!Next, L!Drop, Closing
  <2>2. CASE cur = None
    BY <1>34, <2>2, NoLinkStep DEF CloseShut, Closing
  <2>. QED
    BY <2>1, <2>2
<1>35. ASSUME DropFailed PROVE L!Next \/ UNCHANGED L!vars
  <2>1. CASE cur = hold[Reader]
    BY <1>35, <2>1 DEF DropFailed, PhaseMap, L!Next, L!Drop, Drop, IsCurrent
  <2>2. CASE cur # hold[Reader]
    BY <1>35, <2>2, NoLinkStep DEF DropFailed, Drop, IsCurrent
  <2>. QED
    BY <2>1, <2>2
<1>36. ASSUME DropUndecodable PROVE L!Next \/ UNCHANGED L!vars
  <2>1. CASE cur = hold[Reader]
    BY <1>36, <2>1 DEF DropUndecodable, PhaseMap, L!Next, L!Drop, Drop, IsCurrent
  <2>2. CASE cur # hold[Reader]
    BY <1>36, <2>2, NoLinkStep DEF DropUndecodable, Drop, IsCurrent
  <2>. QED
    BY <2>1, <2>2
<1>37. ASSUME ReadBroken PROVE L!Next \/ UNCHANGED L!vars
  <2>1. CASE cur = hold[Reader] /\ sock[cur] # "closed"
    BY <1>37, <2>1 DEF ReadBroken, PhaseMap, L!Next, L!Kill, ReadClose, Closing
  <2>2. CASE cur # hold[Reader] \/ sock[cur] = "closed"
    BY <1>37, <2>2, NoLinkStep DEF ReadBroken, ReadClose, Closing
  <2>. QED
    BY <2>1, <2>2
<1>38. ASSUME ReadProtocolError PROVE L!Next \/ UNCHANGED L!vars
  <2>1. CASE cur = hold[Reader] /\ sock[cur] # "closed"
    BY <1>38, <2>1 DEF ReadProtocolError, PhaseMap, L!Next, L!Kill, ReadClose, Closing
  <2>2. CASE cur # hold[Reader] \/ sock[cur] = "closed"
    BY <1>38, <2>2, NoLinkStep DEF ReadProtocolError, ReadClose, Closing
  <2>. QED
    BY <2>1, <2>2
<1>39. ASSUME ReadUndecodable PROVE L!Next \/ UNCHANGED L!vars
  <2>1. CASE cur = hold[Reader] /\ sock[cur] # "closed"
    BY <1>39, <2>1 DEF ReadUndecodable, PhaseMap, L!Next, L!Kill, ReadClose, Closing
  <2>2. CASE cur # hold[Reader] \/ sock[cur] = "closed"
    BY <1>39, <2>2, NoLinkStep DEF ReadUndecodable, ReadClose, Closing
  <2>. QED
    BY <2>1, <2>2
<1>40. CASE UNCHANGED vars
  BY <1>40, NoLinkStep DEF vars
<1>. QED
  BY <1>1, <1>2, <1>3, <1>4, <1>5, <1>6, <1>7, <1>8, <1>9, <1>10,
     <1>11, <1>12, <1>13, <1>14, <1>15, <1>16, <1>17, <1>18, <1>19, <1>20,
     <1>21, <1>22, <1>23, <1>24, <1>25, <1>26, <1>27, <1>28, <1>29, <1>30,
     <1>31, <1>32, <1>33, <1>34, <1>35, <1>36, <1>37, <1>38, <1>39, <1>40
  DEF Next, Connect, SendMessage, Close, ReadLoop, ReadStep, Reconnect

\* A connector that is connected once is a Link, whatever its senders, its closers
\* and the network do.
THEOREM LinkImplemented == ASSUME OneConnect PROVE Spec => ImplementsLink
<1>1. Init => L!Init
  <2>. SUFFICES ASSUME Init PROVE L!Init
    OBVIOUS
  <2>1. Arriving = {} /\ Lost = {} /\ \A t \in Threads : pc[t] \notin {"dialing", "redialing"}
    BY DEF Init, Arriving, Lost, Live, Threads
  <2>. QED
    BY <2>1 DEF Init, L!Init, linkPhase, linkConn
<1>2. Init => OwnInv
  BY ThreadAssumption DEF Init, OwnInv, Storing, ClosedNeverCurrent, Threads, Callers
<1>3. TypeOK /\ FlagInv /\ OwnInv /\ StageInv => LinkInv /\ PhaseMap
  BY LinkInvHolds, PhaseMapHolds
<1>4. /\ TypeOK /\ FlagInv /\ OwnInv /\ StageInv /\ LinkInv /\ PhaseMap
      /\ TypeOK' /\ LinkInv' /\ PhaseMap' /\ [Next]_vars
      => [L!Next]_(L!vars)
  BY LinkStep
<1>. QED
  BY <1>1, <1>2, <1>3, <1>4, OwnStep, StageCorrect, TypeCorrect, FlagCorrect, PTL
  DEF Spec, ImplementsLink, L!Spec

\* What Link promises of a connector that was closed.
LEMMA LinkClosed == L!Spec => L!ClosedForGood
<1>1. L!Next /\ ~running /\ linkPhase = "down" => FALSE
  BY DEF L!Next, L!Dial, L!DialFails, L!Dialed, L!Install, L!Kill, L!Drop, L!Close
<1>. QED
  BY <1>1, PTL DEF L!Spec, L!ClosedForGood

\* A TCP connector that was closed, and has no socket and no dial under way, gets
\* no socket any more: neither readLoop nor a pause that ends brings it back.
THEOREM CloseIsFinal == ASSUME OneConnect PROVE Spec => L!ClosedForGood
BY LinkImplemented, LinkClosed, PTL DEF ImplementsLink

=============================================================================
