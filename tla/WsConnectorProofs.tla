-------------------------- MODULE WsConnectorProofs --------------------------
(***************************************************************************)
(* Proofs about WsConnector, for any goroutines, connections and delays.   *)
(* The types go with the flags (FlagInv), which hold however the connector *)
(* is used, as does the ownership of dialled connections (OwnInv); one     *)
(* call of Connect adds the stages of a connection (StageInv), on which    *)
(* rest the content of the buffer (BufInv) and the mapping to Link.        *)
(***************************************************************************)
EXTENDS WsConnector, TLAPS

-----------------------------------------------------------------------------
(***************************************************************************)
(* The invariants                                                          *)
(***************************************************************************)
\* reconnecting is set inside reconnectWithBackoff only, and whoever is past the
\* compare-and-swap of Close, or past readLoop, left running clear.  readLoop
\* is not running before startOnce has fired, and dials after counting an attempt.
FlagInv ==
  /\ reconnecting => pc[Reader] \in {"redial", "dialing", "store", "backoff"}
  /\ \A t \in Threads : pc[t] \in {"cancel", "shut", "done"} => ~running
  /\ ~started => pc[Reader] = "off"
  /\ pc[Reader] = "dialing" => attempt > 0

\* A dialled connection is alive and nobody else's until it is stored.
Storing(t) == pc[t] = "store"

OwnInv ==
  \A t \in Threads : Storing(t) =>
    /\ sock[hold[t]] # "closed"
    /\ hold[t] # cur
    /\ \A u \in Threads : u # t => hold[u] # hold[t]

\* One goroutine connects.
OneConnect == \A d, e \in Dialers : d = e

\* The stages of a connection.  Until readLoop starts only Connect touches Conn;
\* from then on readLoop reads the current connection or one that was cleared,
\* and dials with nothing open.
StageInv ==
  /\ \A t \in Callers : pc[t] \in {"dialing", "store", "start"} => t \in Dialers /\ ~started
  /\ ~started /\ (\A d \in Dialers : pc[d] # "start") => cur = None
  /\ pc[Reader] \in {"reconnect", "redial", "dialing", "backoff", "store"} => cur = None
  /\ pc[Reader] \in {"read", "handle", "drop"} => cur \in {None, hold[Reader]}
  /\ pc[Reader] = "drop" => sock[hold[Reader]] = "closed"
  /\ \A x \in Conns : sock[x] # "closed" =>
       x = cur \/ \E t \in Threads : Storing(t) /\ hold[t] = x

\* readLoop's buffer holds bytes of the connection that it reads, or will read
\* unless it dials again and empties the buffer.
BufInv ==
  /\ pc[Reader] = "off" => buf = {}
  /\ FramesOfOneConn
  /\ pc[Reader] \in {"loop", "snap"} /\ cur # None => buf \subseteq {cur}

-----------------------------------------------------------------------------
(***************************************************************************)
(* Types and flags                                                         *)
(***************************************************************************)
\* A pause is a number, whatever the build makes of one beyond the range.
LEMMA PauseIsInt == ASSUME NEW n \in Nat, n > 0 PROVE ExpBackoff(n) \subseteq Int
<1>1. BaseDelay * 2^(n - 1) \in Int /\ MaxInt \in Int
  BY DelayAssumption DEF MaxInt
<1>2. Duration(BaseDelay * 2^(n - 1)) \subseteq Int
  BY <1>1 DEF Duration
<1>. QED
  BY <1>2, DelayAssumption DEF ExpBackoff

\* Every step keeps every variable in its type, every used connection non-nil,
\* and FlagInv.
LEMMA TypeStep == TypeOK /\ FlagInv /\ [Next]_vars => (TypeOK /\ FlagInv)'
<1>. SUFFICES ASSUME TypeOK, FlagInv, [Next]_vars PROVE (TypeOK /\ FlagInv)'
  OBVIOUS
<1>. USE ThreadAssumption, DelayAssumption
     DEF TypeOK, FlagInv, Threads, Callers, CallerPCs, ReaderPCs, UsesConn, Goto, Moves, Hold,
         flags, tries, Closing
<1>1. ASSUME NEW t \in Dialers, ConnectCall(t) PROVE (TypeOK /\ FlagInv)'
  BY <1>1 DEF ConnectCall
<1>2. ASSUME NEW t \in Dialers, Dialed(t) PROVE (TypeOK /\ FlagInv)'
  BY <1>2 DEF Dialed
<1>3. ASSUME NEW t \in Dialers, ConnectFailed(t) PROVE (TypeOK /\ FlagInv)'
  BY <1>3 DEF ConnectFailed
<1>4. ASSUME NEW t \in Dialers, ConnectStore(t) PROVE (TypeOK /\ FlagInv)'
  BY <1>4 DEF ConnectStore, Store
<1>5. ASSUME NEW t \in Dialers, ConnectStart(t) PROVE (TypeOK /\ FlagInv)'
  BY <1>5 DEF ConnectStart
<1>6. ASSUME NEW t \in Senders, SendCall(t) PROVE (TypeOK /\ FlagInv)'
  BY <1>6 DEF SendCall
<1>7. ASSUME NEW t \in Senders, SendSnapshot(t) PROVE (TypeOK /\ FlagInv)'
  BY <1>7 DEF SendSnapshot
<1>8. ASSUME NEW t \in Senders, SendLock(t) PROVE (TypeOK /\ FlagInv)'
  BY <1>8 DEF SendLock
<1>9. ASSUME NEW t \in Senders, SendWritten(t) PROVE (TypeOK /\ FlagInv)'
  BY <1>9 DEF SendWritten
<1>10. ASSUME NEW t \in Senders, SendBroken(t) PROVE (TypeOK /\ FlagInv)'
  BY <1>10 DEF SendBroken
<1>11. ASSUME NEW t \in Senders, SendFail(t) PROVE (TypeOK /\ FlagInv)'
  BY <1>11 DEF SendFail
<1>12. ASSUME NEW t \in Closers \cup {Reader}, CloseCall(t) PROVE (TypeOK /\ FlagInv)'
  BY <1>12 DEF CloseCall
<1>13. ASSUME NEW t \in Closers \cup {Reader}, CloseCancel(t) PROVE (TypeOK /\ FlagInv)'
  BY <1>13 DEF CloseCancel
<1>14. ASSUME NEW t \in Closers \cup {Reader}, CloseShut(t) PROVE (TypeOK /\ FlagInv)'
  BY <1>14 DEF CloseShut
<1>15. CASE LoopHead
  BY <1>15 DEF LoopHead
<1>16. CASE LoopSnapshot
  BY <1>16 DEF LoopSnapshot
<1>17. CASE ReadAgain
  BY <1>17 DEF ReadAgain
<1>18. CASE ReadMessage
  BY <1>18 DEF ReadMessage
<1>19. CASE ReadBroken
  BY <1>19 DEF ReadBroken, ReadClose
<1>20. CASE ReadProtocolError
  BY <1>20 DEF ReadProtocolError, ReadClose
<1>21. CASE Undecodable
  BY <1>21 DEF Undecodable, ReadClose
<1>22. CASE DecoderPanics
  BY <1>22 DEF DecoderPanics
<1>23. CASE HandlerReturns
  BY <1>23 DEF HandlerReturns
<1>24. CASE Drop
  BY <1>24 DEF Drop
<1>25. CASE ReaderExit
  BY <1>25 DEF ReaderExit
<1>26. CASE ReconnectEnter
  BY <1>26 DEF ReconnectEnter
<1>27. CASE ReconnectRefused
  BY <1>27 DEF ReconnectRefused
<1>28. CASE RedialCall
  BY <1>28 DEF RedialCall, MoreAttempts
<1>29. CASE RedialNoMore
  BY <1>29 DEF RedialNoMore, Returning
<1>30. CASE RedialDialed
  BY <1>30 DEF RedialDialed, Dialed
<1>31. CASE RedialFailed
  <2>1. delay' \in Int
    <3>1. attempt \in Nat /\ attempt > 0 /\ delay' \in ExpBackoff(attempt)
      BY <1>31 DEF RedialFailed
    <3>. QED
      BY <3>1, PauseIsInt
  <2>. QED
    BY <1>31, <2>1 DEF RedialFailed
<1>32. CASE RedialStore
  BY <1>32 DEF RedialStore, Store, Returning
<1>33. CASE BackoffElapsed
  BY <1>33 DEF BackoffElapsed
<1>34. CASE BackoffCancelled
  BY <1>34 DEF BackoffCancelled, Returning
<1>35. ASSUME NEW x \in Conns, ConnBreaks(x) PROVE (TypeOK /\ FlagInv)'
  BY <1>35 DEF ConnBreaks
<1>36. CASE UNCHANGED vars
  BY <1>36 DEF vars
<1>. QED
  BY <1>1, <1>2, <1>3, <1>4, <1>5, <1>6, <1>7, <1>8, <1>9, <1>10, <1>11, <1>12, <1>13,
     <1>14, <1>15, <1>16, <1>17, <1>18, <1>19, <1>20, <1>21, <1>22, <1>23, <1>24, <1>25,
     <1>26, <1>27, <1>28, <1>29, <1>30, <1>31, <1>32, <1>33, <1>34, <1>35, <1>36
  DEF Next, Connect, SendMessage, Close, ReadLoop, Reconnect

\* The initial states have every variable in its type.
LEMMA TypeInit == Init => TypeOK /\ FlagInv
<1>. SUFFICES ASSUME Init PROVE TypeOK /\ FlagInv
  OBVIOUS
<1>1. \A t \in Threads : pc[t] = IF t = Reader THEN "off" ELSE "idle"
  BY DEF Init
<1>2. \A t \in Threads : /\ pc[t] \in CallerPCs \cup ReaderPCs /\ pc[t] \notin UsesConn
                         /\ pc[t] \notin {"cancel", "shut", "done"}
  BY <1>1 DEF CallerPCs, ReaderPCs, UsesConn
<1>3. (\A t \in Callers : pc[t] \in CallerPCs) /\ pc[Reader] = "off" /\ pc[Reader] \in ReaderPCs
  BY <1>1, ThreadAssumption DEF CallerPCs, ReaderPCs, Threads
<1>4. pc \in [Threads -> CallerPCs \cup ReaderPCs]
  BY <1>2 DEF Init
<1>5. 0 \in 0..MaxCount
  BY DelayAssumption
<1>6. hold \in [Threads -> Conns \cup {None}] /\ sock \in [Conns -> {"open", "broken", "closed"}]
      /\ buf \subseteq Conns /\ attempt \in 0..MaxCount /\ delay \in Int
  BY <1>5 DEF Init
<1>7. TypeOK
  BY <1>2, <1>3, <1>4, <1>6 DEF Init, TypeOK
<1>8. FlagInv
  BY <1>2, <1>3 DEF Init, FlagInv
<1>. QED
  BY <1>7, <1>8

\* FlagInv is an invariant of the connector, with the types.
LEMMA FlagsCorrect == Spec => [](TypeOK /\ FlagInv)
BY TypeInit, TypeStep, PTL DEF Spec

\* The connector never uses a nil connection, the compare-and-swap on reconnecting
\* never fails, and every variable keeps its type.
THEOREM TypeCorrect == Spec => []TypeOK
BY FlagsCorrect, PTL

-----------------------------------------------------------------------------
(***************************************************************************)
(* Ownership of connections                                                *)
(***************************************************************************)
\* Every step keeps OwnInv.
LEMMA OwnStep == TypeOK /\ OwnInv /\ [Next]_vars => OwnInv'
<1>. SUFFICES ASSUME TypeOK, OwnInv, [Next]_vars PROVE OwnInv'
  OBVIOUS
<1>. USE ThreadAssumption
     DEF TypeOK, OwnInv, Storing, Threads, Callers, CallerPCs, ReaderPCs, UsesConn, Goto, Moves,
         Hold, flags, tries, Closing
<1>1. ASSUME NEW t \in Dialers, ConnectCall(t) PROVE OwnInv'
  BY <1>1 DEF ConnectCall
<1>2. ASSUME NEW t \in Dialers, Dialed(t) PROVE OwnInv'
  BY <1>2 DEF Dialed, Fresh
<1>3. ASSUME NEW t \in Dialers, ConnectFailed(t) PROVE OwnInv'
  BY <1>3 DEF ConnectFailed
<1>4. ASSUME NEW t \in Dialers, ConnectStore(t) PROVE OwnInv'
  BY <1>4 DEF ConnectStore, Store
<1>5. ASSUME NEW t \in Dialers, ConnectStart(t) PROVE OwnInv'
  BY <1>5 DEF ConnectStart
<1>6. ASSUME NEW t \in Senders, SendCall(t) PROVE OwnInv'
  BY <1>6 DEF SendCall
<1>7. ASSUME NEW t \in Senders, SendSnapshot(t) PROVE OwnInv'
  BY <1>7 DEF SendSnapshot
<1>8. ASSUME NEW t \in Senders, SendLock(t) PROVE OwnInv'
  BY <1>8 DEF SendLock
<1>9. ASSUME NEW t \in Senders, SendWritten(t) PROVE OwnInv'
  BY <1>9 DEF SendWritten
<1>10. ASSUME NEW t \in Senders, SendBroken(t) PROVE OwnInv'
  BY <1>10 DEF SendBroken
<1>11. ASSUME NEW t \in Senders, SendFail(t) PROVE OwnInv'
  BY <1>11 DEF SendFail
<1>12. ASSUME NEW t \in Closers \cup {Reader}, CloseCall(t) PROVE OwnInv'
  BY <1>12 DEF CloseCall
<1>13. ASSUME NEW t \in Closers \cup {Reader}, CloseCancel(t) PROVE OwnInv'
  BY <1>13 DEF CloseCancel
<1>14. ASSUME NEW t \in Closers \cup {Reader}, CloseShut(t) PROVE OwnInv'
  BY <1>14 DEF CloseShut
<1>15. CASE LoopHead
  BY <1>15 DEF LoopHead
<1>16. CASE LoopSnapshot
  BY <1>16 DEF LoopSnapshot
<1>17. CASE ReadAgain
  BY <1>17 DEF ReadAgain
<1>18. CASE ReadMessage
  BY <1>18 DEF ReadMessage
<1>19. CASE ReadBroken
  BY <1>19 DEF ReadBroken, ReadClose
<1>20. CASE ReadProtocolError
  BY <1>20 DEF ReadProtocolError, ReadClose
<1>21. CASE Undecodable
  BY <1>21 DEF Undecodable, ReadClose
<1>22. CASE DecoderPanics
  BY <1>22 DEF DecoderPanics
<1>23. CASE HandlerReturns
  BY <1>23 DEF HandlerReturns
<1>24. CASE Drop
  BY <1>24 DEF Drop
<1>25. CASE ReaderExit
  BY <1>25 DEF ReaderExit
<1>26. CASE ReconnectEnter
  BY <1>26 DEF ReconnectEnter
<1>27. CASE ReconnectRefused
  BY <1>27 DEF ReconnectRefused
<1>28. CASE RedialCall
  BY <1>28 DEF RedialCall, MoreAttempts
<1>29. CASE RedialNoMore
  BY <1>29 DEF RedialNoMore, Returning
<1>30. CASE RedialDialed
  BY <1>30 DEF RedialDialed, Dialed, Fresh
<1>31. CASE RedialFailed
  BY <1>31 DEF RedialFailed
<1>32. CASE RedialStore
  BY <1>32 DEF RedialStore, Store, Returning
<1>33. CASE BackoffElapsed
  BY <1>33 DEF BackoffElapsed
<1>34. CASE BackoffCancelled
  BY <1>34 DEF BackoffCancelled, Returning
<1>35. ASSUME NEW x \in Conns, ConnBreaks(x) PROVE OwnInv'
  BY <1>35 DEF ConnBreaks
<1>36. CASE UNCHANGED vars
  BY <1>36 DEF vars
<1>. QED
  BY <1>1, <1>2, <1>3, <1>4, <1>5, <1>6, <1>7, <1>8, <1>9, <1>10, <1>11, <1>12, <1>13,
     <1>14, <1>15, <1>16, <1>17, <1>18, <1>19, <1>20, <1>21, <1>22, <1>23, <1>24, <1>25,
     <1>26, <1>27, <1>28, <1>29, <1>30, <1>31, <1>32, <1>33, <1>34, <1>35, <1>36
  DEF Next, Connect, SendMessage, Close, ReadLoop, Reconnect

-----------------------------------------------------------------------------
(***************************************************************************)
(* One call of Connect                                                     *)
(***************************************************************************)
\* Every step keeps StageInv when one goroutine connects.
LEMMA StageStep ==
  OneConnect /\ TypeOK /\ FlagInv /\ OwnInv /\ StageInv /\ [Next]_vars => StageInv'
<1>. SUFFICES ASSUME OneConnect, TypeOK, FlagInv, OwnInv, StageInv, [Next]_vars PROVE StageInv'
  OBVIOUS
<1>. USE ThreadAssumption
     DEF OneConnect, TypeOK, FlagInv, OwnInv, Storing, StageInv, Threads, Callers, CallerPCs,
         ReaderPCs, UsesConn, Goto, Moves, Hold, flags, tries, Closing
<1>1. ASSUME NEW t \in Dialers, ConnectCall(t) PROVE StageInv'
  BY <1>1 DEF ConnectCall
<1>2. ASSUME NEW t \in Dialers, Dialed(t) PROVE StageInv'
  BY <1>2 DEF Dialed, Fresh
<1>3. ASSUME NEW t \in Dialers, ConnectFailed(t) PROVE StageInv'
  BY <1>3 DEF ConnectFailed
<1>4. ASSUME NEW t \in Dialers, ConnectStore(t) PROVE StageInv'
  BY <1>4 DEF ConnectStore, Store
<1>5. ASSUME NEW t \in Dialers, ConnectStart(t) PROVE StageInv'
  BY <1>5 DEF ConnectStart
<1>6. ASSUME NEW t \in Senders, SendCall(t) PROVE StageInv'
  BY <1>6 DEF SendCall
<1>7. ASSUME NEW t \in Senders, SendSnapshot(t) PROVE StageInv'
  BY <1>7 DEF SendSnapshot
<1>8. ASSUME NEW t \in Senders, SendLock(t) PROVE StageInv'
  BY <1>8 DEF SendLock
<1>9. ASSUME NEW t \in Senders, SendWritten(t) PROVE StageInv'
  BY <1>9 DEF SendWritten
<1>10. ASSUME NEW t \in Senders, SendBroken(t) PROVE StageInv'
  BY <1>10 DEF SendBroken
<1>11. ASSUME NEW t \in Senders, SendFail(t) PROVE StageInv'
  BY <1>11 DEF SendFail
<1>12. ASSUME NEW t \in Closers \cup {Reader}, CloseCall(t) PROVE StageInv'
  BY <1>12 DEF CloseCall
<1>13. ASSUME NEW t \in Closers \cup {Reader}, CloseCancel(t) PROVE StageInv'
  BY <1>13 DEF CloseCancel
<1>14. ASSUME NEW t \in Closers \cup {Reader}, CloseShut(t) PROVE StageInv'
  BY <1>14 DEF CloseShut
<1>15. CASE LoopHead
  BY <1>15 DEF LoopHead
<1>16. CASE LoopSnapshot
  BY <1>16 DEF LoopSnapshot
<1>17. CASE ReadAgain
  BY <1>17 DEF ReadAgain
<1>18. CASE ReadMessage
  BY <1>18 DEF ReadMessage
<1>19. CASE ReadBroken
  BY <1>19 DEF ReadBroken, ReadClose
<1>20. CASE ReadProtocolError
  BY <1>20 DEF ReadProtocolError, ReadClose
<1>21. CASE Undecodable
  BY <1>21 DEF Undecodable, ReadClose
<1>22. CASE DecoderPanics
  BY <1>22 DEF DecoderPanics
<1>23. CASE HandlerReturns
  BY <1>23 DEF HandlerReturns
<1>24. CASE Drop
  BY <1>24 DEF Drop
<1>25. CASE ReaderExit
  BY <1>25 DEF ReaderExit
<1>26. CASE ReconnectEnter
  BY <1>26 DEF ReconnectEnter
<1>27. CASE ReconnectRefused
  BY <1>27 DEF ReconnectRefused
<1>28. CASE RedialCall
  BY <1>28 DEF RedialCall, MoreAttempts
<1>29. CASE RedialNoMore
  BY <1>29 DEF RedialNoMore, Returning
<1>30. CASE RedialDialed
  BY <1>30 DEF RedialDialed, Dialed, Fresh
<1>31. CASE RedialFailed
  BY <1>31 DEF RedialFailed
<1>32. CASE RedialStore
  BY <1>32 DEF RedialStore, Store, Returning
<1>33. CASE BackoffElapsed
  BY <1>33 DEF BackoffElapsed
<1>34. CASE BackoffCancelled
  BY <1>34 DEF BackoffCancelled, Returning
<1>35. ASSUME NEW x \in Conns, ConnBreaks(x) PROVE StageInv'
  BY <1>35 DEF ConnBreaks
<1>36. CASE UNCHANGED vars
  BY <1>36 DEF vars
<1>. QED
  BY <1>1, <1>2, <1>3, <1>4, <1>5, <1>6, <1>7, <1>8, <1>9, <1>10, <1>11, <1>12, <1>13,
     <1>14, <1>15, <1>16, <1>17, <1>18, <1>19, <1>20, <1>21, <1>22, <1>23, <1>24, <1>25,
     <1>26, <1>27, <1>28, <1>29, <1>30, <1>31, <1>32, <1>33, <1>34, <1>35, <1>36
  DEF Next, Connect, SendMessage, Close, ReadLoop, Reconnect

\* Every step keeps BufInv when one goroutine connects.
LEMMA BufStep ==
  OneConnect /\ TypeOK /\ FlagInv /\ StageInv /\ BufInv /\ [Next]_vars => BufInv'
<1>. SUFFICES ASSUME OneConnect, TypeOK, FlagInv, StageInv, BufInv, [Next]_vars PROVE BufInv'
  OBVIOUS
<1>. USE ThreadAssumption
     DEF OneConnect, TypeOK, FlagInv, StageInv, BufInv, FramesOfOneConn, Threads, Callers,
         CallerPCs, ReaderPCs, UsesConn, Goto, Moves, Hold, flags, tries
<1>1. ASSUME NEW t \in Dialers, ConnectCall(t) PROVE BufInv'
  BY <1>1 DEF ConnectCall
<1>2. ASSUME NEW t \in Dialers, Dialed(t) PROVE BufInv'
  BY <1>2 DEF Dialed
<1>3. ASSUME NEW t \in Dialers, ConnectFailed(t) PROVE BufInv'
  BY <1>3 DEF ConnectFailed
<1>4. ASSUME NEW t \in Dialers, ConnectStore(t) PROVE BufInv'
  BY <1>4 DEF ConnectStore, Store
<1>5. ASSUME NEW t \in Dialers, ConnectStart(t) PROVE BufInv'
  BY <1>5 DEF ConnectStart
<1>6. ASSUME NEW t \in Senders, SendCall(t) PROVE BufInv'
  BY <1>6 DEF SendCall
<1>7. ASSUME NEW t \in Senders, SendSnapshot(t) PROVE BufInv'
  BY <1>7 DEF SendSnapshot
<1>8. ASSUME NEW t \in Senders, SendLock(t) PROVE BufInv'
  BY <1>8 DEF SendLock
<1>9. ASSUME NEW t \in Senders, SendWritten(t) PROVE BufInv'
  BY <1>9 DEF SendWritten
<1>10. ASSUME NEW t \in Senders, SendBroken(t) PROVE BufInv'
  BY <1>10 DEF SendBroken
<1>11. ASSUME NEW t \in Senders, SendFail(t) PROVE BufInv'
  BY <1>11 DEF SendFail
<1>12. ASSUME NEW t \in Closers \cup {Reader}, CloseCall(t) PROVE BufInv'
  BY <1>12 DEF CloseCall
<1>13. ASSUME NEW t \in Closers \cup {Reader}, CloseCancel(t) PROVE BufInv'
  BY <1>13 DEF CloseCancel
<1>14. ASSUME NEW t \in Closers \cup {Reader}, CloseShut(t) PROVE BufInv'
  BY <1>14 DEF CloseShut
<1>15. CASE LoopHead
  BY <1>15 DEF LoopHead
<1>16. CASE LoopSnapshot
  BY <1>16 DEF LoopSnapshot
<1>17. CASE ReadAgain
  BY <1>17 DEF ReadAgain
<1>18. CASE ReadMessage
  BY <1>18 DEF ReadMessage
<1>19. CASE ReadBroken
  BY <1>19 DEF ReadBroken, ReadClose
<1>20. CASE ReadProtocolError
  BY <1>20 DEF ReadProtocolError, ReadClose
<1>21. CASE Undecodable
  BY <1>21 DEF Undecodable, ReadClose
<1>22. CASE DecoderPanics
  BY <1>22 DEF DecoderPanics
<1>23. CASE HandlerReturns
  BY <1>23 DEF HandlerReturns
<1>24. CASE Drop
  BY <1>24 DEF Drop
<1>25. CASE ReaderExit
  BY <1>25 DEF ReaderExit
<1>26. CASE ReconnectEnter
  BY <1>26 DEF ReconnectEnter
<1>27. CASE ReconnectRefused
  BY <1>27 DEF ReconnectRefused
<1>28. CASE RedialCall
  BY <1>28 DEF RedialCall, MoreAttempts
<1>29. CASE RedialNoMore
  BY <1>29 DEF RedialNoMore, Returning
<1>30. CASE RedialDialed
  BY <1>30 DEF RedialDialed, Dialed
<1>31. CASE RedialFailed
  BY <1>31 DEF RedialFailed
<1>32. CASE RedialStore
  BY <1>32 DEF RedialStore, Store, Returning
<1>33. CASE BackoffElapsed
  BY <1>33 DEF BackoffElapsed
<1>34. CASE BackoffCancelled
  BY <1>34 DEF BackoffCancelled, Returning
<1>35. ASSUME NEW x \in Conns, ConnBreaks(x) PROVE BufInv'
  BY <1>35 DEF ConnBreaks
<1>36. CASE UNCHANGED vars
  BY <1>36 DEF vars
<1>. QED
  BY <1>1, <1>2, <1>3, <1>4, <1>5, <1>6, <1>7, <1>8, <1>9, <1>10, <1>11, <1>12, <1>13,
     <1>14, <1>15, <1>16, <1>17, <1>18, <1>19, <1>20, <1>21, <1>22, <1>23, <1>24, <1>25,
     <1>26, <1>27, <1>28, <1>29, <1>30, <1>31, <1>32, <1>33, <1>34, <1>35, <1>36
  DEF Next, Connect, SendMessage, Close, ReadLoop, Reconnect

\* StageInv and BufInv are invariants of a connector that is connected once.
LEMMA StageCorrect == ASSUME OneConnect PROVE Spec => [](OwnInv /\ StageInv /\ BufInv)
<1>1. Init => OwnInv /\ StageInv /\ BufInv
  BY ThreadAssumption DEF Init, OwnInv, StageInv, BufInv, FramesOfOneConn, Storing, Threads, Callers
<1>. QED
  BY <1>1, OwnStep, StageStep, BufStep, FlagsCorrect, PTL DEF Spec

\* A frame is never put together from the bytes of two connections, for any number
\* of senders, failures and reconnections after one call of Connect.
THEOREM FramesUnmixed == ASSUME OneConnect PROVE Spec => []FramesOfOneConn
<1>1. BufInv => FramesOfOneConn
  BY DEF BufInv
<1>. QED
  BY <1>1, StageCorrect, PTL

-----------------------------------------------------------------------------
(***************************************************************************)
(* The connector, connected once, implements Link                          *)
(***************************************************************************)
Dialing(t) == pc[t] = "dialing"

\* What StageInv says of the mapping to Link: one goroutine dials or has dialled,
\* and nothing is open then but what it dialled.
LinkInv ==
  /\ Lost = {}
  /\ \A t, u \in Threads : (Dialing(t) \/ Storing(t)) /\ (Dialing(u) \/ Storing(u)) => t = u
  /\ \A t \in Threads : Dialing(t) \/ Storing(t) => cur = None
  /\ \A t \in Threads : Storing(t) => hold[t] \in Conns /\ sock[hold[t]] # "closed"

\* LinkInv follows from the other invariants.
LEMMA LinkInvHolds ==
  ASSUME OneConnect, TypeOK, FlagInv, OwnInv, StageInv
  PROVE  LinkInv
<1>. USE DEF OneConnect, TypeOK, FlagInv, OwnInv, StageInv, Storing, Dialing, Threads, Callers,
             CallerPCs, ReaderPCs, UsesConn
<1>1. Lost = {}
  BY DEF Lost, Arriving
<1>2. ASSUME NEW t \in Threads, Dialing(t) \/ Storing(t)
      PROVE  t \in Dialers \cup {Reader} /\ cur = None
  BY <1>2
<1>3. \A t, u \in Threads : (Dialing(t) \/ Storing(t)) /\ (Dialing(u) \/ Storing(u)) => t = u
  BY <1>2
<1>. QED
  BY <1>1, <1>2, <1>3 DEF LinkInv

\* The mapping to Link while a goroutine dials, has dialled, or neither.
PhaseMap ==
  /\ \A t \in Threads : Dialing(t) => linkPhase = "dialing" /\ linkConn = None
  /\ \A t \in Threads : Storing(t) => linkPhase = "dialed" /\ linkConn = hold[t]
  /\ (\A t \in Threads : ~Dialing(t) /\ ~Storing(t)) =>
       /\ linkPhase = IF cur = None THEN "down" ELSE IF sock[cur] = "closed" THEN "dead" ELSE "up"
       /\ linkConn = cur

\* LinkInv decides the mapping.
LEMMA PhaseMapHolds == ASSUME LinkInv PROVE PhaseMap
<1>1. ASSUME NEW t \in Threads, Dialing(t) PROVE linkPhase = "dialing" /\ linkConn = None
  <2>1. Arriving = {}
    BY <1>1 DEF LinkInv, Arriving, Dialing, Storing
  <2>. QED
    BY <1>1, <2>1 DEF LinkInv, linkPhase, linkConn, Dialing
<1>2. ASSUME NEW t \in Threads, Storing(t) PROVE linkPhase = "dialed" /\ linkConn = hold[t]
  <2>1. Arriving = {t} /\ ~ \E u \in Threads : Dialing(u)
    BY <1>2 DEF LinkInv, Arriving, Dialing, Storing
  <2>. QED
    BY <2>1 DEF LinkInv, linkPhase, linkConn, Dialing
<1>3. ASSUME \A t \in Threads : ~Dialing(t) /\ ~Storing(t)
      PROVE  /\ linkPhase = IF cur = None THEN "down" ELSE IF sock[cur] = "closed" THEN "dead" ELSE "up"
             /\ linkConn = cur
  <2>1. Arriving = {}
    BY <1>3 DEF Arriving, Storing
  <2>. QED
    BY <1>3, <2>1 DEF LinkInv, linkPhase, linkConn, Dialing
<1>. QED
  BY <1>1, <1>2, <1>3 DEF PhaseMap

\* A step in which nobody begins or ends a dial or stores a socket, and which
\* leaves running, Conn and the socket in it as they are, is none of Link.
LEMMA NoLinkStep ==
  ASSUME PhaseMap, PhaseMap', running' = running, cur' = cur,
         cur # None => (sock'[cur] = "closed" <=> sock[cur] = "closed"),
         \A t \in Threads : /\ Dialing(t)' <=> Dialing(t)
                            /\ Storing(t)' <=> Storing(t)
                            /\ Storing(t) => hold'[t] = hold[t]
  PROVE  UNCHANGED L!vars
<1>1. CASE \E t \in Threads : Dialing(t) \/ Storing(t)
  BY <1>1 DEF PhaseMap, L!vars
<1>2. CASE \A t \in Threads : ~Dialing(t) /\ ~Storing(t)
  BY <1>2 DEF PhaseMap, L!vars
<1>. QED
  BY <1>1, <1>2

\* Every step of the connector is a step of Link or none.
LEMMA LinkStep ==
  ASSUME OneConnect, TypeOK, FlagInv, OwnInv, StageInv, LinkInv, PhaseMap,
         TypeOK', LinkInv', PhaseMap', [Next]_vars
  PROVE  [L!Next]_(L!vars)
<1>. USE ThreadAssumption
     DEF TypeOK, LinkInv, Dialing, Storing, Threads, Callers, CallerPCs, ReaderPCs,
         UsesConn, Goto, Moves, Hold, flags, tries
<1>1. ASSUME NEW t \in Dialers, ConnectCall(t) PROVE L!Next
  BY <1>1 DEF ConnectCall, PhaseMap, L!Next, L!Dial, OneConnect, FlagInv, StageInv
<1>2. ASSUME NEW t \in Dialers, Dialed(t) PROVE L!Next
  BY <1>2 DEF Dialed, PhaseMap, L!Next, L!Dialed, Fresh
<1>3. ASSUME NEW t \in Dialers, ConnectFailed(t) PROVE L!Next
  BY <1>3 DEF ConnectFailed, PhaseMap, L!Next, L!DialFails
<1>4. ASSUME NEW t \in Dialers, ConnectStore(t) PROVE L!Next
  BY <1>4 DEF ConnectStore, Store, PhaseMap, L!Next, L!Install
<1>5. ASSUME NEW t \in Dialers, ConnectStart(t) PROVE UNCHANGED L!vars
  BY <1>5, NoLinkStep DEF ConnectStart, FlagInv
<1>6. ASSUME NEW t \in Senders, SendCall(t) PROVE UNCHANGED L!vars
  BY <1>6, NoLinkStep DEF SendCall
<1>7. ASSUME NEW t \in Senders, SendSnapshot(t) PROVE UNCHANGED L!vars
  BY <1>7, NoLinkStep DEF SendSnapshot
<1>8. ASSUME NEW t \in Senders, SendLock(t) PROVE UNCHANGED L!vars
  BY <1>8, NoLinkStep DEF SendLock
<1>9. ASSUME NEW t \in Senders, SendWritten(t) PROVE UNCHANGED L!vars
  BY <1>9, NoLinkStep DEF SendWritten
<1>10. ASSUME NEW t \in Senders, SendBroken(t) PROVE UNCHANGED L!vars
  BY <1>10, NoLinkStep DEF SendBroken
<1>11. ASSUME NEW t \in Senders, SendFail(t) PROVE L!Next \/ UNCHANGED L!vars
  <2>1. CASE cur = hold[t]
    BY <1>11, <2>1 DEF SendFail, PhaseMap, L!Next, L!Drop, Closing
  <2>2. CASE cur # hold[t]
    BY <1>11, <2>2, NoLinkStep DEF SendFail, Closing
  <2>. QED
    BY <2>1, <2>2
<1>12. ASSUME NEW t \in Closers \cup {Reader}, CloseCall(t) PROVE L!Next
  BY <1>12 DEF CloseCall, PhaseMap, L!Next, L!Close
<1>13. ASSUME NEW t \in Closers \cup {Reader}, CloseCancel(t) PROVE UNCHANGED L!vars
  BY <1>13, NoLinkStep DEF CloseCancel
<1>14. ASSUME NEW t \in Closers \cup {Reader}, CloseShut(t) PROVE L!Next \/ UNCHANGED L!vars
  <2>1. CASE cur # None
    BY <1>14, <2>1 DEF CloseShut, PhaseMap, L!Next, L!Drop, Closing
  <2>2. CASE cur = None
    BY <1>14, <2>2, NoLinkStep DEF CloseShut, Closing
  <2>. QED
    BY <2>1, <2>2
<1>15. ASSUME LoopHead PROVE UNCHANGED L!vars
  BY <1>15, NoLinkStep DEF LoopHead
<1>16. ASSUME LoopSnapshot PROVE UNCHANGED L!vars
  BY <1>16, NoLinkStep DEF LoopSnapshot
<1>17. ASSUME ReadAgain PROVE UNCHANGED L!vars
  BY <1>17, NoLinkStep DEF ReadAgain
<1>18. ASSUME ReadMessage PROVE UNCHANGED L!vars
  BY <1>18, NoLinkStep DEF ReadMessage
<1>19. ASSUME ReadBroken PROVE L!Next \/ UNCHANGED L!vars
  <2>1. CASE cur = hold[Reader] /\ sock[cur] # "closed"
    BY <1>19, <2>1 DEF ReadBroken, ReadClose, PhaseMap, L!Next, L!Kill, Closing
  <2>2. CASE cur # hold[Reader] \/ sock[cur] = "closed"
    BY <1>19, <2>2, NoLinkStep DEF ReadBroken, ReadClose, Closing
  <2>. QED
    BY <2>1, <2>2
<1>20. ASSUME ReadProtocolError PROVE L!Next \/ UNCHANGED L!vars
  <2>1. CASE cur = hold[Reader] /\ sock[cur] # "closed"
    BY <1>20, <2>1 DEF ReadProtocolError, ReadClose, PhaseMap, L!Next, L!Kill, Closing
  <2>2. CASE cur # hold[Reader] \/ sock[cur] = "closed"
    BY <1>20, <2>2, NoLinkStep DEF ReadProtocolError, ReadClose, Closing
  <2>. QED
    BY <2>1, <2>2
<1>21. ASSUME Undecodable PROVE L!Next \/ UNCHANGED L!vars
  <2>1. CASE cur = hold[Reader] /\ sock[cur] # "closed"
    BY <1>21, <2>1 DEF Undecodable, ReadClose, PhaseMap, L!Next, L!Kill, Closing
  <2>2. CASE cur # hold[Reader] \/ sock[cur] = "closed"
    BY <1>21, <2>2, NoLinkStep DEF Undecodable, ReadClose, Closing
  <2>. QED
    BY <2>1, <2>2
<1>22. ASSUME DecoderPanics PROVE UNCHANGED L!vars
  BY <1>22, NoLinkStep DEF DecoderPanics
<1>23. ASSUME HandlerReturns PROVE UNCHANGED L!vars
  BY <1>23, NoLinkStep DEF HandlerReturns
<1>24. ASSUME Drop PROVE L!Next \/ UNCHANGED L!vars
  <2>1. CASE cur = hold[Reader]
    BY <1>24, <2>1 DEF Drop, PhaseMap, L!Next, L!Drop
  <2>2. CASE cur # hold[Reader]
    BY <1>24, <2>2, NoLinkStep DEF Drop
  <2>. QED
    BY <2>1, <2>2
<1>25. ASSUME ReaderExit PROVE UNCHANGED L!vars
  BY <1>25, NoLinkStep DEF ReaderExit
<1>26. ASSUME ReconnectEnter PROVE UNCHANGED L!vars
  BY <1>26, NoLinkStep DEF ReconnectEnter
<1>27. ASSUME ReconnectRefused PROVE UNCHANGED L!vars
  BY <1>27, NoLinkStep DEF ReconnectRefused
<1>28. ASSUME RedialCall PROVE L!Next
  BY <1>28 DEF RedialCall, MoreAttempts, PhaseMap, L!Next, L!Dial, OneConnect, FlagInv, StageInv
<1>29. ASSUME RedialNoMore PROVE UNCHANGED L!vars
  BY <1>29, NoLinkStep DEF RedialNoMore, Returning
<1>30. ASSUME RedialDialed PROVE L!Next
  BY <1>30 DEF RedialDialed, Dialed, PhaseMap, L!Next, L!Dialed, Fresh
<1>31. ASSUME RedialFailed PROVE L!Next
  BY <1>31 DEF RedialFailed, PhaseMap, L!Next, L!DialFails
<1>32. ASSUME RedialStore PROVE L!Next
  BY <1>32 DEF RedialStore, Store, Returning, PhaseMap, L!Next, L!Install
<1>33. ASSUME BackoffElapsed PROVE UNCHANGED L!vars
  BY <1>33, NoLinkStep DEF BackoffElapsed
<1>34. ASSUME BackoffCancelled PROVE UNCHANGED L!vars
  BY <1>34, NoLinkStep DEF BackoffCancelled, Returning
<1>35. ASSUME NEW x \in Conns, ConnBreaks(x) PROVE UNCHANGED L!vars
  BY <1>35, NoLinkStep DEF ConnBreaks
<1>36. ASSUME UNCHANGED vars PROVE UNCHANGED L!vars
  BY <1>36, NoLinkStep DEF vars
<1>. QED
  BY <1>1, <1>2, <1>3, <1>4, <1>5, <1>6, <1>7, <1>8, <1>9, <1>10, <1>11, <1>12, <1>13,
     <1>14, <1>15, <1>16, <1>17, <1>18, <1>19, <1>20, <1>21, <1>22, <1>23, <1>24, <1>25,
     <1>26, <1>27, <1>28, <1>29, <1>30, <1>31, <1>32, <1>33, <1>34, <1>35, <1>36
  DEF Next, Connect, SendMessage, Close, ReadLoop, Reconnect

\* A WebSocket connector that is connected once is a Link, as the TCP connector is,
\* whatever its senders, its closers and the network do.
THEOREM LinkImplemented == ASSUME OneConnect PROVE Spec => ImplementsLink
<1>1. Init => L!Init
  <2>. SUFFICES ASSUME Init PROVE L!Init
    OBVIOUS
  <2>1. Arriving = {} /\ Lost = {} /\ \A t \in Threads : pc[t] # "dialing"
    BY DEF Init, Arriving, Lost, Threads
  <2>. QED
    BY <2>1 DEF Init, L!Init, linkPhase, linkConn
<1>2. TypeOK /\ FlagInv /\ OwnInv /\ StageInv => LinkInv /\ PhaseMap
  BY LinkInvHolds, PhaseMapHolds
<1>3. /\ TypeOK /\ FlagInv /\ OwnInv /\ StageInv /\ LinkInv /\ PhaseMap
      /\ TypeOK' /\ LinkInv' /\ PhaseMap' /\ [Next]_vars
      => [L!Next]_(L!vars)
  BY LinkStep
<1>. QED
  BY <1>1, <1>2, <1>3, StageCorrect, FlagsCorrect, PTL DEF Spec, ImplementsLink, L!Spec

\* What Link promises of a connector that was closed.
LEMMA LinkClosed == L!Spec => L!ClosedForGood
<1>1. L!Next /\ ~running /\ linkPhase = "down" => FALSE
  BY DEF L!Next, L!Dial, L!DialFails, L!Dialed, L!Install, L!Kill, L!Drop, L!Close
<1>. QED
  BY <1>1, PTL DEF L!Spec, L!ClosedForGood

\* Nor does a WebSocket connector come back, whichever of its pauses ends.
THEOREM CloseIsFinal == ASSUME OneConnect PROVE Spec => L!ClosedForGood
BY LinkImplemented, LinkClosed, PTL DEF ImplementsLink

=============================================================================
