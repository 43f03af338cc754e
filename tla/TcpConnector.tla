---------------------------- MODULE TcpConnector ----------------------------
(***************************************************************************)
(* The TCP client of network/tcp_connector.go: one Connector shared by the *)
(* goroutines that call Connect, SendMessage and Close, and by its own     *)
(* readLoop goroutine, which also reconnects.  A step is what one          *)
(* goroutine does between two points where another can interfere: an       *)
(* atomic load, store or compare-and-swap, a critical section of mu, or a  *)
(* call on a socket.                                                       *)
(***************************************************************************)
CONSTANTS
  Reader,       \* the readLoop goroutine
  Dialers,      \* goroutines that call Connect
  Senders,      \* goroutines that call SendMessage
  Closers,      \* goroutines that call Close
  Conns,        \* the sockets dialling can return
  None,         \* nil
  ReadTimed,    \* IdleTimeout > 0
  WriteTimed,   \* WriteTimeout > 0
  Redial        \* whether Connect is called again after it has succeeded

Callers == Dialers \cup Senders \cup Closers
Threads == Callers \cup {Reader}

ASSUME ThreadAssumption == Reader \notin Callers /\ None \notin Threads
ASSUME ConnAssumption == None \notin Conns
ASSUME OptionAssumption ==
  ReadTimed \in BOOLEAN /\ WriteTimed \in BOOLEAN /\ Redial \in BOOLEAN

VARIABLES
  running,      \* Connector.running = 1
  cancelled,    \* Connector.ctx is done
  reconning,    \* Connector.reconning = 1
  started,      \* startOnce has fired
  cur,          \* Connector.Conn
  sock,         \* state of each socket: open, broken by the network, closed
  wdl,          \* write deadline of each socket: none, armed, passed
  torn,         \* sockets on which a frame was written only in part
  writer,       \* holder of writeMu
  pc,           \* where each goroutine is
  hold          \* the socket in each goroutine's local variable

flags == <<running, cancelled, reconning, started>>
link == <<cur, sock, wdl, torn, hold>>
vars == <<flags, writer, pc, link>>

CallerPCs == {"idle", "dialing", "store", "start", "snap", "deadline", "lock",
              "write", "fail", "clear", "cancel", "shut"}
ReaderPCs == {"off", "loop", "snap", "read", "handle", "drop", "dropbad",
              "reconnect", "redial", "redialing", "install", "retire",
              "backoff", "exit", "cancel", "shut", "done"}

\* Where a goroutine calls a method of the socket it holds.
UsesSocket == {"deadline", "lock", "write", "fail", "clear", "read", "drop",
               "dropbad", "store", "install"}

\* Every variable has its type and no goroutine uses a nil socket.
TypeOK ==
  /\ running \in BOOLEAN
  /\ cancelled \in BOOLEAN
  /\ reconning \in BOOLEAN
  /\ started \in BOOLEAN
  /\ cur \in Conns \cup {None}
  /\ sock \in [Conns -> {"open", "broken", "closed"}]
  /\ wdl \in [Conns -> {"none", "armed", "passed"}]
  /\ torn \subseteq Conns
  /\ writer \in Callers \cup {None}
  /\ pc \in [Threads -> CallerPCs \cup ReaderPCs]
  /\ \A t \in Callers : pc[t] \in CallerPCs
  /\ pc[Reader] \in ReaderPCs
  /\ hold \in [Threads -> Conns \cup {None}]
  /\ \A t \in Threads : pc[t] \in UsesSocket => hold[t] \in Conns

Init ==
  /\ running = TRUE
  /\ cancelled = FALSE
  /\ reconning = FALSE
  /\ started = FALSE
  /\ cur = None
  /\ sock = [x \in Conns |-> "closed"]
  /\ wdl = [x \in Conns |-> "none"]
  /\ torn = {}
  /\ writer = None
  /\ pc = [t \in Threads |-> IF t = Reader THEN "off" ELSE "idle"]
  /\ hold = [t \in Threads |-> None]

Hold(t, x) == hold' = [hold EXCEPT ![t] = x]
Goto(t, from, to) == pc[t] = from /\ pc' = [pc EXCEPT ![t] = to]

\* t goes on, and nothing else changes.
Moves(t, from, to) == Goto(t, from, to) /\ UNCHANGED <<flags, writer, link>>

\* The sockets after net.Conn.Close on those of S.
Closing(S) == [x \in Conns |-> IF x \in S THEN "closed" ELSE sock[x]]

\* Mutants: the failure of a socket clears whatever is current, or nothing.
IsCurrent_Any(x) == TRUE
IsCurrent_Never(x) == FALSE

\* The test c.Conn == conn, made under mu before Connector.Conn is cleared.
IsCurrent(x) == cur = x

\* A socket nobody refers to any more stands for the next one the kernel gives.
Fresh(x) == /\ sock[x] = "closed"
            /\ x # cur
            /\ \A t \in Threads : hold[t] # x

(***************************************************************************)
(* Connect and dialOnce                                                    *)
(***************************************************************************)
\* A dial by t succeeds and returns x.
DialOnce(t, x) ==
  /\ Fresh(x)
  /\ sock' = [sock EXCEPT ![x] = "open"]
  /\ wdl' = [wdl EXCEPT ![x] = "none"]
  /\ torn' = torn \ {x}
  /\ Hold(t, x)
  /\ cur' = cur

ConnectCall(t) ==
  /\ running
  /\ Redial \/ ~started
  /\ Moves(t, "idle", "dialing")

ConnectDialed(t) ==
  /\ Goto(t, "dialing", "store")
  /\ \E x \in Conns : DialOnce(t, x)
  /\ UNCHANGED <<flags, writer>>

ConnectFailed(t) == Moves(t, "dialing", "idle")

ConnectStore(t) ==
  /\ Goto(t, "store", "start")
  /\ cur' = hold[t]
  /\ Hold(t, None)
  /\ UNCHANGED <<flags, writer, sock, wdl, torn>>

ConnectStart(t) ==
  /\ pc[t] = "start"
  /\ pc' = [pc EXCEPT ![t] = "idle", ![Reader] = IF started THEN @ ELSE "loop"]
  /\ started' = TRUE
  /\ UNCHANGED <<running, cancelled, reconning, writer, link>>

Connect(t) ==
  \/ ConnectCall(t)
  \/ ConnectDialed(t)
  \/ ConnectFailed(t)
  \/ ConnectStore(t)
  \/ ConnectStart(t)

(***************************************************************************)
(* SendMessage                                                             *)
(***************************************************************************)
SendCall(t) ==
  /\ running
  /\ Moves(t, "idle", "snap")

SendSnapshot(t) ==
  /\ Goto(t, "snap", IF cur = None THEN "idle" ELSE "deadline")
  /\ Hold(t, cur)
  /\ UNCHANGED <<flags, writer, cur, sock, wdl, torn>>

SendDeadline(t) ==
  /\ Goto(t, "deadline", "lock")
  /\ wdl' = [wdl EXCEPT ![hold[t]] = IF WriteTimed THEN "armed" ELSE "none"]
  /\ UNCHANGED <<flags, writer, cur, sock, torn, hold>>

SendLock(t) ==
  /\ Goto(t, "lock", "write")
  /\ writer = None
  /\ writer' = t
  /\ UNCHANGED <<flags, link>>

\* The whole frame reaches the socket, which does not tell yet if the network broke.
SendWritten(t) ==
  /\ Goto(t, "write", "clear")
  /\ sock[hold[t]] # "closed"
  /\ wdl[hold[t]] # "passed"
  /\ writer' = None
  /\ UNCHANGED <<flags, link>>

\* Mutant: writeMu is not released when the write fails.
SendBroken_Locked(t) ==
  /\ Goto(t, "write", "fail")
  /\ \/ sock[hold[t]] # "open" /\ wdl' = wdl
     \/ wdl[hold[t]] # "none" /\ wdl' = [wdl EXCEPT ![hold[t]] = "passed"]
  /\ torn' \in {torn, torn \cup {hold[t]}}
  /\ UNCHANGED <<flags, writer, cur, sock, hold>>

\* WriteFrame fails, on a dead socket or because its deadline passes, with part
\* of the frame sent or not.  A passed deadline fails every later write.
SendBroken(t) ==
  /\ Goto(t, "write", "fail")
  /\ \/ sock[hold[t]] # "open" /\ wdl' = wdl
     \/ wdl[hold[t]] # "none" /\ wdl' = [wdl EXCEPT ![hold[t]] = "passed"]
  /\ torn' \in {torn, torn \cup {hold[t]}}
  /\ writer' = None
  /\ UNCHANGED <<flags, cur, sock, hold>>

\* Mutant: the socket is forgotten and not closed.
SendFail_Open(t) ==
  /\ Goto(t, "fail", "clear")
  /\ cur' = IF IsCurrent(hold[t]) THEN None ELSE cur
  /\ UNCHANGED <<flags, writer, sock, wdl, torn, hold>>

SendFail(t) ==
  /\ Goto(t, "fail", "clear")
  /\ IF IsCurrent(hold[t])
       THEN sock' = Closing({cur}) /\ cur' = None
       ELSE UNCHANGED <<sock, cur>>
  /\ UNCHANGED <<flags, writer, wdl, torn, hold>>

SendClear(t) ==
  /\ Goto(t, "clear", "idle")
  /\ wdl' = [wdl EXCEPT ![hold[t]] = "none"]
  /\ Hold(t, None)
  /\ UNCHANGED <<flags, writer, cur, sock, torn>>

SendMessage(t) ==
  \/ SendCall(t)
  \/ SendSnapshot(t)
  \/ SendDeadline(t)
  \/ SendLock(t)
  \/ SendWritten(t)
  \/ SendBroken(t)
  \/ SendFail(t)
  \/ SendClear(t)

(***************************************************************************)
(* Close, called by a caller or by readLoop as it exits                    *)
(***************************************************************************)
CloseCall(t) ==
  /\ running
  /\ running' = FALSE
  /\ Goto(t, IF t = Reader THEN "exit" ELSE "idle", "cancel")
  /\ UNCHANGED <<cancelled, reconning, started, writer, link>>

CloseCancel(t) ==
  /\ Goto(t, "cancel", "shut")
  /\ cancelled' = TRUE
  /\ reconning' = FALSE
  /\ UNCHANGED <<running, started, writer, link>>

\* Mutant: the current socket is forgotten and not closed.
CloseShut_Open(t) ==
  /\ Goto(t, "shut", IF t = Reader THEN "done" ELSE "idle")
  /\ cur' = None
  /\ UNCHANGED <<flags, writer, sock, wdl, torn, hold>>

CloseShut(t) ==
  /\ Goto(t, "shut", IF t = Reader THEN "done" ELSE "idle")
  /\ sock' = Closing({cur})
  /\ cur' = None
  /\ UNCHANGED <<flags, writer, wdl, torn, hold>>

Close(t) ==
  \/ CloseCall(t)
  \/ CloseCancel(t)
  \/ CloseShut(t)

(***************************************************************************)
(* readLoop                                                                *)
(***************************************************************************)
LoopHead == Moves(Reader, "loop", IF running THEN "snap" ELSE "exit")

\* Mutant: the snapshot is used without the test for nil.
LoopSnapshot_Nil ==
  /\ Goto(Reader, "snap", "read")
  /\ Hold(Reader, cur)
  /\ UNCHANGED <<flags, writer, cur, sock, wdl, torn>>

LoopSnapshot ==
  /\ Goto(Reader, "snap", IF cur = None THEN "reconnect" ELSE "read")
  /\ Hold(Reader, cur)
  /\ UNCHANGED <<flags, writer, cur, sock, wdl, torn>>

\* The read deadline passes: an idle connection is read again.
ReadTimeout ==
  /\ Goto(Reader, "read", "loop")
  /\ ReadTimed
  /\ sock[hold[Reader]] = "open"
  /\ Hold(Reader, None)
  /\ UNCHANGED <<flags, writer, cur, sock, wdl, torn>>

\* A frame arrives, possibly one received before the network broke.
ReadFrame ==
  /\ Moves(Reader, "read", "handle")
  /\ sock[hold[Reader]] # "closed"

\* Mutant: readLoop gives up on its socket without closing it.
ReadClose_Open(to) == Moves(Reader, "read", to)

\* readLoop gives up on its socket and closes it, going to the step that drops it.
ReadClose(to) ==
  /\ Goto(Reader, "read", to)
  /\ sock' = Closing({hold[Reader]})
  /\ UNCHANGED <<flags, writer, cur, wdl, torn, hold>>

\* DeFrame fails because the socket does.
ReadBroken == ReadClose("drop") /\ sock[hold[Reader]] # "open"

\* DeFrame refuses the length of a frame.
ReadProtocolError == ReadClose("drop") /\ sock[hold[Reader]] # "closed"

\* Decode returns nil.
ReadUndecodable == ReadClose("dropbad") /\ sock[hold[Reader]] # "closed"

\* The Framer or the Decoder panics on what it reads.
ReadPanic ==
  /\ Goto(Reader, "read", "exit")
  /\ sock[hold[Reader]] # "closed"
  /\ Hold(Reader, None)
  /\ UNCHANGED <<flags, writer, cur, sock, wdl, torn>>

\* MessageHandler returns, or panics and is recovered.
HandlerReturns ==
  /\ Goto(Reader, "handle", "loop")
  /\ Hold(Reader, None)
  /\ UNCHANGED <<flags, writer, cur, sock, wdl, torn>>

\* Connector.Conn is cleared only if it still is the socket that failed.
Drop(from, to) ==
  /\ Goto(Reader, from, to)
  /\ cur' = IF IsCurrent(hold[Reader]) THEN None ELSE cur
  /\ Hold(Reader, None)
  /\ UNCHANGED <<flags, writer, sock, wdl, torn>>

DropFailed == Drop("drop", "reconnect")
DropUndecodable == Drop("dropbad", "loop")

\* Mutant: readLoop exits without its deferred Close.
ReaderExit_Undeferred == Moves(Reader, "exit", "done")

\* The deferred Close finds the connector stopped already.
ReaderExit ==
  /\ ~running
  /\ Moves(Reader, "exit", "done")

(***************************************************************************)
(* reconnectWithBackoff, called by readLoop only                           *)
(***************************************************************************)
\* The compare-and-swap; ReconnectUncontended says why its other outcome,
\* waiting for another goroutine to reconnect, is not modelled.
ReconnectEnter ==
  /\ running
  /\ ~reconning
  /\ reconning' = TRUE
  /\ Goto(Reader, "reconnect", "redial")
  /\ UNCHANGED <<running, cancelled, started, writer, link>>

ReconnectRefused ==
  /\ ~running
  /\ Moves(Reader, "reconnect", "exit")

\* Mutant: reconning is not reset on return.
ReconnectReturn_Kept(from, to) ==
  /\ Goto(Reader, from, to)
  /\ reconning' = reconning

\* Return from reconnectWithBackoff: the deferred store to reconning.
ReconnectReturn(from, to) ==
  /\ Goto(Reader, from, to)
  /\ reconning' = FALSE

RedialCall ==
  /\ running
  /\ Moves(Reader, "redial", "redialing")

RedialStopped ==
  /\ ~running
  /\ ReconnectReturn("redial", "exit")
  /\ UNCHANGED <<running, cancelled, started, writer, link>>

RedialDialed ==
  /\ ~cancelled
  /\ Goto(Reader, "redialing", "install")
  /\ \E x \in Conns : DialOnce(Reader, x)
  /\ UNCHANGED <<flags, writer>>

RedialFailed == Moves(Reader, "redialing", "backoff")

\* The dialled socket replaces Connector.Conn; what was there is kept as old.
Install ==
  /\ Goto(Reader, "install", "retire")
  /\ cur' = hold[Reader]
  /\ Hold(Reader, cur)
  /\ UNCHANGED <<flags, writer, sock, wdl, torn>>

Retire ==
  /\ ReconnectReturn("retire", "loop")
  /\ sock' = Closing({hold[Reader]})
  /\ Hold(Reader, None)
  /\ UNCHANGED <<running, cancelled, started, writer, cur, wdl, torn>>

BackoffElapsed == Moves(Reader, "backoff", "redial")

BackoffCancelled ==
  /\ cancelled
  /\ ReconnectReturn("backoff", "exit")
  /\ UNCHANGED <<running, cancelled, started, writer, link>>

ReadStep ==
  \/ ReadTimeout
  \/ ReadFrame
  \/ ReadBroken
  \/ ReadProtocolError
  \/ ReadUndecodable
  \/ ReadPanic

Reconnect ==
  \/ ReconnectEnter
  \/ ReconnectRefused
  \/ RedialCall
  \/ RedialStopped
  \/ RedialDialed
  \/ RedialFailed
  \/ Install
  \/ Retire
  \/ BackoffElapsed
  \/ BackoffCancelled

ReadLoop ==
  \/ LoopHead
  \/ LoopSnapshot
  \/ ReadStep
  \/ HandlerReturns
  \/ DropFailed
  \/ DropUndecodable
  \/ Reconnect
  \/ ReaderExit
  \/ Close(Reader)

\* The network breaks a socket, or the peer closes it.
NetworkBreaks(x) ==
  /\ sock[x] = "open"
  /\ sock' = [sock EXCEPT ![x] = "broken"]
  /\ UNCHANGED <<flags, writer, pc, cur, wdl, torn, hold>>

Next ==
  \/ \E t \in Dialers : Connect(t)
  \/ \E t \in Senders : SendMessage(t)
  \/ \E t \in Closers : Close(t)
  \/ ReadLoop
  \/ \E x \in Conns : NetworkBreaks(x)

Spec == Init /\ [][Next]_vars

-----------------------------------------------------------------------------
(***************************************************************************)
(* Fairness.  Goroutines run, sync.Mutex starves nobody, MessageHandler    *)
(* returns, a dial and a timed write end, and an operation blocked on a    *)
(* dead or closed socket fails; no read deadline is relied on.  A broken   *)
(* socket holds finitely many frames, so DeFrame reaches its end (SF), and *)
(* a peer dialled again and again is reached some day (SF).  Nobody has to *)
(* call anything, the network need not break, and a peer may never send a  *)
(* frame nor read one.                                                     *)
(***************************************************************************)
ConnectProgress(t) ==
  ConnectDialed(t) \/ ConnectFailed(t) \/ ConnectStore(t) \/ ConnectStart(t)

SendProgress(t) ==
  SendSnapshot(t) \/ SendDeadline(t) \/ SendBroken(t) \/ SendFail(t) \/ SendClear(t)

ReaderProgress ==
  LoopHead \/ LoopSnapshot \/ ReadBroken \/ HandlerReturns
    \/ DropFailed \/ DropUndecodable \/ Reconnect \/ ReaderExit \/ Close(Reader)

Fairness ==
  /\ \A t \in Dialers : WF_vars(ConnectProgress(t))
  /\ \A t \in Senders : WF_vars(SendProgress(t)) /\ SF_vars(SendLock(t))
  /\ \A t \in Closers : WF_vars(CloseCancel(t) \/ CloseShut(t))
  /\ WF_vars(ReaderProgress)
  /\ SF_vars(ReadBroken)
  /\ SF_vars(RedialDialed)

FairSpec == Spec /\ Fairness

-----------------------------------------------------------------------------
(***************************************************************************)
(* Properties                                                              *)
(***************************************************************************)
Live == {x \in Conns : sock[x] # "closed"}
InFlight == {hold[t] : t \in {u \in Threads : pc[u] \in {"store", "install", "retire"}}}

\* reconnectWithBackoff never finds reconning set: readLoop alone reconnects,
\* and each return of it, and Close, leaves reconning clear.
ReconnectUncontended == pc[Reader] = "reconnect" => ~reconning

\* When readLoop has exited, its deferred Close has stopped the connector, so
\* no caller is left with one that seems to run and never reads.
ReaderGoneMeansStopped == pc[Reader] = "done" => ~running

\* The flags can be relied on: readLoop never waits for a reconnection that
\* nobody makes, and a connector that nobody reads for is stopped.
FlagsSound == ReconnectUncontended /\ ReaderGoneMeansStopped

\* Connector.Conn is a closed socket only while readLoop, which closed it, is
\* about to clear it, so a SendMessage that meets one is not the reader's fault
\* for long.
ClosedNeverCurrent ==
  cur # None /\ sock[cur] = "closed" =>
    pc[Reader] \in {"drop", "dropbad"} /\ hold[Reader] = cur

\* A failure seen on an old socket never takes the connector's new one away:
\* only Close, or whoever saw Conn itself fail, clears Conn.
StaleFailureHarmless ==
  [][cur # None /\ cur' = None =>
       \/ ~running
       \/ \E t \in Threads : pc[t] \in {"fail", "drop", "dropbad"} /\ hold[t] = cur]_vars

\* No open socket is lost: each is Connector.Conn, or in the hands of a
\* goroutine about to store it or to close it.  (For one call of Connect: a
\* second one that succeeds replaces Conn and forgets the socket in it.)
NoOrphan == Live \subseteq {cur} \cup InFlight

\* readLoop closes a connection before it dials the next one: there never are
\* two.  (For one call of Connect; part of what Link says.)
SingleSocket == \A x, y \in Live : x = y

\* A frame may follow a part of another on the wire, although writeMu is there
\* to keep frames from "overlapping" (lines 22 and 312), only between the moment
\* the sender that wrote the part gives writeMu back and its close of the
\* socket (lines 317 and 322), and never later.  (For one call of Connect.)
TornIsShort ==
  [][\A t \in Senders : pc[t] = "write" /\ pc'[t] = "clear" /\ hold[t] \in torn =>
       \E u \in Senders : pc[u] = "fail" /\ hold[u] = hold[t]]_vars

\* Close ends readLoop, wherever it was: reading, dialling or in its backoff.
CloseEndsReader == ~running ~> [](pc[Reader] \in {"off", "done"})

\* A connector that lost its connection gets another, unless it is closed.
Reconnects == started /\ running /\ cur = None ~> cur # None \/ ~running

\* SendMessage returns even when the peer stops reading, also to those who wait
\* for writeMu, except behind a writer whose deadline another sender's deferred
\* reset (line 310) has removed.
SendReturns ==
  \A t \in Senders : pc[t] = "snap" ~>
    pc[t] = "idle" \/ \E u \in Senders : pc[u] = "write" /\ wdl[hold[u]] = "none"

-----------------------------------------------------------------------------
(***************************************************************************)
(* The connector, connected once, is a Link                                *)
(***************************************************************************)
Arriving == {t \in Threads : pc[t] \in {"store", "install"}}
Lost == Live \ ({cur} \cup {hold[t] : t \in Arriving})

linkPhase ==
  IF Lost # {} THEN "lost"
  ELSE IF \E t \in Threads : pc[t] \in {"dialing", "redialing"} THEN "dialing"
  ELSE IF Arriving # {} THEN "dialed"
  ELSE IF cur = None THEN "down"
  ELSE IF sock[cur] = "closed" THEN "dead" ELSE "up"

linkConn == IF Arriving # {} THEN hold[CHOOSE t \in Arriving : TRUE] ELSE cur

L == INSTANCE Link WITH phase <- linkPhase, conn <- linkConn, stopped <- ~running

\* The connector keeps the promises of Link.
ImplementsLink == L!Spec

=============================================================================
