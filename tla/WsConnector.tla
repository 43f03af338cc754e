---------------------------- MODULE WsConnector ----------------------------
(***************************************************************************)
(* The WebSocket client of network/ws_connecter.go: one WSConnector shared *)
(* by the goroutines that call Connect, SendMessage and Close, and by its  *)
(* readLoop goroutine, which reconnects and puts frames together from the  *)
(* messages it reads.  A step is what one goroutine does between two       *)
(* points where another can interfere, as in TcpConnector.                 *)
(***************************************************************************)
EXTENDS Integers

CONSTANTS
  Reader,       \* the readLoop goroutine
  Dialers,      \* goroutines that call Connect, until it has succeeded once
  Senders,      \* goroutines that call SendMessage
  Closers,      \* goroutines that call Close
  Conns,        \* the connections dialling can return
  None,         \* nil
  Limits,       \* values MaxAttempts may have, -1 for no limit
  BaseDelay,    \* BaseDelay and MaxDelay, in a unit of time
  MaxDelay,
  Bits,         \* width of a time.Duration
  MaxCount      \* bound: attempts are counted up to here

Callers == Dialers \cup Senders \cup Closers
Threads == Callers \cup {Reader}

ASSUME ThreadAssumption == Reader \notin Callers /\ None \notin Threads /\ None \notin Conns
ASSUME DelayAssumption ==
  /\ Limits \subseteq Int
  /\ BaseDelay \in Nat \ {0} /\ MaxDelay \in Nat /\ Bits \in Nat \ {0}
  /\ MaxCount \in Nat \ {0}
  /\ BaseDelay <= MaxDelay /\ MaxDelay < 2^(Bits - 1)

VARIABLES
  running,      \* WSConnector.running = 1
  cancelled,    \* WSConnector.ctx is done
  reconnecting, \* WSConnector.reconnecting = 1
  started,      \* startOnce has fired
  maxAttempts,  \* MaxAttempts, set before Connect
  attempt,      \* attempt in reconnectWithBackoff
  delay,        \* the pause after the last failed attempt, without its jitter
  cur,          \* WSConnector.Conn
  sock,         \* state of each connection: open, broken, closed
  buf,          \* the connections that the bytes in readLoop's buf came from
  writer,       \* holder of writeMu
  pc,           \* where each goroutine is
  hold          \* the connection in each goroutine's local variable

flags == <<running, cancelled, reconnecting, started>>
tries == <<maxAttempts, attempt, delay>>
vars == <<flags, tries, cur, sock, buf, writer, pc, hold>>

CallerPCs == {"idle", "dialing", "store", "start", "snap", "lock", "write", "fail",
              "cancel", "shut"}
ReaderPCs == {"off", "loop", "snap", "read", "handle", "drop", "reconnect", "redial",
              "dialing", "store", "backoff", "exit", "cancel", "shut", "done"}
UsesConn == {"lock", "write", "fail", "read", "handle", "drop", "store"}

\* Every variable has its type, no goroutine uses a nil connection, and the
\* compare-and-swap on reconnecting never fails (lines 230-245 are not reached).
TypeOK ==
  /\ running \in BOOLEAN /\ cancelled \in BOOLEAN
  /\ reconnecting \in BOOLEAN /\ started \in BOOLEAN
  /\ maxAttempts \in Limits /\ attempt \in 0..MaxCount /\ delay \in Int
  /\ cur \in Conns \cup {None}
  /\ sock \in [Conns -> {"open", "broken", "closed"}]
  /\ buf \subseteq Conns
  /\ writer \in Senders \cup {None}
  /\ pc \in [Threads -> CallerPCs \cup ReaderPCs] /\ pc[Reader] \in ReaderPCs
  /\ \A t \in Callers : pc[t] \in CallerPCs
  /\ hold \in [Threads -> Conns \cup {None}]
  /\ \A t \in Threads : pc[t] \in UsesConn => hold[t] \in Conns
  /\ pc[Reader] = "reconnect" => ~reconnecting

Init ==
  /\ running = TRUE /\ cancelled = FALSE /\ reconnecting = FALSE /\ started = FALSE
  /\ maxAttempts \in Limits /\ attempt = 0 /\ delay = 0
  /\ cur = None
  /\ sock = [x \in Conns |-> "closed"]
  /\ buf = {}
  /\ writer = None
  /\ pc = [t \in Threads |-> IF t = Reader THEN "off" ELSE "idle"]
  /\ hold = [t \in Threads |-> None]

Hold(t, x) == hold' = [hold EXCEPT ![t] = x]
Closing(S) == [x \in Conns |-> IF x \in S THEN "closed" ELSE sock[x]]
Goto(t, from, to) == pc[t] = from /\ pc' = [pc EXCEPT ![t] = to]

\* t goes on, and nothing else changes.
Moves(t, from, to) ==
  /\ Goto(t, from, to)
  /\ UNCHANGED <<flags, tries, cur, sock, buf, writer, hold>>

\* A connection nobody refers to any more stands for the next one dialled.
Fresh(x) == sock[x] = "closed" /\ x # cur /\ x \notin buf /\ \A t \in Threads : hold[t] # x

(***************************************************************************)
(* dialOnce, and Connect                                                   *)
(***************************************************************************)
Dialed(t) ==
  /\ Goto(t, "dialing", "store")
  /\ \E x \in Conns : Fresh(x) /\ sock' = [sock EXCEPT ![x] = "open"] /\ Hold(t, x)
  /\ UNCHANGED <<flags, tries, cur, buf, writer>>

Store(t, to) ==
  /\ Goto(t, "store", to)
  /\ cur' = hold[t]
  /\ Hold(t, None)
  /\ UNCHANGED <<tries, sock, writer>>

ConnectCall(t) ==
  /\ running /\ ~started
  /\ Moves(t, "idle", "dialing")

ConnectFailed(t) == Moves(t, "dialing", "idle")

ConnectStore(t) == Store(t, "start") /\ UNCHANGED <<flags, buf>>

ConnectStart(t) ==
  /\ pc[t] = "start"
  /\ pc' = [pc EXCEPT ![t] = "idle", ![Reader] = IF started THEN @ ELSE "loop"]
  /\ started' = TRUE
  /\ UNCHANGED <<running, cancelled, reconnecting, tries, cur, sock, buf, writer, hold>>

Connect(t) ==
  ConnectCall(t) \/ Dialed(t) \/ ConnectFailed(t) \/ ConnectStore(t) \/ ConnectStart(t)

(***************************************************************************)
(* SendMessage                                                             *)
(***************************************************************************)
SendCall(t) ==
  /\ running
  /\ Moves(t, "idle", "snap")

SendSnapshot(t) ==
  /\ Goto(t, "snap", IF cur = None THEN "idle" ELSE "lock")
  /\ Hold(t, cur)
  /\ UNCHANGED <<flags, tries, cur, sock, buf, writer>>

SendLock(t) ==
  /\ Goto(t, "lock", "write")
  /\ writer = None
  /\ writer' = t
  /\ UNCHANGED <<flags, tries, cur, sock, buf, hold>>

SendWritten(t) ==
  /\ Goto(t, "write", "idle")
  /\ sock[hold[t]] # "closed"
  /\ writer' = None
  /\ Hold(t, None)
  /\ UNCHANGED <<flags, tries, cur, sock, buf>>

\* Mutant: writeMu is not released when the write fails.
SendBroken_Locked(t) == Moves(t, "write", "fail")

\* Write fails, or the context of this call has expired, perhaps before it
\* had writeMu.
SendBroken(t) ==
  /\ Goto(t, "write", "fail")
  /\ writer' = None
  /\ UNCHANGED <<flags, tries, cur, sock, buf, hold>>

\* Mutant: the connection is forgotten and not closed.
SendFail_Open(t) ==
  /\ Goto(t, "fail", "idle")
  /\ cur' = IF cur = hold[t] THEN None ELSE cur
  /\ Hold(t, None)
  /\ UNCHANGED <<flags, tries, sock, buf, writer>>

SendFail(t) ==
  /\ Goto(t, "fail", "idle")
  /\ IF cur = hold[t]
       THEN sock' = Closing({cur}) /\ cur' = None
       ELSE UNCHANGED <<sock, cur>>
  /\ Hold(t, None)
  /\ UNCHANGED <<flags, tries, buf, writer>>

SendMessage(t) ==
  SendCall(t) \/ SendSnapshot(t) \/ SendLock(t) \/ SendWritten(t) \/ SendBroken(t) \/ SendFail(t)

(***************************************************************************)
(* Close, called by a caller or by readLoop as it exits                    *)
(***************************************************************************)
CloseCall(t) ==
  /\ running
  /\ running' = FALSE
  /\ Goto(t, IF t = Reader THEN "exit" ELSE "idle", "cancel")
  /\ UNCHANGED <<cancelled, reconnecting, started, tries, cur, sock, buf, writer, hold>>

CloseCancel(t) ==
  /\ Goto(t, "cancel", "shut")
  /\ cancelled' = TRUE
  /\ reconnecting' = FALSE
  /\ UNCHANGED <<running, started, tries, cur, sock, buf, writer, hold>>

\* Mutant: the current connection is forgotten and not closed.
CloseShut_Open(t) ==
  /\ Goto(t, "shut", IF t = Reader THEN "done" ELSE "idle")
  /\ cur' = None
  /\ UNCHANGED <<flags, tries, sock, buf, writer, hold>>

CloseShut(t) ==
  /\ Goto(t, "shut", IF t = Reader THEN "done" ELSE "idle")
  /\ sock' = Closing({cur})
  /\ cur' = None
  /\ UNCHANGED <<flags, tries, buf, writer, hold>>

Close(t) == CloseCall(t) \/ CloseCancel(t) \/ CloseShut(t)

(***************************************************************************)
(* readLoop                                                                *)
(***************************************************************************)
LoopHead == Moves(Reader, "loop", IF running THEN "snap" ELSE "exit")

\* Mutant: the snapshot is used without the test for nil.
LoopSnapshot_Nil ==
  /\ Goto(Reader, "snap", "read")
  /\ Hold(Reader, cur)
  /\ UNCHANGED <<flags, tries, cur, sock, buf, writer>>

LoopSnapshot ==
  /\ Goto(Reader, "snap", IF cur = None THEN "reconnect" ELSE "read")
  /\ Hold(Reader, cur)
  /\ UNCHANGED <<flags, tries, cur, sock, buf, writer>>

\* The context of Read expires, or a message that is not binary is skipped.
ReadAgain ==
  /\ Goto(Reader, "read", "loop")
  /\ Hold(Reader, None)
  /\ UNCHANGED <<flags, tries, cur, sock, buf, writer>>

\* A binary message joins the buffer, whose whole frames go to be handled; what
\* remains is nothing, part of this message, or all there was.
ReadMessage ==
  /\ Goto(Reader, "read", "handle")
  /\ sock[hold[Reader]] # "closed"
  /\ buf' \in {{}, {hold[Reader]}, buf \cup {hold[Reader]}}
  /\ UNCHANGED <<flags, tries, cur, sock, writer, hold>>

\* Mutant: readLoop gives up on its connection without closing it.
ReadClose_Open(from) ==
  /\ Goto(Reader, from, "drop")
  /\ UNCHANGED <<flags, tries, cur, sock, writer, hold>>

\* readLoop gives up on its connection and closes it.
ReadClose(from) ==
  /\ Goto(Reader, from, "drop")
  /\ sock' = Closing({hold[Reader]})
  /\ UNCHANGED <<flags, tries, cur, writer, hold>>

\* Read fails, or wsDeframe does, and the buffer is emptied.
ReadBroken == ReadClose("read") /\ buf' = {} /\ sock[hold[Reader]] # "open"
ReadProtocolError == ReadClose("read") /\ buf' = {} /\ sock[hold[Reader]] # "closed"

\* Decode returns nil for a frame; the buffer keeps what remained.
Undecodable == ReadClose("handle") /\ buf' = buf

DecoderPanics ==
  /\ Goto(Reader, "handle", "exit")
  /\ Hold(Reader, None)
  /\ UNCHANGED <<flags, tries, cur, sock, buf, writer>>

\* MessageHandler has returned, or panicked and was recovered, for each frame.
HandlerReturns ==
  /\ Goto(Reader, "handle", "loop")
  /\ Hold(Reader, None)
  /\ UNCHANGED <<flags, tries, cur, sock, buf, writer>>

Drop ==
  /\ Goto(Reader, "drop", "loop")
  /\ cur' = IF cur = hold[Reader] THEN None ELSE cur
  /\ Hold(Reader, None)
  /\ UNCHANGED <<flags, tries, sock, buf, writer>>

\* The deferred Close finds the connector stopped already.
ReaderExit ==
  /\ ~running
  /\ Moves(Reader, "exit", "done")

(***************************************************************************)
(* reconnectWithBackoff and its exponential pauses                         *)
(***************************************************************************)
\* A float64 as an int64: beyond the range the result is the build's choice, the
\* least integer (amd64) or the greatest (arm64).
MaxInt == 2^(Bits - 1) - 1
Duration(f) == IF f <= MaxInt THEN {f} ELSE {MaxInt, - MaxInt - 1}

\* expBackoff(BaseDelay, MaxDelay, n)
ExpBackoff(n) ==
  {IF d > MaxDelay THEN MaxDelay ELSE d : d \in Duration(BaseDelay * 2^(n - 1))}

MoreAttempts == running /\ (maxAttempts < 0 \/ attempt < maxAttempts)

ReconnectEnter ==
  /\ running /\ ~reconnecting
  /\ reconnecting' = TRUE
  /\ attempt' = 0
  /\ Goto(Reader, "reconnect", "redial")
  /\ UNCHANGED <<running, cancelled, started, maxAttempts, delay, cur, sock, buf, writer, hold>>

ReconnectRefused ==
  /\ ~running
  /\ Moves(Reader, "reconnect", "exit")

\* Return from reconnectWithBackoff: the deferred store to reconnecting.
Returning == reconnecting' = FALSE /\ UNCHANGED <<running, cancelled, started>>

RedialCall ==
  /\ MoreAttempts
  /\ Goto(Reader, "redial", "dialing")
  /\ attempt' = IF attempt < MaxCount THEN attempt + 1 ELSE attempt
  /\ UNCHANGED <<flags, maxAttempts, delay, cur, sock, buf, writer, hold>>

\* Stopped, or MaxAttempts dials have failed: readLoop ends.
RedialNoMore ==
  /\ ~MoreAttempts
  /\ Goto(Reader, "redial", "exit")
  /\ Returning
  /\ UNCHANGED <<tries, cur, sock, buf, writer, hold>>

RedialDialed == ~cancelled /\ Dialed(Reader)

RedialFailed ==
  /\ Goto(Reader, "dialing", "backoff")
  /\ delay' \in ExpBackoff(attempt)
  /\ UNCHANGED <<flags, maxAttempts, attempt, cur, sock, buf, writer, hold>>

\* Mutant: the buffer outlives the connection.
RedialStore_Kept == Store(Reader, "loop") /\ Returning /\ buf' = buf

\* A new connection, and an empty buffer for it.
RedialStore == Store(Reader, "loop") /\ Returning /\ buf' = {}

BackoffElapsed == Moves(Reader, "backoff", "redial")

BackoffCancelled ==
  /\ cancelled
  /\ Goto(Reader, "backoff", "exit")
  /\ Returning
  /\ UNCHANGED <<tries, cur, sock, buf, writer, hold>>

Reconnect ==
  \/ ReconnectEnter \/ ReconnectRefused
  \/ RedialCall \/ RedialNoMore \/ RedialDialed \/ RedialFailed \/ RedialStore
  \/ BackoffElapsed \/ BackoffCancelled

ReadLoop ==
  \/ LoopHead \/ LoopSnapshot
  \/ ReadAgain \/ ReadMessage \/ ReadBroken \/ ReadProtocolError
  \/ Undecodable \/ DecoderPanics \/ HandlerReturns \/ Drop
  \/ Reconnect
  \/ ReaderExit \/ Close(Reader)

\* The network or the peer breaks a connection, or the library does when a
\* context given to it expires.
ConnBreaks(x) ==
  /\ sock[x] = "open"
  /\ sock' = [sock EXCEPT ![x] = "broken"]
  /\ UNCHANGED <<flags, tries, cur, buf, writer, pc, hold>>

Next ==
  \/ \E t \in Dialers : Connect(t)
  \/ \E t \in Senders : SendMessage(t)
  \/ \E t \in Closers : Close(t)
  \/ ReadLoop
  \/ \E x \in Conns : ConnBreaks(x)

Spec == Init /\ [][Next]_vars

-----------------------------------------------------------------------------
(***************************************************************************)
(* Fairness, as for TcpConnector, but that Write ends by its context.      *)
(* No reading timeout is relied on.                                        *)
(***************************************************************************)
ReaderProgress ==
  LoopHead \/ LoopSnapshot \/ ReadBroken \/ HandlerReturns \/ Drop
    \/ Reconnect \/ ReaderExit \/ Close(Reader)

Fairness ==
  /\ \A t \in Dialers : WF_vars(Dialed(t) \/ ConnectFailed(t) \/ ConnectStore(t) \/ ConnectStart(t))
  /\ \A t \in Senders : /\ WF_vars(SendSnapshot(t) \/ SendBroken(t) \/ SendFail(t))
                        /\ SF_vars(SendLock(t))
  /\ \A t \in Closers : WF_vars(CloseCancel(t) \/ CloseShut(t))
  /\ WF_vars(ReaderProgress)
  /\ SF_vars(ReadBroken)
  /\ SF_vars(RedialDialed)

FairSpec == Spec /\ Fairness

-----------------------------------------------------------------------------
(***************************************************************************)
(* Properties                                                              *)
(***************************************************************************)
\* The frames that readLoop puts together are made of the bytes of one
\* connection: whoever lost the previous one, readLoop or a sender while frames
\* were handled, nothing of it is left in the buffer when the next is read.
FramesOfOneConn == pc[Reader] \in {"read", "handle"} => buf \subseteq {hold[Reader]}

\* Close ends readLoop, wherever it was: reading, dialling or in its backoff.
CloseEndsReader == ~running ~> [](pc[Reader] \in {"off", "done"})

\* A connector that lost its connection gets another, unless it is closed or,
\* with a limit, gives up; then it is stopped as well and does not stay behind
\* as one that seems to run.
Reconnects == started /\ running /\ cur = None ~> cur # None \/ ~running

\* SendMessage returns however many wait for writeMu and whether or not the
\* peer reads, since each call has a timeout of its own.
SendReturns == \A t \in Senders : pc[t] = "snap" ~> pc[t] = "idle"

Arriving == {t \in Threads : pc[t] = "store"}
Lost == {x \in Conns : sock[x] # "closed"} \ ({cur} \cup {hold[t] : t \in Arriving})

linkPhase ==
  IF Lost # {} THEN "lost"
  ELSE IF \E t \in Threads : pc[t] = "dialing" THEN "dialing"
  ELSE IF Arriving # {} THEN "dialed"
  ELSE IF cur = None THEN "down"
  ELSE IF sock[cur] = "closed" THEN "dead" ELSE "up"

linkConn == IF Arriving # {} THEN hold[CHOOSE t \in Arriving : TRUE] ELSE cur

L == INSTANCE Link WITH phase <- linkPhase, conn <- linkConn, stopped <- ~running

\* The WebSocket connector keeps the same promises as the TCP connector.
ImplementsLink == L!Spec

(***************************************************************************)
(* What the comments of the source promise and the code does not keep      *)
(***************************************************************************)
\* BaseDelay is the base of an exponential backoff (line 43): however long the
\* peer stays away, no pause between two dials is shorter.
PauseAtLeastBase == pc[Reader] = "backoff" => delay >= BaseDelay

=============================================================================
