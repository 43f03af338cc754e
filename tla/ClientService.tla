---------------------------- MODULE ClientService ----------------------------
(***************************************************************************)
(* The request client of network/tcp_client_service.go on top of the TCP   *)
(* connector: goroutines call RequestMessage and wait; the connector's     *)
(* readLoop decodes each message, calls rec with it and then closes it,    *)
(* which returns its payload to the BufPool.  A message that rec hands on  *)
(* is used by another goroutine: the caller of RequestMessage, or the one  *)
(* that runs a push handler's callback.  Operations on the maps, which no  *)
(* lock protects, are taken as atomic.                                     *)
(***************************************************************************)
EXTENDS Naturals, Sequences, FiniteSets

CONSTANTS
  Requesters,   \* goroutines that call RequestMessage
  Pushes,       \* messages the server sends unasked
  Ids,          \* message ids, of requests and of pushes
  Bufs,         \* payload buffers
  None,         \* nil
  MaxCalls      \* bound: calls of each requester

Calls == UNION {{r} \X (1..MaxCalls[r]) : r \in Requesters}
Msgs == Calls \cup Pushes

ASSUME BoundAssumption == MaxCalls \in [Requesters -> Nat]
ASSUME NoneAssumption == None \notin Calls /\ None \notin Pushes /\ None \notin Bufs
ASSUME SourceAssumption == Pushes \cap (Requesters \cup Calls) = {}

VARIABLES
  idOf,         \* the id each requester and push uses, the same as another's or not
  userCloses,   \* whether the user of a message closes it when done
  handlers,     \* responseHandlers: the call waiting for each id
  pushHandlers, \* the ids that have a callback in pushHandlers
  done,         \* the channel of each call, of capacity 1
  calls,        \* number of calls each requester has made
  rpc,          \* where each requester is
  asked,        \* calls the server has received and not answered
  wire,         \* messages on their way from the server
  pc,           \* where readLoop is
  msg,          \* the message in the hands of readLoop
  waiter,       \* the handler rec has found
  use,          \* where the user of each message is
  release,      \* DataMessage.Release # nil
  payload,      \* DataMessage.Msg: its buffer, or None
  owned,        \* the buffer that Release of each message returns
  pool          \* how often each buffer is in the BufPool

net == <<asked, wire>>
given == <<idOf, userCloses>>
requests == <<handlers, done, calls, rpc>>
buffers == <<release, payload, owned, pool>>
vars == <<given, requests, pushHandlers, net, pc, msg, waiter, use, buffers>>

\* Every variable has its type, and each buffer that is out has been decoded to.
TypeOK ==
  /\ idOf \in [Requesters \cup Pushes -> Ids]
  /\ userCloses \in BOOLEAN
  /\ handlers \in [Ids -> Calls \cup {None}]
  /\ pushHandlers \subseteq Ids
  /\ done \in [Calls -> Msgs \cup {None}]
  /\ calls \in [Requesters -> Nat] /\ \A r \in Requesters : calls[r] <= MaxCalls[r]
  /\ rpc \in [Requesters -> {"idle", "send", "wait"}]
  /\ asked \subseteq Calls
  /\ wire \in Seq(Msgs)
  /\ pc \in {"read", "rec", "deliver", "delete", "close", "put", "clear"}
  /\ msg \in Msgs \cup {None}
  /\ pc = "read" <=> msg = None
  /\ waiter \in Calls \cup {None}
  /\ pc \in {"deliver", "delete"} => waiter # None
  /\ use \in [Msgs -> {"none", "using", "close", "put", "clear", "done"}]
  /\ release \in [Msgs -> BOOLEAN]
  /\ payload \in [Msgs -> Bufs \cup {None}]
  /\ owned \in [Msgs -> Bufs \cup {None}]
  /\ pool \in [Bufs -> Nat]

Init ==
  /\ idOf \in [Requesters \cup Pushes -> Ids]
  /\ userCloses \in BOOLEAN
  /\ pushHandlers = {}
  /\ handlers = [i \in Ids |-> None]
  /\ done = [c \in Calls |-> None]
  /\ calls = [r \in Requesters |-> 0]
  /\ rpc = [r \in Requesters |-> "idle"]
  /\ asked = {}
  /\ wire = <<>>
  /\ pc = "read"
  /\ msg = None
  /\ waiter = None
  /\ use = [m \in Msgs |-> "none"]
  /\ release = [m \in Msgs |-> FALSE]
  /\ payload = [m \in Msgs |-> None]
  /\ owned = [m \in Msgs |-> None]
  /\ pool = [b \in Bufs |-> 0]

Call(r) == <<r, calls[r]>>
Id(m) == idOf[IF m \in Pushes THEN m ELSE m[1]]

(***************************************************************************)
(* RequestMessage                                                          *)
(***************************************************************************)
\* Mutant: a handler that is registered already is kept.
Register_Kept(r) ==
  /\ rpc[r] = "idle"
  /\ calls[r] < MaxCalls[r]
  /\ calls' = [calls EXCEPT ![r] = @ + 1]
  /\ handlers' = [handlers EXCEPT ![idOf[r]] = IF @ = None THEN <<r, calls[r] + 1>> ELSE @]
  /\ rpc' = [rpc EXCEPT ![r] = "send"]
  /\ UNCHANGED <<given, pushHandlers, done, net, pc, msg, waiter, use, buffers>>

Register(r) ==
  /\ rpc[r] = "idle"
  /\ calls[r] < MaxCalls[r]
  /\ calls' = [calls EXCEPT ![r] = @ + 1]
  /\ handlers' = [handlers EXCEPT ![idOf[r]] = <<r, calls[r] + 1>>]
  /\ rpc' = [rpc EXCEPT ![r] = "send"]
  /\ UNCHANGED <<given, pushHandlers, done, net, pc, msg, waiter, use, buffers>>

Send(r) ==
  /\ rpc[r] = "send"
  /\ rpc' = [rpc EXCEPT ![r] = "wait"]
  /\ asked' = asked \cup {Call(r)}
  /\ UNCHANGED <<given, pushHandlers, handlers, done, calls, wire, pc, msg, waiter, use, buffers>>

\* The handler stays registered.
SendFails(r) ==
  /\ rpc[r] = "send"
  /\ rpc' = [rpc EXCEPT ![r] = "idle"]
  /\ UNCHANGED <<given, pushHandlers, handlers, done, calls, net, pc, msg, waiter, use, buffers>>

\* Mutant: RequestMessage closes the message that it returns.
Receive_Closes(r) ==
  /\ rpc[r] = "wait"
  /\ done[Call(r)] # None
  /\ use' = [use EXCEPT ![done[Call(r)]] = "close"]
  /\ done' = [done EXCEPT ![Call(r)] = None]
  /\ rpc' = [rpc EXCEPT ![r] = "idle"]
  /\ UNCHANGED <<given, pushHandlers, handlers, calls, net, pc, msg, waiter, buffers>>

Receive(r) ==
  /\ rpc[r] = "wait"
  /\ done[Call(r)] # None
  /\ use' = [use EXCEPT ![done[Call(r)]] = "using"]
  /\ done' = [done EXCEPT ![Call(r)] = None]
  /\ rpc' = [rpc EXCEPT ![r] = "idle"]
  /\ UNCHANGED <<given, pushHandlers, handlers, calls, net, pc, msg, waiter, buffers>>

(***************************************************************************)
(* AddMessageHandler and RemoveMessageHandler, at any time                 *)
(***************************************************************************)
SetPushHandlers(ids) ==
  /\ pushHandlers' = ids
  /\ UNCHANGED <<given, requests, net, pc, msg, waiter, use, buffers>>

AddMessageHandler(i) == SetPushHandlers(pushHandlers \cup {i})
RemoveMessageHandler(i) == SetPushHandlers(pushHandlers \ {i})

(***************************************************************************)
(* The server and the network                                              *)
(***************************************************************************)
Answer(c) ==
  /\ c \in asked
  /\ asked' = asked \ {c}
  /\ wire' = Append(wire, c)
  /\ UNCHANGED <<given, pushHandlers, requests, pc, msg, waiter, use, buffers>>

Push(p) ==
  /\ use[p] = "none" /\ owned[p] = None
  /\ p \notin {wire[i] : i \in DOMAIN wire}
  /\ wire' = Append(wire, p)
  /\ UNCHANGED <<given, pushHandlers, requests, asked, pc, msg, waiter, use, buffers>>

\* The connection breaks and is replaced; what was under way is lost.
Disconnect ==
  /\ pc = "read"
  /\ asked' = {} /\ wire' = <<>>
  /\ UNCHANGED <<given, pushHandlers, requests, pc, msg, waiter, use, buffers>>

(***************************************************************************)
(* readLoop: Decode, rec, and the deferred Close of the message            *)
(***************************************************************************)
\* BufPool.Get: a buffer of the pool, or a new one.
Gets(m, b) ==
  /\ \/ pool[b] > 0 /\ pool' = [pool EXCEPT ![b] = @ - 1]
     \/ b \notin {owned[n] : n \in Msgs} /\ pool' = pool
  /\ owned' = [owned EXCEPT ![m] = b]
  /\ payload' = [payload EXCEPT ![m] = b]
  /\ release' = [release EXCEPT ![m] = TRUE]

Decode ==
  /\ pc = "read"
  /\ wire # <<>>
  /\ msg' = Head(wire)
  /\ wire' = Tail(wire)
  /\ \E b \in Bufs : Gets(Head(wire), b)
  /\ pc' = "rec"
  /\ UNCHANGED <<given, pushHandlers, requests, asked, waiter, use>>

\* Mutant: rec does not test whether it has found a handler.
RecAnswer_Nil ==
  /\ pc = "rec"
  /\ waiter' = handlers[Id(msg)]
  /\ pc' = "deliver"
  /\ UNCHANGED <<given, pushHandlers, requests, net, msg, use, buffers>>

\* A request waits for the id of the message, be it an answer or a push.
RecAnswer ==
  /\ pc = "rec"
  /\ handlers[Id(msg)] # None
  /\ waiter' = handlers[Id(msg)]
  /\ pc' = "deliver"
  /\ UNCHANGED <<given, pushHandlers, requests, net, msg, use, buffers>>

\* go handler.callback(message), if there is a handler.
RecPush ==
  /\ pc = "rec"
  /\ handlers[Id(msg)] = None
  /\ use' = IF Id(msg) \in pushHandlers THEN [use EXCEPT ![msg] = "using"] ELSE use
  /\ pc' = "close"
  /\ UNCHANGED <<given, pushHandlers, requests, net, msg, waiter, buffers>>

\* The send blocks while the channel is full.
Deliver ==
  /\ pc = "deliver"
  /\ done[waiter] = None
  /\ done' = [done EXCEPT ![waiter] = msg]
  /\ pc' = "delete"
  /\ UNCHANGED <<given, pushHandlers, handlers, calls, rpc, net, msg, waiter, use, buffers>>

\* Mutant: a handler that was answered stays in the map.
Delete_Kept ==
  /\ pc = "delete"
  /\ pc' = "close"
  /\ UNCHANGED <<given, pushHandlers, requests, net, msg, waiter, use, buffers>>

\* delete removes whatever handler has the id by now.
Delete ==
  /\ pc = "delete"
  /\ handlers' = [handlers EXCEPT ![Id(msg)] = None]
  /\ pc' = "close"
  /\ UNCHANGED <<given, pushHandlers, done, calls, rpc, net, msg, waiter, use, buffers>>

(***************************************************************************)
(* DataMessage.Close, by readLoop and, if it closes, by the user           *)
(***************************************************************************)
Put(m) ==
  /\ pool' = [pool EXCEPT ![owned[m]] = @ + 1]
  /\ UNCHANGED <<release, payload, owned>>

Clear(m) ==
  /\ payload' = [payload EXCEPT ![m] = None]
  /\ release' = [release EXCEPT ![m] = FALSE]
  /\ UNCHANGED <<owned, pool>>

NextFrame == pc' = "read" /\ msg' = None /\ waiter' = None

CloseTest ==
  /\ pc = "close"
  /\ IF payload[msg] # None /\ release[msg]
     THEN pc' = "put" /\ UNCHANGED <<msg, waiter>>
     ELSE NextFrame
  /\ UNCHANGED <<given, pushHandlers, requests, net, use, buffers>>

ClosePut ==
  /\ pc = "put"
  /\ pc' = "clear"
  /\ Put(msg)
  /\ UNCHANGED <<given, pushHandlers, requests, net, msg, waiter, use>>

CloseClear ==
  /\ pc = "clear"
  /\ Clear(msg)
  /\ NextFrame
  /\ UNCHANGED <<given, pushHandlers, requests, net, use>>

Step(m, from, to) == use[m] = from /\ use' = [use EXCEPT ![m] = to]

UserDone(m) ==
  /\ Step(m, "using", IF userCloses THEN "close" ELSE "done")
  /\ UNCHANGED <<given, pushHandlers, requests, net, pc, msg, waiter, buffers>>

UserTest(m) ==
  /\ Step(m, "close", IF release[m] THEN "put" ELSE "done")
  /\ UNCHANGED <<given, pushHandlers, requests, net, pc, msg, waiter, buffers>>

UserPut(m) ==
  /\ Step(m, "put", "clear")
  /\ Put(m)
  /\ UNCHANGED <<given, pushHandlers, requests, net, pc, msg, waiter>>

UserClear(m) ==
  /\ Step(m, "clear", "done")
  /\ Clear(m)
  /\ UNCHANGED <<given, pushHandlers, requests, net, pc, msg, waiter>>

RequestMessage(r) == Register(r) \/ Send(r) \/ SendFails(r) \/ Receive(r)

Server == Disconnect \/ (\E c \in Calls : Answer(c)) \/ (\E p \in Pushes : Push(p))

ReadLoop ==
  Decode \/ RecAnswer \/ RecPush \/ Deliver \/ Delete \/ CloseTest \/ ClosePut \/ CloseClear

User(m) == UserDone(m) \/ UserTest(m) \/ UserPut(m) \/ UserClear(m)

Next ==
  \/ \E r \in Requesters : RequestMessage(r)
  \/ \E i \in Ids : AddMessageHandler(i) \/ RemoveMessageHandler(i)
  \/ Server
  \/ ReadLoop
  \/ \E m \in Msgs : User(m)

Spec == Init /\ [][Next]_vars

-----------------------------------------------------------------------------
(***************************************************************************)
(* Properties                                                              *)
(***************************************************************************)
\* rec never waits for a requester: the channel of the handler it has found is
\* empty, so that readLoop, which reads for all, does not stop.
RecNeverBlocks == pc = "deliver" => done[waiter] = None

\* A requester with an id that no other requester and no push uses receives the
\* answer to its request and no other message, also when sending fails or the
\* connection is lost in between.
OwnId(r) == \A q \in Requesters \cup Pushes : idOf[q] = idOf[r] => q = r
RightAnswer == \A c \in Calls : OwnId(c[1]) => done[c] \in {None, c}

\* As long as users leave the closing of messages to readLoop a buffer is either
\* in the pool, once, or in one message, so that no two messages ever share it.
Holding(b) == {m \in Msgs : payload[m] = b /\ ~(pc = "clear" /\ m = msg)}
BufferOwnedOnce ==
  ~userCloses => \A b \in Bufs : pool[b] + Cardinality(Holding(b)) <= 1

\* A payload is returned "when done with" (tcp_connector.go line 202): its user
\* finds it in the message as long as it uses it.
UsedBeforeReturned == \A m \in Msgs : use[m] = "using" => payload[m] # None

=============================================================================
