------------------------------ MODULE TcpServer ------------------------------
(***************************************************************************)
(* The TCP server of network/tcp_server.go after Start: the accept loop,   *)
(* one handleConnection goroutine per connection, OnSystemExit, and the    *)
(* application's goroutines that call SendMessage and RemoveConnect on the *)
(* connections they learned of.  clients, a sync.Map, is their only shared *)
(* structure; ConnectContext.Running is read and written without a lock.   *)
(***************************************************************************)
EXTENDS Naturals

CONSTANTS
  Conns,        \* connections peers may open, each at most once
  Apps,         \* goroutines of the application
  Acceptor,     \* the accept loop
  Exit,         \* the goroutine that calls OnSystemExit
  IdleTimed,    \* IdleTimeout > 0
  AcceptPanics  \* whether SessionHandler.OnAccept may panic

Threads == Conns \cup Apps \cup {Acceptor, Exit}

ASSUME ThreadAssumption ==
  /\ Conns \cap Apps = {}
  /\ Acceptor # Exit
  /\ {Acceptor, Exit} \cap (Conns \cup Apps) = {}
ASSUME OptionAssumption == IdleTimed \in BOOLEAN /\ AcceptPanics \in BOOLEAN

VARIABLES
  running,      \* TcpServer.running = 1
  listening,    \* the listener is open
  clients,      \* the connections in TcpServer.clients
  sock,         \* state of each socket: none yet, open, broken, closed
  Running,      \* ConnectContext.Running
  pc,           \* where each goroutine is; c stands for the handler of c
  target,       \* the connection that SendMessage or RemoveConnect is called on
  toVisit,      \* the clients that Range has yet to visit
  closes        \* how often SessionHandler.OnClose was called

conn == <<sock, Running, closes>>
vars == <<running, listening, clients, pc, target, toVisit, conn>>

RemovePCs == {"remove", "stop", "close", "onclose"}
SendPCs == {"send", "sendclose", "sendstop"}
HandlerPCs == {"off", "new", "accepting", "loop", "read", "exec", "idling", "done", "panicked"}

\* Every variable has its type; a handler works on its own connection.
TypeOK ==
  /\ running \in BOOLEAN
  /\ listening \in BOOLEAN
  /\ clients \subseteq Conns
  /\ sock \in [Conns -> {"none", "open", "broken", "closed"}]
  /\ Running \in [Conns -> BOOLEAN]
  /\ DOMAIN pc = Threads
  /\ \A c \in Conns : pc[c] \in HandlerPCs \cup RemovePCs /\ target[c] = c
  /\ \A a \in Apps : pc[a] \in {"idle"} \cup SendPCs \cup RemovePCs
  /\ pc[Acceptor] \in {"loop", "accept", "done"}
  /\ pc[Exit] \in {"idle", "unlisten", "range", "sweep", "done"} \cup RemovePCs
  /\ target \in [Threads -> Conns \cup {Acceptor}]
  /\ \A t \in Threads : pc[t] \in RemovePCs \cup SendPCs => target[t] \in Conns
  /\ toVisit \subseteq Conns
  /\ closes \in [Conns -> Nat]

\* Start has listened and started the accept loop.
Init ==
  /\ running = TRUE
  /\ listening = TRUE
  /\ clients = {}
  /\ sock = [c \in Conns |-> "none"]
  /\ Running = [c \in Conns |-> TRUE]
  /\ pc = [t \in Threads |-> CASE t \in Conns -> "off"
                               [] t = Acceptor -> "loop"
                               [] OTHER -> "idle"]
  /\ target = [t \in Threads |-> IF t \in Conns THEN t ELSE Acceptor]
  /\ toVisit = {}
  /\ closes = [c \in Conns |-> 0]

Goto(t, from, to) == pc[t] = from /\ pc' = [pc EXCEPT ![t] = to]

\* t goes on, and nothing else changes.
Moves(t, from, to) ==
  /\ Goto(t, from, to)
  /\ UNCHANGED <<running, listening, clients, target, toVisit, conn>>

(***************************************************************************)
(* The accept loop                                                         *)
(***************************************************************************)
AcceptHead == Moves(Acceptor, "loop", IF running THEN "accept" ELSE "done")

AcceptConn(c) ==
  /\ listening
  /\ sock[c] = "none"
  /\ sock' = [sock EXCEPT ![c] = "open"]
  /\ pc[Acceptor] = "accept"
  /\ pc' = [pc EXCEPT ![Acceptor] = "loop", ![c] = "new"]
  /\ UNCHANGED <<running, listening, clients, target, toVisit, Running, closes>>

\* Accept fails, for good when the listener is closed.
AcceptError == Moves(Acceptor, "accept", IF running THEN "loop" ELSE "done")

(***************************************************************************)
(* handleConnection                                                        *)
(***************************************************************************)
\* AddConnect; then OnAccept is running.
HandlerAdd(c) ==
  /\ Goto(c, "new", "accepting")
  /\ clients' = clients \cup {c}
  /\ UNCHANGED <<running, listening, target, toVisit, conn>>

OnAcceptReturns(c) == Moves(c, "accepting", "loop")

\* RemoveConnect is not deferred yet: the handler ends, and its connection stays.
OnAcceptPanics(c) ==
  /\ AcceptPanics
  /\ Moves(c, "accepting", "panicked")

\* Mutant: the loop does not look at TcpServer.running.
HandlerHead_Deaf(c) ==
  Moves(c, "loop", "read") \/ (~Running[c] /\ Moves(c, "loop", "remove"))

\* The handler may not see yet a Running that another goroutine cleared.
HandlerHead(c) ==
  \/ running /\ Moves(c, "loop", "read")
  \/ ~(running /\ Running[c]) /\ Moves(c, "loop", "remove")

ReadFrame(c) ==
  /\ Moves(c, "read", "exec")
  /\ sock[c] # "closed"

\* Mutant: a failed read ends the handler before RemoveConnect is deferred.
ReadFails_Undeferred(c) == Moves(c, "read", "done")

\* DeFrame fails on a dead socket, refuses a frame's length, or panics.
ReadFails(c) == Moves(c, "read", "remove")

\* The read deadline passes; then OnIdleTimeout is running.
ReadIdle(c) ==
  /\ Moves(c, "read", "idling")
  /\ IdleTimed
  /\ sock[c] = "open"

OnIdleTimeoutReturns(c) == Moves(c, "idling", "remove")

\* Decode gives nothing; the handler reads back the Running it clears.
DecodeFails(c) ==
  /\ Goto(c, "exec", "remove")
  /\ Running' = [Running EXCEPT ![c] = FALSE]
  /\ UNCHANGED <<running, listening, clients, target, toVisit, sock, closes>>

\* Execute returns, or panics and is recovered.
Executed(c) == Moves(c, "exec", "loop")

(***************************************************************************)
(* RemoveConnect: deferred by the handler, swept by OnSystemExit, or       *)
(* called by the application                                               *)
(***************************************************************************)
\* Mutant: a handler goes on as any caller of RemoveConnect does.
Back_Caller(t) == IF t = Exit THEN "sweep" ELSE "idle"

\* Where the caller of RemoveConnect goes on.
Back(t) == CASE t \in Conns -> "done"
             [] t = Exit -> "sweep"
             [] OTHER -> "idle"

\* Mutant: whoever finds the connection already gone carries on as well.
RemoveDelete_Always(t) ==
  /\ Goto(t, "remove", "stop")
  /\ clients' = clients \ {target[t]}
  /\ UNCHANGED <<running, listening, target, toVisit, conn>>

\* LoadAndDelete lets the first caller go on.
RemoveDelete(t) ==
  /\ Goto(t, "remove", IF target[t] \in clients THEN "stop" ELSE Back(t))
  /\ clients' = clients \ {target[t]}
  /\ UNCHANGED <<running, listening, target, toVisit, conn>>

\* Mutant: OnClose is called before the socket is closed.
RemoveStop_Early(t) ==
  /\ Goto(t, "stop", "close")
  /\ Running' = [Running EXCEPT ![target[t]] = FALSE]
  /\ closes' = [closes EXCEPT ![target[t]] = @ + 1]
  /\ UNCHANGED <<running, listening, clients, target, toVisit, sock>>

RemoveStop(t) ==
  /\ Goto(t, "stop", "close")
  /\ Running' = [Running EXCEPT ![target[t]] = FALSE]
  /\ UNCHANGED <<running, listening, clients, target, toVisit, sock, closes>>

\* Mutant: the socket is left open.
RemoveClose_Open(t) == Moves(t, "close", "onclose")

RemoveClose(t) ==
  /\ Goto(t, "close", "onclose")
  /\ sock' = [sock EXCEPT ![target[t]] = "closed"]
  /\ UNCHANGED <<running, listening, clients, target, toVisit, Running, closes>>

RemoveNotify(t) ==
  /\ Goto(t, "onclose", Back(t))
  /\ closes' = [closes EXCEPT ![target[t]] = @ + 1]
  /\ UNCHANGED <<running, listening, clients, target, toVisit, sock, Running>>

RemoveConnect(t) ==
  \/ RemoveDelete(t)
  \/ RemoveStop(t)
  \/ RemoveClose(t)
  \/ RemoveNotify(t)

(***************************************************************************)
(* The application, which learns of a connection in OnAccept and may keep  *)
(* its context, or find it by GetConnect                                   *)
(***************************************************************************)
Known(c) == pc[c] \notin {"off", "new"}

AppRemove(a, c) ==
  /\ Known(c)
  /\ Goto(a, "idle", "remove")
  /\ target' = [target EXCEPT ![a] = c]
  /\ UNCHANGED <<running, listening, clients, toVisit, conn>>

AppSend(a, c) ==
  /\ Known(c)
  /\ Goto(a, "idle", "send")
  /\ target' = [target EXCEPT ![a] = c]
  /\ UNCHANGED <<running, listening, clients, toVisit, conn>>

SendWritten(a) ==
  /\ Moves(a, "send", "idle")
  /\ sock[target[a]] # "closed"

\* WriteFrame fails, on a dead socket or at its deadline of 30 seconds, which
\* another SendMessage may have cleared (see TcpConnector).
SendBroken(a) == Moves(a, "send", "sendclose")

SendClose(a) ==
  /\ Goto(a, "sendclose", "sendstop")
  /\ sock' = [sock EXCEPT ![target[a]] = "closed"]
  /\ UNCHANGED <<running, listening, clients, target, toVisit, Running, closes>>

SendStop(a) ==
  /\ Goto(a, "sendstop", "idle")
  /\ Running' = [Running EXCEPT ![target[a]] = FALSE]
  /\ UNCHANGED <<running, listening, clients, target, toVisit, sock, closes>>

(***************************************************************************)
(* OnSystemExit                                                            *)
(***************************************************************************)
ExitCall ==
  /\ running
  /\ running' = FALSE
  /\ Goto(Exit, "idle", "unlisten")
  /\ UNCHANGED <<listening, clients, target, toVisit, conn>>

ExitUnlisten ==
  /\ Goto(Exit, "unlisten", "range")
  /\ listening' = FALSE
  /\ UNCHANGED <<running, clients, target, toVisit, conn>>

\* Mutant: a connection that waits for a frame is passed over.
ExitRange_Busy ==
  /\ Goto(Exit, "range", "sweep")
  /\ toVisit' = {c \in clients : pc[c] # "read"}
  /\ UNCHANGED <<running, listening, clients, target, conn>>

\* Range visits every client it finds as it starts and stays there ...
ExitRange ==
  /\ Goto(Exit, "range", "sweep")
  /\ toVisit' = clients
  /\ UNCHANGED <<running, listening, clients, target, conn>>

\* ... and may visit one that is added meanwhile.
ExitVisit(c) ==
  /\ c \in toVisit \cup clients
  /\ toVisit' = toVisit \ {c}
  /\ Goto(Exit, "sweep", "remove")
  /\ target' = [target EXCEPT ![Exit] = c]
  /\ UNCHANGED <<running, listening, clients, conn>>

ExitReturns ==
  /\ toVisit = {}
  /\ Moves(Exit, "sweep", "done")

\* The network breaks a connection, or the peer closes it.
NetworkBreaks(c) ==
  /\ sock[c] = "open"
  /\ sock' = [sock EXCEPT ![c] = "broken"]
  /\ UNCHANGED <<running, listening, clients, pc, target, toVisit, Running, closes>>

Accept == AcceptHead \/ AcceptError \/ \E c \in Conns : AcceptConn(c)

HandleConnection(c) ==
  \/ HandlerAdd(c)
  \/ OnAcceptReturns(c)
  \/ OnAcceptPanics(c)
  \/ HandlerHead(c)
  \/ ReadFrame(c)
  \/ ReadFails(c)
  \/ ReadIdle(c)
  \/ OnIdleTimeoutReturns(c)
  \/ DecodeFails(c)
  \/ Executed(c)
  \/ RemoveConnect(c)

SendMessage(a) == SendWritten(a) \/ SendBroken(a) \/ SendClose(a) \/ SendStop(a)

Application(a) ==
  \/ \E c \in Conns : AppRemove(a, c) \/ AppSend(a, c)
  \/ SendMessage(a)
  \/ RemoveConnect(a)

OnSystemExit ==
  \/ ExitCall
  \/ ExitUnlisten
  \/ ExitRange
  \/ \E c \in Conns : ExitVisit(c)
  \/ ExitReturns
  \/ RemoveConnect(Exit)

Next ==
  \/ Accept
  \/ \E c \in Conns : HandleConnection(c)
  \/ \E a \in Apps : Application(a)
  \/ OnSystemExit
  \/ \E c \in Conns : NetworkBreaks(c)

Spec == Init /\ [][Next]_vars

-----------------------------------------------------------------------------
(***************************************************************************)
(* Fairness.  Goroutines run, the callbacks return, Accept fails once the  *)
(* listener is closed, and a read fails on a closed socket and, its last   *)
(* frames once read, on a broken one (SF).  A write may never end, no peer *)
(* has to connect or to send, and nobody has to call OnSystemExit.         *)
(***************************************************************************)
HandlerProgress(c) ==
  \/ HandlerAdd(c) \/ OnAcceptReturns(c) \/ HandlerHead(c)
  \/ OnIdleTimeoutReturns(c) \/ Executed(c) \/ RemoveConnect(c)

Fairness ==
  /\ \A c \in Conns : /\ WF_vars(HandlerProgress(c))
                       /\ SF_vars(sock[c] # "open" /\ ReadFails(c))
  /\ \A a \in Apps : WF_vars(SendClose(a) \/ SendStop(a) \/ RemoveConnect(a))
  /\ WF_vars(AcceptHead \/ (~listening /\ AcceptError))
  /\ WF_vars(ExitUnlisten \/ ExitRange \/ ExitReturns \/ RemoveConnect(Exit))
  /\ WF_vars(\E c \in toVisit : ExitVisit(c))

FairSpec == Spec /\ Fairness

-----------------------------------------------------------------------------
(***************************************************************************)
(* Properties                                                              *)
(***************************************************************************)
\* Some goroutine has taken c out of clients and has not finished with it.
Taking(t) == pc[t] \in {"stop", "close", "onclose"}
Removing(c) == \E t \in Threads : Taking(t) /\ target[t] = c

\* RemoveConnect is "idempotent": however many goroutines end a connection at
\* once, by a failed read, an exit and the application, OnClose is called once.
OneOnClose == \A c \in Conns : closes[c] <= 1

\* OnClose is called when the connection can neither be found nor used: no
\* frame of it is read any more.
ClosedBeforeOnClose ==
  \A c \in Conns : closes[c] > 0 => c \notin clients /\ sock[c] = "closed"

\* A handler that is gone leaves nothing behind: its connection is out of
\* clients, closed, and OnClose was called, by it or by whoever came first,
\* unless that one is still at it.  (A handler whose OnAccept panicked does not
\* clean up.)
CleanedUp ==
  \A c \in Conns : pc[c] = "done" /\ ~Removing(c) =>
    c \notin clients /\ sock[c] = "closed" /\ closes[c] = 1

\* Once OnSystemExit has returned no handler waits for a frame or executes one
\* on an open connection, though connections came and went as it ran: at most
\* it will find the server stopped before it reads.
ExitReachesAll ==
  pc[Exit] = "done" =>
    \A c \in Conns : pc[c] \in {"read", "exec"} => sock[c] = "closed" \/ Removing(c)

\* A handler has run to its end, unless its OnAccept panicked.
Ended(c) == pc[c] = "panicked" \/ (pc[c] = "done" /\ c \notin clients)

\* A connection that breaks, or that SendMessage closes because a write failed,
\* is cleaned up by its handler, without any help of the idle timeout.
DeadConnCleaned ==
  \A c \in Conns : sock[c] \in {"broken", "closed"} ~>
    Ended(c) /\ (pc[c] = "done" => closes[c] = 1)

\* OnSystemExit ends the accept loop and every handler, also that of a
\* connection accepted as it ran, if the process lives on for a while.
ExitEndsAll ==
  ~running ~> /\ pc[Acceptor] = "done" /\ pc[Exit] = "done"
              /\ \A c \in Conns : pc[c] = "off" \/ Ended(c)

-----------------------------------------------------------------------------
(***************************************************************************)
(* The server treats its connections as Sessions says                      *)
(***************************************************************************)
sessionPhase ==
  [c \in Conns |-> IF closes[c] > 0 THEN "closed"
                   ELSE IF c \in clients THEN "live"
                   ELSE IF Removing(c) THEN "closing"
                   ELSE IF sock[c] = "none" THEN "none" ELSE "accepted"]

S == INSTANCE Sessions WITH
       phase <- sessionPhase, open <- {c \in Conns : sock[c] \in {"open", "broken"}}

\* The server keeps the promises of Sessions to the session handler.
ImplementsSessions == S!Spec

=============================================================================
