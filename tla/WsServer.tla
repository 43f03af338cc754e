------------------------------- MODULE WsServer -------------------------------
(***************************************************************************)
(* The WebSocket server of network/ws_server.go after Start: one wsHandler *)
(* goroutine per request, the goroutines that send on or close connections *)
(* they know, and the main goroutine, which on a signal runs OnSystemExit  *)
(* and then ends the process (system/sys.go).  clients is a sync.Map.      *)
(* WSConnectContext.Running is written and never read, so it is left out.  *)
(***************************************************************************)
EXTENDS Naturals

CONSTANTS
  Conns,        \* connections peers may open, each at most once
  Apps,         \* goroutines of the application
  Main,         \* the goroutine in WaitElegantExit
  None,
  IdleTimed,    \* IdleTimeout > 0
  AcceptPanics  \* whether SessionHandler.OnAccept may panic

Threads == Conns \cup Apps \cup {Main}

ASSUME ThreadAssumption ==
  Conns \cap Apps = {} /\ Main \notin Conns \cup Apps /\ None \notin Threads
ASSUME OptionAssumption == IdleTimed \in BOOLEAN /\ AcceptPanics \in BOOLEAN

VARIABLES
  clients,      \* the connections in WSServer.clients
  sock,         \* state of each connection: none yet, open, broken, closed
  writer,       \* holder of each writeMu
  closes,       \* how often SessionHandler.OnClose was called
  pc,           \* where each goroutine is; c stands for the handler of c
  target,       \* the connection that SendMessage or CloseContext is called on
  toVisit,      \* the clients that Range has yet to visit
  late          \* history: the connections stored since Range began

vars == <<clients, sock, writer, closes, pc, target, toVisit, late>>

ClosePCs == {"remove", "close", "onclose"}
SendPCs == {"lock", "write", "sendclose"}
HandlerPCs == {"off", "new", "accepting", "read", "exec", "idling", "done", "panicked"}

\* Every variable has its type; a handler works on its own connection.
TypeOK ==
  /\ clients \subseteq Conns
  /\ sock \in [Conns -> {"none", "open", "broken", "closed"}]
  /\ writer \in [Conns -> Conns \cup Apps \cup {None}]
  /\ closes \in [Conns -> Nat]
  /\ DOMAIN pc = Threads
  /\ \A c \in Conns : pc[c] \in HandlerPCs \cup SendPCs \cup ClosePCs /\ target[c] = c
  /\ \A a \in Apps : pc[a] \in {"idle"} \cup SendPCs \cup ClosePCs
  /\ pc[Main] \in {"wait", "range", "sweep", "exited"} \cup ClosePCs
  /\ target \in [Threads -> Conns \cup {None}]
  /\ \A t \in Threads : pc[t] \in ClosePCs \cup SendPCs => target[t] \in Conns
  /\ toVisit \subseteq Conns /\ late \subseteq Conns

Init ==
  /\ clients = {}
  /\ sock = [c \in Conns |-> "none"]
  /\ writer = [c \in Conns |-> None]
  /\ closes = [c \in Conns |-> 0]
  /\ pc = [t \in Threads |-> IF t \in Conns THEN "off" ELSE IF t = Main THEN "wait" ELSE "idle"]
  /\ target = [t \in Threads |-> IF t \in Conns THEN t ELSE None]
  /\ toVisit = {}
  /\ late = {}

\* Nothing moves any more when the process has ended.
Alive == pc[Main] # "exited"
Goto(t, from, to) == Alive /\ pc[t] = from /\ pc' = [pc EXCEPT ![t] = to]

\* t goes on, and nothing else changes.
Moves(t, from, to) ==
  /\ Goto(t, from, to)
  /\ UNCHANGED <<clients, sock, writer, closes, target, toVisit, late>>

(***************************************************************************)
(* wsHandler                                                               *)
(***************************************************************************)
Accept(c) ==
  /\ Goto(c, "off", "new")
  /\ sock' = [sock EXCEPT ![c] = "open"]
  /\ UNCHANGED <<clients, writer, closes, target, toVisit, late>>

\* Then OnAccept is running.
HandlerStore(c) ==
  /\ Goto(c, "new", "accepting")
  /\ clients' = clients \cup {c}
  /\ late' = IF pc[Main] \in {"wait", "range"} THEN late ELSE late \cup {c}
  /\ UNCHANGED <<sock, writer, closes, target, toVisit>>

OnAcceptReturns(c) == Moves(c, "accepting", "read")

\* CloseContext is not deferred yet: the handler ends, and its connection stays.
OnAcceptPanics(c) ==
  /\ AcceptPanics
  /\ Moves(c, "accepting", "panicked")

\* A binary message is read that holds whole frames.
ReadMessage(c) ==
  /\ Moves(c, "read", "exec")
  /\ sock[c] # "closed"

\* Mutant: a failed read ends the handler without CloseContext.
ReadFails_Undeferred(c) == Moves(c, "read", "done")

\* Read fails, on a dead connection or by the context of the request.
ReadFails(c) == Moves(c, "read", "remove")

\* IdleTimeout passes; then OnIdleTimeout is running.
ReadIdle(c) ==
  /\ IdleTimed
  /\ Moves(c, "read", "idling")

OnIdleTimeoutReturns(c) == Moves(c, "idling", "remove")

\* wsExtractBodies refuses the message.
ExtractFails(c) ==
  /\ Goto(c, "read", "remove")
  /\ sock[c] # "closed"
  /\ sock' = [sock EXCEPT ![c] = "closed"]
  /\ UNCHANGED <<clients, writer, closes, target, toVisit, late>>

\* Decode fails for one of the bodies.
DecodeFails(c) == Moves(c, "exec", "remove")

\* Every body has been executed, or its execution panicked and was recovered.
Executed(c) == Moves(c, "exec", "read")

(***************************************************************************)
(* SendMessage, by the application on a connection it knows, or by the     *)
(* handler for the response of its executor                                *)
(***************************************************************************)
Known(c) == pc[c] \notin {"off", "new"}

SendCall(a, c) ==
  /\ Known(c)
  /\ Goto(a, "idle", "lock")
  /\ target' = [target EXCEPT ![a] = c]
  /\ UNCHANGED <<clients, sock, writer, closes, toVisit, late>>

\* MessageRouter.Route
Answer(c) == Moves(c, "exec", "lock")

AfterSend(t) == IF t \in Conns THEN "exec" ELSE "idle"

SendLock(t) ==
  /\ Goto(t, "lock", "write")
  /\ writer[target[t]] = None
  /\ writer' = [writer EXCEPT ![target[t]] = t]
  /\ UNCHANGED <<clients, sock, closes, target, toVisit, late>>

SendWritten(t) ==
  /\ Goto(t, "write", AfterSend(t))
  /\ sock[target[t]] # "closed"
  /\ writer' = [writer EXCEPT ![target[t]] = None]
  /\ UNCHANGED <<clients, sock, closes, target, toVisit, late>>

\* Write fails, or the five seconds of this call are over.
SendBroken(t) ==
  /\ Goto(t, "write", "sendclose")
  /\ writer' = [writer EXCEPT ![target[t]] = None]
  /\ UNCHANGED <<clients, sock, closes, target, toVisit, late>>

SendClose(t) ==
  /\ Goto(t, "sendclose", AfterSend(t))
  /\ sock' = [sock EXCEPT ![target[t]] = "closed"]
  /\ UNCHANGED <<clients, writer, closes, target, toVisit, late>>

SendMessage(t) == SendLock(t) \/ SendWritten(t) \/ SendBroken(t) \/ SendClose(t)

(***************************************************************************)
(* CloseContext: deferred by the handler, swept by OnSystemExit, or called *)
(* by the application                                                      *)
(***************************************************************************)
\* Mutant: a handler goes on as any caller of CloseContext does.
Back_Caller(t) == IF t = Main THEN "sweep" ELSE "idle"

Back(t) == CASE t \in Conns -> "done"
             [] t \in Apps -> "idle"
             [] OTHER -> "sweep"

AppClose(a, c) ==
  /\ Known(c)
  /\ Goto(a, "idle", "remove")
  /\ target' = [target EXCEPT ![a] = c]
  /\ UNCHANGED <<clients, sock, writer, closes, toVisit, late>>

\* Mutant: whoever finds the connection already gone carries on as well.
CloseDelete_Always(t) ==
  /\ Goto(t, "remove", "close")
  /\ clients' = clients \ {target[t]}
  /\ UNCHANGED <<sock, writer, closes, target, toVisit, late>>

\* LoadAndDelete lets the first caller go on.
CloseDelete(t) ==
  /\ Goto(t, "remove", IF target[t] \in clients THEN "close" ELSE Back(t))
  /\ clients' = clients \ {target[t]}
  /\ UNCHANGED <<sock, writer, closes, target, toVisit, late>>

CloseConn(t) ==
  /\ Goto(t, "close", "onclose")
  /\ sock' = [sock EXCEPT ![target[t]] = "closed"]
  /\ UNCHANGED <<clients, writer, closes, target, toVisit, late>>

CloseNotify(t) ==
  /\ Goto(t, "onclose", Back(t))
  /\ closes' = [closes EXCEPT ![target[t]] = @ + 1]
  /\ UNCHANGED <<clients, sock, writer, target, toVisit, late>>

CloseContext(t) == CloseDelete(t) \/ CloseConn(t) \/ CloseNotify(t)

(***************************************************************************)
(* The signal, OnSystemExit and the end of the process                     *)
(***************************************************************************)
Signal == Moves(Main, "wait", "range")

\* Mutant: a client whose handler is busy is passed over.
ExitRange_Reading ==
  /\ Goto(Main, "range", "sweep")
  /\ toVisit' = {c \in clients : pc[c] = "read"}
  /\ UNCHANGED <<clients, sock, writer, closes, target, late>>

\* Range visits every client it finds as it starts and stays there ...
ExitRange ==
  /\ Goto(Main, "range", "sweep")
  /\ toVisit' = clients
  /\ UNCHANGED <<clients, sock, writer, closes, target, late>>

\* ... and may visit one that is stored meanwhile.
ExitVisit(c) ==
  /\ c \in toVisit \cup clients
  /\ toVisit' = toVisit \ {c}
  /\ Goto(Main, "sweep", "remove")
  /\ target' = [target EXCEPT ![Main] = c]
  /\ UNCHANGED <<clients, sock, writer, closes, late>>

\* The other exit handlers have run or run now, and the process ends.
ProcessExit ==
  /\ toVisit = {}
  /\ Moves(Main, "sweep", "exited")

\* The peer or the network breaks a connection, or the library does when a
\* context given to it expires.
ConnBreaks(c) ==
  /\ Alive
  /\ sock[c] = "open"
  /\ sock' = [sock EXCEPT ![c] = "broken"]
  /\ UNCHANGED <<clients, writer, closes, pc, target, toVisit, late>>

Handler(c) ==
  \/ Accept(c) \/ HandlerStore(c) \/ OnAcceptReturns(c) \/ OnAcceptPanics(c)
  \/ ReadMessage(c) \/ ReadFails(c) \/ ReadIdle(c) \/ OnIdleTimeoutReturns(c)
  \/ ExtractFails(c) \/ DecodeFails(c) \/ Executed(c)
  \/ Answer(c) \/ SendMessage(c) \/ CloseContext(c)

Application(a) ==
  \/ \E c \in Conns : SendCall(a, c) \/ AppClose(a, c)
  \/ SendMessage(a) \/ CloseContext(a)

WaitElegantExit ==
  \/ Signal \/ ExitRange
  \/ \E c \in Conns : ExitVisit(c)
  \/ CloseContext(Main) \/ ProcessExit

Next ==
  \/ \E c \in Conns : Handler(c) \/ ConnBreaks(c)
  \/ \E a \in Apps : Application(a)
  \/ WaitElegantExit

Spec == Init /\ [][Next]_vars

-----------------------------------------------------------------------------
(***************************************************************************)
(* Fairness, while the process lives.  Goroutines run, sync.Mutex starves  *)
(* nobody (SF), callbacks return after finitely many sends (SF), a write   *)
(* ends by its context, and a read fails on a closed connection and, when  *)
(* its last message has been read, on a broken one (SF).                   *)
(***************************************************************************)
HandlerProgress(c) ==
  \/ HandlerStore(c) \/ OnAcceptReturns(c) \/ OnIdleTimeoutReturns(c) \/ Executed(c)
  \/ SendBroken(c) \/ SendClose(c) \/ CloseContext(c)

Fairness ==
  /\ \A c \in Conns : /\ WF_vars(HandlerProgress(c))
                       /\ SF_vars(SendLock(c))
                       /\ SF_vars(Executed(c))
                       /\ SF_vars(sock[c] # "open" /\ ReadFails(c))
  /\ \A a \in Apps : WF_vars(SendBroken(a) \/ SendClose(a) \/ CloseContext(a))
  /\ WF_vars(CloseContext(Main))

FairSpec == Spec /\ Fairness

-----------------------------------------------------------------------------
(***************************************************************************)
(* Properties                                                              *)
(***************************************************************************)
Removing(c) == \E t \in Threads : pc[t] \in {"close", "onclose"} /\ target[t] = c

\* When the process ends OnClose has been called for every connection that was
\* in clients as OnSystemExit began, or came to be removed by another goroutine
\* that the end of the process has cut short.  Connections stored later may
\* have been missed: nothing stops the HTTP server.
ExitNotifies ==
  pc[Main] = "exited" =>
    \A c \in Conns : Known(c) /\ c \notin late =>
      c \notin clients /\ (closes[c] = 1 \/ Removing(c))

\* A connection that breaks, or that SendMessage closes because a write failed,
\* is cleaned up by its handler, even one that is itself busy sending on it.
DeadConnCleaned ==
  \A c \in Conns : sock[c] \in {"broken", "closed"} ~>
    \/ pc[Main] = "exited" \/ pc[c] = "panicked"
    \/ pc[c] = "done" /\ c \notin clients /\ closes[c] = 1

sessionPhase ==
  [c \in Conns |-> IF closes[c] > 0 THEN "closed"
                   ELSE IF c \in clients THEN "live"
                   ELSE IF Removing(c) THEN "closing"
                   ELSE IF sock[c] = "none" THEN "none" ELSE "accepted"]

S == INSTANCE Sessions WITH
       phase <- sessionPhase, open <- {c \in Conns : sock[c] \in {"open", "broken"}}

\* The WebSocket server keeps the same promises as the TCP server.
ImplementsSessions == S!Spec

=============================================================================
