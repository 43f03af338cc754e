------------------------------ MODULE Sessions ------------------------------
(***************************************************************************)
(* What a server promises of each connection to the application behind     *)
(* ISessionHandler (network/componnet.go), whoever ends the connection and *)
(* however many do so at once: it is registered once, taken out once, and  *)
(* OnClose is called once, after its socket is closed for good.            *)
(***************************************************************************)
EXTENDS Naturals

CONSTANT
  Conns         \* connections

VARIABLES
  phase,        \* where each connection is in its life
  open,         \* the connections whose socket is open
  closes        \* how often OnClose was called for each

vars == <<phase, open, closes>>

Init ==
  /\ phase = [c \in Conns |-> "none"]
  /\ open = {}
  /\ closes = [c \in Conns |-> 0]

Step(c, from, to) == phase[c] = from /\ phase' = [phase EXCEPT ![c] = to]

Connect(c) ==
  /\ Step(c, "none", "accepted")
  /\ open' = open \cup {c}
  /\ closes' = closes

Register(c) ==
  /\ Step(c, "accepted", "live")
  /\ UNCHANGED <<open, closes>>

\* A socket is closed while the connection is registered or being removed.
Hangup(c) ==
  /\ phase[c] \in {"live", "closing"}
  /\ open' = open \ {c}
  /\ UNCHANGED <<phase, closes>>

Remove(c) ==
  /\ Step(c, "live", "closing")
  /\ UNCHANGED <<open, closes>>

OnClose(c) ==
  /\ Step(c, "closing", "closed")
  /\ c \notin open
  /\ closes' = [closes EXCEPT ![c] = @ + 1]
  /\ open' = open

Next == \E c \in Conns : Connect(c) \/ Register(c) \/ Hangup(c) \/ Remove(c) \/ OnClose(c)

Spec == Init /\ [][Next]_vars

-----------------------------------------------------------------------------
\* The application is told the end of a session once at most, and from then on
\* its socket is closed.
EndToldOnce == \A c \in Conns : closes[c] = 0 \/ (closes[c] = 1 /\ c \notin open)

=============================================================================
