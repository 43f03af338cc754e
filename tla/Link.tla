-------------------------------- MODULE Link --------------------------------
(***************************************************************************)
(* What a connector that is connected once promises of its connection, TCP *)
(* or WebSocket alike: it dials only while it has no socket and has not    *)
(* been closed, uses a socket only from the dial that opened it to the     *)
(* failure or the Close that ends it, and closes it before the next dial.  *)
(* A dial that Close overtakes may still bring a socket.                   *)
(***************************************************************************)
CONSTANTS
  Conns,        \* the sockets a dial can return
  None          \* no socket

VARIABLES
  phase,        \* what the connector has
  conn,         \* its socket
  stopped       \* Close has been called

vars == <<phase, conn, stopped>>

Init ==
  /\ phase = "down"
  /\ conn = None
  /\ stopped = FALSE

Dial ==
  /\ phase = "down" /\ ~stopped
  /\ phase' = "dialing"
  /\ UNCHANGED <<conn, stopped>>

DialFails ==
  /\ phase = "dialing"
  /\ phase' = "down"
  /\ UNCHANGED <<conn, stopped>>

Dialed ==
  /\ phase = "dialing"
  /\ phase' = "dialed"
  /\ conn' \in Conns
  /\ stopped' = stopped

\* From here on the callers of SendMessage find the socket.
Install ==
  /\ phase = "dialed"
  /\ phase' = "up"
  /\ UNCHANGED <<conn, stopped>>

\* The socket is closed, and found by callers for a moment longer.
Kill ==
  /\ phase = "up"
  /\ phase' = "dead"
  /\ UNCHANGED <<conn, stopped>>

Drop ==
  /\ phase \in {"up", "dead"}
  /\ phase' = "down"
  /\ conn' = None
  /\ stopped' = stopped

Close ==
  /\ ~stopped
  /\ stopped' = TRUE
  /\ UNCHANGED <<phase, conn>>

Next == Dial \/ DialFails \/ Dialed \/ Install \/ Kill \/ Drop \/ Close

Spec == Init /\ [][Next]_vars

-----------------------------------------------------------------------------
\* A connector that was closed and has no socket, nor a dial under way, never
\* gets one again: Close is not undone by a reconnection.
ClosedForGood == [][~(stopped /\ phase = "down")]_vars

=============================================================================
