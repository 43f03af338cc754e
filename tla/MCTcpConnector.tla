--------------------------- MODULE MCTcpConnector ---------------------------
(***************************************************************************)
(* TcpConnector for TLC: goroutines and sockets are model values.  Several *)
(* properties are about a connector that is connected once.                *)
(***************************************************************************)
EXTENDS TcpConnector, FiniteSets

ASSUME ConnectedOnce == ~Redial /\ Cardinality(Dialers) = 1

=============================================================================
