---------------------------- MODULE MCWsConnector ----------------------------
(***************************************************************************)
(* WsConnector for TLC: goroutines and connections are model values.       *)
(***************************************************************************)
EXTENDS WsConnector, FiniteSets

\* MaxAttempts without a limit (the default) or of one dial; without.
LimitedOrNot == {-1, 1}
Unlimited == {-1}

ASSUME ConnectedOnce == Cardinality(Dialers) = 1

=============================================================================
