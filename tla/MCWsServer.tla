------------------------------ MODULE MCWsServer ------------------------------
(***************************************************************************)
(* WsServer for TLC: connections and goroutines are model values.          *)
(***************************************************************************)
EXTENDS WsServer

=============================================================================
