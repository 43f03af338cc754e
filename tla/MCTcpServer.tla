----------------------------- MODULE MCTcpServer -----------------------------
(***************************************************************************)
(* TcpServer for TLC: connections and goroutines are model values.         *)
(***************************************************************************)
EXTENDS TcpServer

=============================================================================
