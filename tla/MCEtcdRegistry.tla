--------------------------- MODULE MCEtcdRegistry ---------------------------
(***************************************************************************)
(* EtcdRegistry for TLC: nodes are model values.                           *)
(***************************************************************************)
EXTENDS EtcdRegistry

=============================================================================
