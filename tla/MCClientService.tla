--------------------------- MODULE MCClientService ---------------------------
(***************************************************************************)
(* ClientService for TLC: requesters, pushes, buffers and ids are model    *)
(* values, the ids interchangeable.  One requester asks twice, the others  *)
(* once.                                                                   *)
(***************************************************************************)
EXTENDS ClientService, TLC

MCMaxCalls == [r \in Requesters |-> IF r = CHOOSE q \in Requesters : TRUE THEN 2 ELSE 1]

Symmetry == Permutations(Ids)

=============================================================================
