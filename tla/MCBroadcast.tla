------------------------------ MODULE MCBroadcast ------------------------------
(***************************************************************************)
(* A small instance of Broadcast: two connections, two rooms, and the      *)
(* operators of namespace, namespace.to([r1, r2]) and                      *)
(* connection1.except([r2]).                                               *)
(***************************************************************************)
EXTENDS Broadcast

CONSTANTS r1, r2

MCOperators ==
  { NoOperator,
    [include |-> {r1, r2}, exclude |-> {}, except |-> {}],
    [include |-> {}, exclude |-> {r2}, except |-> {1}] }

=============================================================================
