----------------------------- MODULE MCDelivery -----------------------------
(***************************************************************************)
(* Delivery on two tasks and one agent with two workers.                   *)
(***************************************************************************)
EXTENDS Delivery

CONSTANTS a1

SingleHost == [w \in Workers |-> a1]

=============================================================================
