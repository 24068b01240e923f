---------------------------- MODULE MCContainers ----------------------------
(***************************************************************************)
(* Containers with two agents, started in this order.                      *)
(***************************************************************************)
EXTENDS Containers

CONSTANTS a1, a2

Order == <<a1, a2>>

=============================================================================
