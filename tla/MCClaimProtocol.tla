--------------------------- MODULE MCClaimProtocol ---------------------------
(***************************************************************************)
(* ClaimProtocol on two processes, one of them with two threads.           *)
(***************************************************************************)
EXTENDS ClaimProtocol

CONSTANTS p1, p2, c3

Threads == [c \in Callers |-> IF c = c3 THEN p2 ELSE p1]

=============================================================================
