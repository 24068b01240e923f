------------------------------ MODULE MCIntake ------------------------------
(***************************************************************************)
(* Intake on two repositories that share one place in the semaphore.       *)
(***************************************************************************)
EXTENDS Intake

CONSTANTS r1, r2, i1, i2, i3

(***************************************************************************)
(* i1 and i3 are issues of r1, i2 is an issue of r2.                       *)
(***************************************************************************)
Home == [i \in Issues |-> IF i = i2 THEN r2 ELSE r1]

NumberOf == [i \in Issues |-> CASE i = i1 -> 1 [] i = i2 -> 2 [] i = i3 -> 3]

=============================================================================
