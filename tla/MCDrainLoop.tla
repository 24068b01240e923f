----------------------------- MODULE MCDrainLoop -----------------------------
(***************************************************************************)
(* DrainLoop on two tasks and two decisions: one that labels, comments and *)
(* closes, and one that comments and then names an action nobody knows.    *)
(***************************************************************************)
EXTENDS DrainLoop

CONSTANTS t1, t2, i1, respond, poison

SameIssue == [t \in Tasks |-> i1]

Lists == [d \in Decisions |->
            IF d = respond THEN <<"add_label", "comment", "close_issue">>
                           ELSE <<"comment", "other">>]

CloseAllowed == [t \in Tasks |-> TRUE]

=============================================================================
