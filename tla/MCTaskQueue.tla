----------------------------- MODULE MCTaskQueue -----------------------------
(***************************************************************************)
(* TaskQueue on a small instance.                                          *)
(***************************************************************************)
EXTENDS TaskQueue, TLC

Interchangeable == Permutations(Tasks) \cup Permutations(Agents)

=============================================================================
