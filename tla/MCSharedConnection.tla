------------------------- MODULE MCSharedConnection -------------------------
(***************************************************************************)
(* SharedConnection on two poll threads and the event loop.                *)
(***************************************************************************)
EXTENDS SharedConnection

=============================================================================
