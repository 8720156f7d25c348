------------------------------- MODULE MCQueue -------------------------------
(***************************************************************************)
(* Small instances of Queue.                                               *)
(***************************************************************************)
EXTENDS Queue
=============================================================================
