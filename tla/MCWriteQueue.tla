----------------------------- MODULE MCWriteQueue -----------------------------
(***************************************************************************)
(* WriteQueue with a few clients of each kind.                             *)
(***************************************************************************)
EXTENDS WriteQueue
==============================================================================
