----------------------------- MODULE MCBlockLog -----------------------------
(* BlockLog with three blocks in a part and one part kept besides the head. *)
EXTENDS BlockLog
==============================================================================
