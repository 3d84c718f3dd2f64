----------------------------- MODULE MCSequence -----------------------------
(***************************************************************************)
(* Small instances of the sequences for TLC.                               *)
(***************************************************************************)
EXTENDS Sequence
=============================================================================
