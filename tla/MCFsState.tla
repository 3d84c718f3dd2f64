------------------------------ MODULE MCFsState ------------------------------
(***************************************************************************)
(* Small instances of the generator for TLC, and mutants of its tree.      *)
(***************************************************************************)
EXTENDS FsStateRefinement
=============================================================================
