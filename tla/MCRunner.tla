------------------------------ MODULE MCRunner ------------------------------
(***************************************************************************)
(* Small instances of the runner for TLC.                                  *)
(***************************************************************************)
EXTENDS Runner
=============================================================================
