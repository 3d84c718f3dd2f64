----------------------------- MODULE MCReducer ------------------------------
(***************************************************************************)
(* Small instances of the reducer for TLC.                                 *)
(***************************************************************************)
EXTENDS Reducer
=============================================================================
