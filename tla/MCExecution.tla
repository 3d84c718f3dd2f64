----------------------------- MODULE MCExecution -----------------------------
(***************************************************************************)
(* Small instances of generated test cases and their runs for TLC.         *)
(***************************************************************************)
EXTENDS Execution

\* No step reads the last entry of the trace: states that differ in nothing else
\* have the same future.
WithoutEntry == <<vars, disk_, foreign_, open_, fd_, aborted_>>
=============================================================================
