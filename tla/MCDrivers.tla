------------------------------ MODULE MCDrivers ------------------------------
(***************************************************************************)
(* A small instance of the batch drivers for TLC.                          *)
(***************************************************************************)
EXTENDS Drivers
=============================================================================
