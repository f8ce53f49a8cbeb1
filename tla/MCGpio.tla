------------------------------- MODULE MCGpio ------------------------------
(***************************************************************************)
(* Instances of Gpio for TLC.                                              *)
(***************************************************************************)
EXTENDS Gpio

CONSTANTS c1, c2

MCCallers == {c1, c2}
=============================================================================
