---------------------------- MODULE MCCyclicTask ---------------------------
(***************************************************************************)
(* Instances of CyclicTask for TLC.                                        *)
(***************************************************************************)
EXTENDS CyclicTask
=============================================================================
