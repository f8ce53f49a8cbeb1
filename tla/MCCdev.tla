------------------------------- MODULE MCCdev -------------------------------
(***************************************************************************)
(* Instances of Cdev for TLC.                                              *)
(***************************************************************************)
EXTENDS Cdev

CONSTANTS f1, f2, f3, p1, p2, p3

MCFuncs == {f1, f2, f3}
MCOpeners == {p1, p2, p3}
=============================================================================
