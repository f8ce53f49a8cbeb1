------------------------------ MODULE MCEthRx ------------------------------
(***************************************************************************)
(* Instances of EthRx for TLC.                                             *)
(***************************************************************************)
EXTENDS EthRx, TLC

CONSTANTS a, b, runt, none

MCFrames == {a, b, runt}

MCRunts == {runt}
=============================================================================
