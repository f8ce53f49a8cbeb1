------------------------------ MODULE MCEthTx ------------------------------
(***************************************************************************)
(* Instances of EthTx for TLC.                                             *)
(***************************************************************************)
EXTENDS EthTx, TLC

CONSTANTS a, b, big, fwd, none

\* two frames that fit and one that start_xmit drops
MCPayload == {a, b, big}
MCUnsupported == {big}
=============================================================================
