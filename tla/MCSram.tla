------------------------------- MODULE MCSram ------------------------------
(***************************************************************************)
(* Instances of Sram for TLC.                                              *)
(***************************************************************************)
EXTENDS Sram

CONSTANTS t1, a, b, zero

MCThreads == {t1}

MCBytes == {a, b}
=============================================================================
