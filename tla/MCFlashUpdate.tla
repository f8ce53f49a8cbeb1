--------------------------- MODULE MCFlashUpdate ---------------------------
(***************************************************************************)
(* Instances of FlashUpdate for TLC.                                       *)
(***************************************************************************)
EXTENDS FlashUpdate

CONSTANTS a, b, zero, ff, unknown

MCBytes == {a, b}
=============================================================================
