--------------------------- MODULE MCUpdateScript --------------------------
(***************************************************************************)
(* Instances of UpdateScript for TLC.                                      *)
(***************************************************************************)
EXTENDS UpdateScript

CONSTANTS a, ff, short, long

MCValues == {a, ff}

MCRbfs == {short, long}

\* an image that fits and one that does not
MCImage == [r \in MCRbfs |-> IF r = short THEN <<a>> ELSE <<a, a, a>>]
=============================================================================
