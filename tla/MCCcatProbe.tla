---------------------------- MODULE MCCcatProbe ----------------------------
(***************************************************************************)
(* Instances of CcatProbe for TLC.                                         *)
(***************************************************************************)
EXTENDS CcatProbe

CONSTANTS c1, c2

TwoCcats == {c1, c2}

\* two cells
FunctionTypes == {"ethernet", "update"}

\* the CCAT information block, an unused one, and two functions of a type
InfoBlocks == <<"other", "ethernet", "not_used", "update", "ethernet">>

\* every step may fail on each bus
MCFailures == [bus_type \in {"pci", "eim"} |->
  {"enable", "rev", "regions", "mask", "bar0", "bar2", "kzalloc", "mfd"}]
=============================================================================
