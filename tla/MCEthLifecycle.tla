--------------------------- MODULE MCEthLifecycle --------------------------
(***************************************************************************)
(* Instances of EthLifecycle for TLC.                                      *)
(***************************************************************************)
EXTENDS EthLifecycle

CONSTANTS r1, r2, r3, r4, r5

MCRegions == {r1, r2, r3, r4, r5}

AllFailures ==
  {"dma_driver", "netdev", "rx_alloc", "tx_alloc", "phys", "mac", "register"}

TxFailure == {"tx_alloc"}
=============================================================================
