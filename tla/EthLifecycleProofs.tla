------------------------- MODULE EthLifecycleProofs -------------------------
(***************************************************************************)
(* Proofs for EthLifecycle: the memory of the rings is neither leaked nor  *)
(* freed under the CCAT or the timer, other than in the ways the           *)
(* invariants name, whatever memory the kernel hands out and whatever      *)
(* fails.                                                                  *)
(***************************************************************************)
EXTENDS EthLifecycle, TLAPS

USE EthLifecycleAssumption DEF EthLifecycleAssumption

\* The initial states.
LEMMA InitIndInv == Init => IndInv
BY DEF Init, IndInv, TypeOK, ModuleState, MemoryState, ChannelState,
   ArmedByTxFailureOnly, ReleasedAfterReset

\* Loading the module.
LEMMA RegisterPreserves ==
  ASSUME IndInv, RegisterEim \/ RegisterDma
  PROVE  IndInv'
<1>1. TypeOK'
  <2>1. module' \in {"out", "init", "in", "exit"} /\ drivers' \subseteq {"eim", "dma"}
    BY DEF RegisterEim, RegisterDma, Module, IndInv, TypeOK
  <2>2. UNCHANGED <<dma, pc, netdev, timer, rx_mem, tx_mem, alive, ccat, history>>
    BY DEF RegisterEim, RegisterDma, Module
  <2> QED BY <2>1, <2>2 DEF IndInv, TypeOK, ccat, history
<1>2. ModuleState'
  <2>1. UNCHANGED <<dma, pc, netdev, timer>> /\ drivers \subseteq drivers'
    BY DEF RegisterEim, RegisterDma, Module
  <2>2. /\ module' = "out" => drivers' \subseteq {"eim"}
        /\ module' = "init" => drivers' = {"eim"}
        /\ module' = "in" => drivers' = {"eim", "dma"}
        /\ module' = "exit" => drivers' = {"dma"}
    BY DEF RegisterEim, RegisterDma, Module, IndInv, TypeOK, ModuleState
  <2> QED
    BY <2>1, <2>2 DEF IndInv, ModuleState, Driver
<1>3. MemoryState'
  BY DEF RegisterEim, RegisterDma, Module, ccat, history, IndInv, TypeOK,
     MemoryState
<1>4. ChannelState'
  BY DEF RegisterEim, RegisterDma, Module, ccat, history, IndInv, TypeOK,
     MemoryState, ChannelState
<1>5. ArmedByTxFailureOnly'
  BY DEF RegisterEim, RegisterDma, Module, ccat, history, IndInv, TypeOK,
     MemoryState, ChannelState, ArmedByTxFailureOnly, ReleasedAfterReset
<1> QED
  BY <1>1, <1>2, <1>3, <1>4, <1>5 DEF IndInv

\* Unloading the module waits until no function is bound.
LEMMA UnregisterPreserves ==
  ASSUME IndInv, UnregisterEim \/ UnregisterDma
  PROVE  IndInv'
<1>1. TypeOK'
  BY DEF UnregisterEim, UnregisterDma, Module, Detached, ccat, history, IndInv,
     TypeOK
<1>2. ModuleState'
  BY DEF UnregisterEim, UnregisterDma, Module, Detached, ccat, history, IndInv,
     TypeOK, ModuleState, Driver
<1>3. MemoryState'
  BY DEF UnregisterEim, UnregisterDma, Module, Detached, ccat, history, IndInv,
     TypeOK, MemoryState
<1>4. ChannelState'
  BY DEF UnregisterEim, UnregisterDma, Module, Detached, ccat, history, IndInv,
     TypeOK, MemoryState, ChannelState
<1>5. ArmedByTxFailureOnly'
  BY DEF UnregisterEim, UnregisterDma, Module, Detached, ccat, history, IndInv,
     TypeOK, MemoryState, ChannelState, ArmedByTxFailureOnly, ReleasedAfterReset
<1> QED
  BY <1>1, <1>2, <1>3, <1>4, <1>5 DEF IndInv

\* Opening and stopping the interface.
LEMMA UpDownPreserves ==
  ASSUME IndInv, Open \/ Stop
  PROVE  IndInv'
<1>1. TypeOK'
  BY DEF Open, Stop, TimerCancelled, kernel, ccat, history, IndInv, TypeOK
<1>2. ModuleState'
  <2>1. UNCHANGED <<dma, module, drivers, pc, netdev>>
    BY DEF Open, Stop, kernel
  <2>2. timer' => netdev' = "registered"
    BY DEF Open, Stop, TimerCancelled
  <2> QED
    BY <2>1, <2>2 DEF IndInv, ModuleState, Driver
<1>3. MemoryState'
  BY DEF Open, Stop, TimerCancelled, kernel, ccat, history, IndInv, TypeOK,
     MemoryState
<1>4. ChannelState'
  BY DEF Open, Stop, TimerCancelled, kernel, ccat, history, IndInv, TypeOK,
     MemoryState, ChannelState
<1>5. ArmedByTxFailureOnly'
  BY DEF Open, Stop, TimerCancelled, kernel, ccat, history, IndInv, TypeOK,
     MemoryState, ChannelState, ArmedByTxFailureOnly, ReleasedAfterReset
<1> QED
  BY <1>1, <1>2, <1>3, <1>4, <1>5 DEF IndInv

\* The probe starts.
LEMMA ProbePreserves ==
  ASSUME IndInv, Probe
  PROVE  IndInv'
<1>1. TypeOK'
  BY DEF Probe, kernel, ccat, history, IndInv, TypeOK
<1>2. ModuleState'
  BY DEF Probe, kernel, ccat, history, IndInv, TypeOK, ModuleState, Driver
<1>3. MemoryState'
  BY DEF Probe, kernel, ccat, history, IndInv, TypeOK, MemoryState
<1>4. ChannelState'
  BY DEF Probe, kernel, ccat, history, IndInv, TypeOK, MemoryState, ChannelState
<1>5. ArmedByTxFailureOnly'
  BY DEF Probe, kernel, ccat, history, IndInv, TypeOK, MemoryState,
     ChannelState, ArmedByTxFailureOnly, ReleasedAfterReset
<1> QED
  BY <1>1, <1>2, <1>3, <1>4, <1>5 DEF IndInv

\* The memory of the RX ring.
LEMMA RxAllocPreserves ==
  ASSUME IndInv, RxAlloc
  PROVE  IndInv'
<1>1. TypeOK'
  BY DEF RxAlloc, kernel, ccat, IndInv, TypeOK
<1>2. ModuleState'
  BY DEF RxAlloc, kernel, ccat, IndInv, TypeOK, ModuleState, Driver
<1>3. MemoryState'
  BY DEF RxAlloc, kernel, ccat, IndInv, TypeOK, MemoryState
<1>4. ChannelState'
  BY DEF RxAlloc, kernel, ccat, IndInv, TypeOK, MemoryState, ChannelState
<1>5. ArmedByTxFailureOnly'
  BY DEF RxAlloc, kernel, ccat, IndInv, TypeOK, MemoryState, ChannelState,
     ArmedByTxFailureOnly, ReleasedAfterReset
<1> QED
  BY <1>1, <1>2, <1>3, <1>4, <1>5 DEF IndInv

\* The RX FIFO is filled.
LEMMA RxPostPreserves ==
  ASSUME IndInv, RxPost
  PROVE  IndInv'
<1>1. TypeOK'
  BY DEF RxPost, kernel, history, IndInv, TypeOK
<1>2. ModuleState'
  BY DEF RxPost, kernel, history, IndInv, TypeOK, ModuleState, Driver
<1>3. MemoryState'
  BY DEF RxPost, kernel, history, IndInv, TypeOK, MemoryState
<1>4. ChannelState'
  BY DEF RxPost, kernel, history, IndInv, TypeOK, MemoryState, ChannelState
<1>5. ArmedByTxFailureOnly'
  BY DEF RxPost, kernel, history, IndInv, TypeOK, MemoryState, ChannelState,
     ArmedByTxFailureOnly, ReleasedAfterReset
<1> QED
  BY <1>1, <1>2, <1>3, <1>4, <1>5 DEF IndInv

\* The RX channel gets its address.
LEMMA RxAddrPreserves ==
  ASSUME IndInv, RxAddr
  PROVE  IndInv'
<1>1. TypeOK'
  BY DEF RxAddr, Address, kernel, IndInv, TypeOK
<1>2. ModuleState'
  BY DEF RxAddr, Address, kernel, IndInv, TypeOK, ModuleState, Driver
<1>3. MemoryState'
  BY DEF RxAddr, Address, kernel, IndInv, TypeOK, MemoryState
<1>4. ChannelState'
  BY DEF RxAddr, Address, kernel, IndInv, TypeOK, MemoryState, ChannelState
<1>5. ArmedByTxFailureOnly'
  BY DEF RxAddr, Address, kernel, IndInv, TypeOK, MemoryState, ChannelState,
     ArmedByTxFailureOnly, ReleasedAfterReset
<1> QED
  BY <1>1, <1>2, <1>3, <1>4, <1>5 DEF IndInv

\* The memory of the TX ring, or none: then that of the RX ring is freed.
LEMMA TxAllocPreserves ==
  ASSUME IndInv, TxAlloc
  PROVE  IndInv'
<1>1. TypeOK'
  BY DEF TxAlloc, kernel, history, IndInv, TypeOK
<1>2. ModuleState'
  BY DEF TxAlloc, kernel, history, IndInv, TypeOK, ModuleState, Driver
<1>3. MemoryState'
  BY DEF TxAlloc, kernel, history, IndInv, TypeOK, MemoryState
<1>4. ChannelState'
  BY DEF TxAlloc, kernel, history, IndInv, TypeOK, MemoryState, ChannelState
<1>5. ArmedByTxFailureOnly'
  BY DEF TxAlloc, kernel, history, IndInv, TypeOK, MemoryState, ChannelState,
     ArmedByTxFailureOnly, ReleasedAfterReset
<1> QED
  BY <1>1, <1>2, <1>3, <1>4, <1>5 DEF IndInv

\* The net_device is registered.
LEMMA InitNetdevPreserves ==
  ASSUME IndInv, InitNetdev
  PROVE  IndInv'
<1>1. TypeOK'
  BY DEF InitNetdev, kernel, ccat, IndInv, TypeOK
<1>2. ModuleState'
  BY DEF InitNetdev, kernel, ccat, IndInv, TypeOK, ModuleState, Driver
<1>3. MemoryState'
  BY DEF InitNetdev, kernel, ccat, IndInv, TypeOK, MemoryState
<1>4. ChannelState'
  BY DEF InitNetdev, kernel, ccat, IndInv, TypeOK, MemoryState, ChannelState
<1>5. ArmedByTxFailureOnly'
  BY DEF InitNetdev, kernel, ccat, IndInv, TypeOK, MemoryState, ChannelState,
     ArmedByTxFailureOnly, ReleasedAfterReset
<1> QED
  BY <1>1, <1>2, <1>3, <1>4, <1>5 DEF IndInv

\* The function is unbound.
LEMMA RemovePreserves ==
  ASSUME IndInv, Remove
  PROVE  IndInv'
<1>1. TypeOK'
  BY DEF Remove, TimerCancelled, kernel, ccat, history, IndInv, TypeOK
<1>2. ModuleState'
  BY DEF Remove, TimerCancelled, kernel, ccat, history, IndInv, TypeOK,
     ModuleState, Driver
<1>3. MemoryState'
  BY DEF Remove, TimerCancelled, kernel, ccat, history, IndInv, TypeOK,
     MemoryState
<1>4. ChannelState'
  BY DEF Remove, TimerCancelled, kernel, ccat, history, IndInv, TypeOK,
     MemoryState, ChannelState
<1>5. ArmedByTxFailureOnly'
  BY DEF Remove, TimerCancelled, kernel, ccat, history, IndInv, TypeOK,
     MemoryState, ChannelState, ArmedByTxFailureOnly, ReleasedAfterReset
<1> QED
  BY <1>1, <1>2, <1>3, <1>4, <1>5 DEF IndInv

\* The FIFOs are emptied.
LEMMA HwResetPreserves ==
  ASSUME IndInv, HwReset
  PROVE  IndInv'
<1>1. TypeOK'
  BY DEF HwReset, RxReset, kernel, history, IndInv, TypeOK
<1>2. ModuleState'
  BY DEF HwReset, RxReset, kernel, history, IndInv, TypeOK, ModuleState, Driver
<1>3. MemoryState'
  BY DEF HwReset, RxReset, kernel, history, IndInv, TypeOK, MemoryState
<1>4. ChannelState'
  BY DEF HwReset, RxReset, kernel, history, IndInv, TypeOK, MemoryState,
     ChannelState
<1>5. ArmedByTxFailureOnly'
  BY DEF HwReset, RxReset, kernel, history, IndInv, TypeOK, MemoryState,
     ChannelState, ArmedByTxFailureOnly, ReleasedAfterReset
<1> QED
  BY <1>1, <1>2, <1>3, <1>4, <1>5 DEF IndInv

\* The memory is freed.
LEMMA FreePreserves ==
  ASSUME IndInv, Free
  PROVE  IndInv'
<1>1. TypeOK'
  BY DEF Free, Freed, kernel, ccat, history, IndInv, TypeOK
<1>2. ModuleState'
  BY DEF Free, Freed, kernel, ccat, history, IndInv, TypeOK, ModuleState, Driver
<1>3. MemoryState'
  BY DEF Free, Freed, kernel, ccat, history, IndInv, TypeOK, MemoryState
<1>4. ChannelState'
  BY DEF Free, Freed, kernel, ccat, history, IndInv, TypeOK, MemoryState,
     ChannelState
<1>5. ArmedByTxFailureOnly'
  BY DEF Free, Freed, kernel, ccat, history, IndInv, TypeOK, MemoryState,
     ChannelState, ArmedByTxFailureOnly, ReleasedAfterReset
<1> QED
  BY <1>1, <1>2, <1>3, <1>4, <1>5 DEF IndInv

(***************************************************************************)
(* Theorems                                                                *)
(***************************************************************************)

\* Every step preserves the invariant.
LEMMA NextIndInv == IndInv /\ [Next]_vars => IndInv'
<1> SUFFICES ASSUME IndInv, [Next]_vars
             PROVE  IndInv'
  OBVIOUS
<1>1. CASE UNCHANGED vars
  BY <1>1 DEF vars, IndInv, TypeOK, ModuleState, Driver, MemoryState,
     ChannelState,
     ArmedByTxFailureOnly, ReleasedAfterReset
<1> QED
  BY <1>1, RegisterPreserves, UnregisterPreserves, UpDownPreserves,
     ProbePreserves, RxAllocPreserves, RxPostPreserves, RxAddrPreserves,
     TxAllocPreserves, InitNetdevPreserves, RemovePreserves, HwResetPreserves,
     FreePreserves DEF Next

\* The inductive invariant holds in every reachable state.
THEOREM LifecycleInvariant == Spec => []IndInv
BY InitIndInv, NextIndInv, PTL DEF Spec

\* While the device is registered the CCAT and the driver use the same memory.
THEOREM RegisteredChannelsMatch == Spec => []ChannelsMatch
<1>1. IndInv => ChannelsMatch
  BY DEF IndInv, ModuleState, MemoryState, ChannelState, ChannelsMatch
<1> QED
  BY <1>1, LifecycleInvariant, PTL

\* Memory is freed under the RX channel only by a probe that has no memory for
\* the TX ring.
THEOREM FreedAfterReset == Spec => []ArmedByTxFailureOnly
<1>1. IndInv => ArmedByTxFailureOnly
  BY DEF IndInv
<1> QED
  BY <1>1, LifecycleInvariant, PTL

\* An unbound function has no memory but what the two failures forget.
THEOREM NothingElseLeaks == Spec => []NoLeak
<1>1. IndInv => NoLeak
  BY DEF IndInv, MemoryState, NoLeak
<1> QED
  BY <1>1, LifecycleInvariant, PTL

\* The timer never runs without the rings it polls.
THEOREM TimerHasRings == Spec => []PollHasRings
<1>1. IndInv => PollHasRings
  BY DEF IndInv, ModuleState, MemoryState, PollHasRings
<1> QED
  BY <1>1, LifecycleInvariant, PTL

\* Code of a module that is not loaded is reached through a driver left behind
\* by a failed load only.
THEOREM UnloadedCodeIsUnused == Spec => []UnloadedIsUnused
<1>1. IndInv => UnloadedIsUnused
  BY DEF IndInv, ModuleState, UnloadedIsUnused
<1> QED
  BY <1>1, LifecycleInvariant, PTL
=============================================================================
