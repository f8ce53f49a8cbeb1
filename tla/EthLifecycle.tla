---------------------------- MODULE EthLifecycle ---------------------------
(***************************************************************************)
(* The life of the Ethernet function (netdev.c): loading and unloading the *)
(* two drivers of the module, binding and unbinding a function with        *)
(* ccat_eth_dma_probe() or ccat_eth_eim_probe(), opening and stopping its  *)
(* interface, and what they set up.                                        *)
(*                                                                         *)
(* With DMA the CCAT writes received frames to the memory its RX channel   *)
(* points to, as long as there are descriptors in its RX FIFO, whatever    *)
(* the driver is doing.  The memory of the two rings is allocated and      *)
(* freed by the driver; a freed region may be allocated again, by anybody. *)
(* Without DMA (EIM) the rings are in the memory of the CCAT.              *)
(***************************************************************************)
EXTENDS Naturals, FiniteSets

CONSTANTS
  Regions,   \* memory dma_alloc_coherent() may return
  Failures,  \* steps that may fail
  None

ASSUME EthLifecycleAssumption ==
  /\ None \notin Regions
  /\ Failures \subseteq {"dma_driver", "netdev", "rx_alloc", "tx_alloc", "phys",
                         "mac", "register"}

VARIABLES
  dma,     \* is this a function with DMA?
  module,  \* "out", "init", "in" or "exit"
  drivers, \* the platform drivers that are registered
  pc,      \* where probe or remove is
  netdev,  \* "none", "allocated" or "registered"
  timer,   \* is poll_timer started?
  rx_mem,  \* rx_fifo.dma_mem.base
  tx_mem,  \* tx_fifo.dma_mem.base
  alive,   \* regions that are allocated to this function
  rx_chan, \* address in the register of the RX channel
  tx_chan, \* address in the register of the TX channel
  posted,  \* whether there are descriptors in the RX FIFO of the CCAT
  lost,    \* history: regions a failed probe forgot
  armed    \* history: has a failed probe left the RX channel in operation?

kernel  == <<dma, module, drivers>>
ccat    == <<rx_chan, tx_chan, posted>>
history == <<lost, armed>>
vars    == <<dma, module, drivers, pc, netdev, timer, rx_mem, tx_mem, alive,
             rx_chan, tx_chan, posted, lost, armed>>

(***************************************************************************)
(* ccat_eth_init(), ccat_eth_exit()                                        *)
(***************************************************************************)

\* the driver of the function
Driver == IF dma THEN "dma" ELSE "eim"

\* platform_driver_unregister() returns when no function is bound to d
Detached(d) == d = Driver => pc = "unbound"

Module(from, to, regs) ==
  /\ module = from
  /\ module' = to
  /\ drivers' = regs
  /\ UNCHANGED <<dma, pc, netdev, timer, rx_mem, tx_mem, alive, ccat, history>>

\* A driver of this name must not be there: if it is, the module is thrown out.
RegisterEim ==
  \/ "eim" \notin drivers /\ Module("out", "init", drivers \cup {"eim"})
  \/ "eim" \in drivers /\ Module("out", "out", drivers)

\* if this fails the module is thrown out and the other driver stays
RegisterDma ==
  \/ Module("init", "in", drivers \cup {"dma"})
  \/ "dma_driver" \in Failures /\ Module("init", "out", drivers)

UnregisterEim == Detached("eim") /\ Module("in", "exit", drivers \ {"eim"})

\* a ccat_eth_exit() that unregisters the first driver only
UnregisterDma_Not == Detached("dma") /\ Module("exit", "out", drivers)

UnregisterDma == Detached("dma") /\ Module("exit", "out", drivers \ {"dma"})

(***************************************************************************)
(* ccat_eth_open(), ccat_eth_stop()                                        *)
(***************************************************************************)

Open ==
  /\ netdev = "registered" /\ ~timer
  /\ timer' = TRUE
  /\ UNCHANGED <<kernel, pc, netdev, rx_mem, tx_mem, alive, ccat, history>>

\* a ccat_eth_stop() that leaves the timer alone
TimerCancelled_Not == timer' = timer

\* ccat_eth_stop(): hrtimer_cancel()
TimerCancelled == timer' = FALSE

Stop ==
  /\ timer
  /\ TimerCancelled
  /\ UNCHANGED <<kernel, pc, netdev, rx_mem, tx_mem, alive, ccat, history>>

(***************************************************************************)
(* ccat_eth_dma_probe(), ccat_eth_eim_probe()                              *)
(***************************************************************************)

\* ccat_eth_alloc_netdev(); ccat_eth_priv_init_eim() only writes to the CCAT
Probe ==
  /\ pc = "unbound" /\ Driver \in drivers
  /\ \/ /\ netdev' = "allocated"
        /\ pc' = IF dma THEN "rx_alloc" ELSE "netdev"
     \/ /\ "netdev" \in Failures
        /\ UNCHANGED <<netdev, pc>>
  /\ UNCHANGED <<kernel, timer, rx_mem, tx_mem, alive, ccat, history>>

\* ccat_dma_init(): dma_alloc_coherent() for the RX FIFO; memory at the bus
\* address 0 is refused and not given back
RxAlloc ==
  /\ pc = "rx_alloc"
  /\ \/ \E r \in Regions \ alive :
          /\ alive' = alive \cup {r}
          /\ \/ /\ rx_mem' = r
                /\ pc' = "rx_post"
                /\ UNCHANGED <<netdev, lost>>
             \/ /\ "phys" \in Failures
                /\ netdev' = "none"
                /\ pc' = "unbound"
                /\ lost' = lost \cup {r}
                /\ UNCHANGED rx_mem
     \/ /\ "rx_alloc" \in Failures \/ Regions \subseteq alive
        /\ netdev' = "none"
        /\ pc' = "unbound"
        /\ UNCHANGED <<rx_mem, alive, lost>>
  /\ UNCHANGED <<kernel, timer, tx_mem, ccat, armed>>

\* ccat_dma_init(): fifo_set_end() resets the FIFO and fills it
RxPost ==
  /\ pc = "rx_post"
  /\ posted' = TRUE
  /\ pc' = "rx_addr"
  /\ UNCHANGED <<kernel, netdev, timer, rx_mem, tx_mem, alive, rx_chan, tx_chan,
                 history>>

\* a ccat_dma_init() that forgets the address
Address_Forgotten == rx_chan

\* the address of the channel
Address == rx_mem

\* ccat_dma_init(): only now the channel gets its address
RxAddr ==
  /\ pc = "rx_addr"
  /\ rx_chan' = Address
  /\ armed' = FALSE
  /\ pc' = "tx_alloc"
  /\ UNCHANGED <<kernel, netdev, timer, rx_mem, tx_mem, alive, tx_chan, posted,
                 lost>>

\* ccat_dma_init() for the TX FIFO, whose descriptors stay with the driver.
\* If it fails ccat_eth_priv_init_dma() frees the RX memory.
TxAlloc ==
  /\ pc = "tx_alloc"
  /\ \/ \E r \in Regions \ alive :
          \/ /\ alive' = alive \cup {r}
             /\ tx_mem' = r
             /\ tx_chan' = r
             /\ pc' = "netdev"
             /\ UNCHANGED <<netdev, rx_mem, history>>
          \/ /\ "phys" \in Failures
             /\ alive' = (alive \cup {r}) \ {rx_mem}
             /\ rx_mem' = None
             /\ netdev' = "none"
             /\ pc' = "unbound"
             /\ lost' = lost \cup {r}
             /\ armed' = TRUE
             /\ UNCHANGED <<tx_mem, tx_chan>>
     \/ /\ "tx_alloc" \in Failures \/ Regions \subseteq alive
        /\ alive' = alive \ {rx_mem}
        /\ rx_mem' = None
        /\ netdev' = "none"
        /\ pc' = "unbound"
        /\ armed' = TRUE
        /\ UNCHANGED <<tx_mem, tx_chan, lost>>
  /\ UNCHANGED <<kernel, timer, rx_chan, posted>>

\* ccat_eth_init_netdev(): without a valid MAC address the probe fails and
\* everything it has set up is left behind
InitNetdev ==
  /\ pc = "netdev"
  /\ \/ /\ netdev' = "registered"
        /\ pc' = "bound"
        /\ UNCHANGED <<rx_mem, tx_mem, lost>>
     \/ /\ "register" \in Failures
        /\ pc' = "reset"
        /\ UNCHANGED <<netdev, rx_mem, tx_mem, lost>>
     \/ /\ "mac" \in Failures
        /\ pc' = "unbound"
        /\ netdev' = "none"
        /\ rx_mem' = None
        /\ tx_mem' = None
        /\ lost' = lost \cup ({rx_mem, tx_mem} \ {None})
  /\ UNCHANGED <<kernel, timer, alive, ccat, armed>>

(***************************************************************************)
(* ccat_eth_dma_remove(), ccat_eth_eim_remove(), ccat_eth_priv_free()      *)
(***************************************************************************)

\* unregister_netdev() stops the interface if it is up
Remove ==
  /\ pc = "bound"
  /\ IF timer THEN TimerCancelled ELSE UNCHANGED timer
  /\ netdev' = "allocated"
  /\ pc' = "reset"
  /\ UNCHANGED <<kernel, rx_mem, tx_mem, alive, ccat, history>>

\* a ccat_eth_priv_free() that only resets the TX FIFO
RxReset_Not == posted' = posted

\* ccat_eth_fifo_hw_reset() for the RX FIFO
RxReset == posted' = FALSE

\* ccat_eth_priv_free(): "reset hw fifo's"
HwReset ==
  /\ pc = "reset"
  /\ RxReset
  /\ pc' = "free"
  /\ UNCHANGED <<kernel, netdev, timer, rx_mem, tx_mem, alive, rx_chan, tx_chan,
                 history>>

\* a ccat_eth_priv_free() that frees the memory of one ring
Freed_RxOnly == {rx_mem}

\* ccat_dma_free() for both FIFOs
Freed == {rx_mem, tx_mem}

\* ccat_eth_priv_free(): "release dma", then free_netdev()
Free ==
  /\ pc = "free"
  /\ alive' = alive \ Freed
  /\ rx_mem' = None
  /\ tx_mem' = None
  /\ netdev' = "none"
  /\ pc' = "unbound"
  /\ UNCHANGED <<kernel, timer, ccat, history>>

(***************************************************************************)
(* The specification                                                       *)
(***************************************************************************)

Init ==
  /\ dma \in BOOLEAN
  /\ module = "out"
  /\ drivers = {}
  /\ pc = "unbound"
  /\ netdev = "none"
  /\ timer = FALSE
  /\ rx_mem = None
  /\ tx_mem = None
  /\ alive = {}
  /\ rx_chan = None
  /\ tx_chan = None
  /\ posted = FALSE
  /\ lost = {}
  /\ armed = FALSE

Next ==
  \/ RegisterEim \/ RegisterDma \/ UnregisterEim \/ UnregisterDma
  \/ Open \/ Stop
  \/ Probe \/ RxAlloc \/ RxPost \/ RxAddr \/ TxAlloc \/ InitNetdev
  \/ Remove \/ HwReset \/ Free

Spec == Init /\ [][Next]_vars

(***************************************************************************)
(* Properties                                                              *)
(***************************************************************************)

TypeOK ==
  /\ dma \in BOOLEAN
  /\ module \in {"out", "init", "in", "exit"}
  /\ drivers \subseteq {"eim", "dma"}
  /\ pc \in {"unbound", "rx_alloc", "rx_post", "rx_addr", "tx_alloc",
             "netdev", "bound", "reset", "free"}
  /\ netdev \in {"none", "allocated", "registered"}
  /\ timer \in BOOLEAN
  /\ rx_mem \in Regions \cup {None}
  /\ tx_mem \in Regions \cup {None}
  /\ alive \subseteq Regions
  /\ rx_chan \in Regions \cup {None}
  /\ tx_chan \in Regions \cup {None}
  /\ posted \in BOOLEAN
  /\ lost \subseteq Regions
  /\ armed \in BOOLEAN

\* While the device is registered both channels point to the memory of their
\* rings, which is allocated and not shared, so that what the CCAT writes and
\* what the driver reads is the same memory.
ChannelsMatch ==
  netdev = "registered" /\ dma =>
    /\ posted
    /\ rx_chan = rx_mem /\ rx_mem \in alive
    /\ tx_chan = tx_mem /\ tx_mem \in alive
    /\ rx_mem # tx_mem

\* "reset hw fifo's", then "release dma" (ccat_eth_priv_free()): memory the
\* RX channel points to is freed only when the FIFO is empty.  From
\* ccat_dma_init() on, where the channel of an earlier binding may still be
\* set when the FIFO is filled, this is so as soon as the address is written.
ReleasedAfterReset == posted /\ pc # "rx_addr" => rx_chan \in alive

\* The error path of ccat_eth_priv_init_dma() is the only one that breaks this
\* order, and the next binding that gets as far as the address repairs it:
\* neither ccat_eth_priv_free() nor any other failure leaves the CCAT writing to
\* memory that was freed.
ArmedByTxFailureOnly == ~armed => ReleasedAfterReset

\* An unbound function has only the memory that a refused bus address or an
\* invalid MAC address made it forget: every other failure of a probe, and
\* remove, frees what was allocated.
NoLeak == pc = "unbound" => alive = lost /\ rx_mem = None /\ tx_mem = None

\* poll_timer_callback() reads and writes the rings and the net_device: while
\* the timer is started they exist, however the interface was taken down.
PollHasRings ==
  timer => netdev = "registered" /\ (dma => {rx_mem, tx_mem} \subseteq alive)

\* No code of a module that is not loaded can be called, by a driver, a probe
\* or remove in progress, or the timer.  The one exception is the EIM driver
\* that a ccat_eth_init() leaves behind whose second registration fails.
UnloadedIsUnused ==
  module = "out" =>
    /\ "dma" \notin drivers
    /\ drivers = {} => pc = "unbound" /\ ~timer

\* What the module has registered, and who may be running in it.
ModuleState ==
  /\ module = "out" => drivers \subseteq {"eim"}
  /\ module = "init" => drivers = {"eim"}
  /\ module = "in" => drivers = {"eim", "dma"}
  /\ module = "exit" => drivers = {"dma"}
  /\ pc # "unbound" => Driver \in drivers
  /\ netdev = "registered" <=> pc = "bound"
  /\ timer => netdev = "registered"

\* The memory of the rings, from the step of the probe that allocates it to
\* the step that frees it.
MemoryState ==
  /\ pc \in {"rx_alloc", "rx_post", "rx_addr", "tx_alloc"} => dma
  /\ rx_mem # None <=> dma /\ pc \notin {"unbound", "rx_alloc"}
  /\ tx_mem # None <=> dma /\ pc \in {"netdev", "bound", "reset", "free"}
  /\ rx_mem # None => rx_mem # tx_mem
  /\ alive = lost \cup ({rx_mem, tx_mem} \ {None})
  /\ lost \cap {rx_mem, tx_mem} = {}

\* The registers of the CCAT.
ChannelState ==
  /\ dma /\ pc \in {"rx_addr", "tx_alloc", "netdev", "bound", "reset"} => posted
  /\ dma /\ pc \in {"tx_alloc", "netdev", "bound", "reset"} => rx_chan = rx_mem
  /\ dma /\ pc \in {"netdev", "bound", "reset"} => tx_chan = tx_mem
  /\ pc = "free" => ~posted

\* The inductive invariant.
IndInv ==
  /\ TypeOK
  /\ ModuleState
  /\ MemoryState
  /\ ChannelState
  /\ ArmedByTxFailureOnly
=============================================================================
