# Verification of the CCAT driver

TLA+ models of the Linux driver for the Beckhoff CCAT FPGA, model-checked with
TLC, with proofs checked by TLAPS.  Source paths are relative to `src/`.

## 1. The system

A CCAT is an FPGA on PCI, or on the external interface (EIM) of an i.MX CPU.  Its
configuration holds several *functions*, described by information blocks at the
start of BAR 0.

| part | source | state | operations | concurrent parties |
|---|---|---|---|---|
| CCAT probe | `module.c` 208-405 | device enabled, regions, BARs, child devices, static `ccat_cells` | PCI and EIM probe and remove, `ccat_functions_init()` | probes of several CCATs |
| Character devices | `module.c` 48-204, `module.h` | class, `instances`, device table, `in_use` | `ccat_cdev_probe/remove/open/release` | processes that open, functions that bind |
| Ethernet TX | `netdev.c` | TX ring, CCAT TX FIFO, queue and carrier state | `start_xmit`, `poll_tx`, `link_up/down`, open, stop | stack, poll timer, CCAT |
| Ethernet RX | `netdev.c` | RX ring, CCAT RX FIFO | `poll_rx`, `ccat_eth_receive`, ring reset | poll timer, CCAT |
| Ethernet life cycle | `netdev.c` 233-281, 445-536, 768-926 | registered drivers, `net_device`, timer, DMA memory, channel addresses | module init and exit, probe, remove, open, stop | CCAT (writes to memory), module loader, users |
| FPGA update | `update.c` | buffer of the file, flash contents, flash busy and write enable | read, write, release | flash, loss of power |
| SRAM | `sram.c` | buffer of the file, position, SRAM | read, write, llseek | threads that share the file |
| GPIO | `gpio.c` | output and direction registers, mutex | set, direction, get | callers on several CPUs |
| System time | `systemtime.c` | none | read a register | - |
| Update script | `scripts/update_ccat.sh` | flash, backup and temporary file | backup, write, verify, restore | flash, user, loss of power |
| EtherCAT test | `unittest/main.c` | alarm counters, outputs, error counter, frame on the bus | signal handler, main loop, `cyclic_task()` | interval timer, bus |

Hard behaviours: the poll timer works on the TX ring and the netif queue without
the transmit lock; the CCAT consumes and produces frames at any time; the link
may fall and rise between any two steps; `open()` is exclusive with a counter and
no lock; every probe has error paths that no test reaches; closing the update
device erases and programs the flash, and power may fail meanwhile; the update
script goes on from there, any of its commands may fail, and it may be run again.

## 2. Modules

Every action stands for the code between two points where another party can
interfere.  Labels (`pc`) name these points.  Definitions keep the names of the
source; `PROJECT.json` maps each one to its lines.  An operator `X_Something`
next to an operator `X` is a deliberately wrong variant: with it in place of `X`
TLC finds the property violated that guards against that mistake.

| module | models |
|---|---|
| `TxChannel` | what transmission promises: an in-order channel of bounded capacity, flushed on link up |
| `EthTx` | the TX ring, `ccat_eth_start_xmit()` (check, fill, kick, the three memory steps of `fifo_inc`, full, stop), the timer callback (`poll_link`, `ccat_eth_link_up/down`, `poll_tx`), open and stop, the stack that follows the carrier, and the CCAT |
| `RxChannel`, `EthRx` | the same for reception: `poll_rx()` with its budget, clear / add / increment as separate steps |
| `EthLifecycle` | `ccat_eth_init()` and `_exit()`, probe and remove of a DMA or an EIM function, open and stop: drivers, memory, timer, channel registers, descriptors in the CCAT |
| `Cdev` | `ccat_cdev_probe()`, `_remove()`, `_open()`, `_release()`; a NULL dereference is the label `oops` |
| `CcatProbe` | `ccat_pci_probe()`, `ccat_eim_probe()`, removal, `ccat_functions_init()`, with the cells shared by all CCATs |
| `FlashDevice` | what the update device promises: `read()` returns the flash, closing a file that was written replaces its contents |
| `FlashUpdate` | one file of the update device; the commands to the flash and the flash as a separate party |
| `UpdateScript` | `update_ccat.sh` as a client of `FlashDevice`: each `cat` opens, copies block by block and closes, and may fail anywhere |
| `Sram` | one file of the SRAM device and its threads |
| `Gpio` | read-modify-write of the registers by several callers |
| `CyclicTask` | `main()` with `pause()`, the signal handler, `cyclic_task()`, and a bus that delays and loses frames |
| `MC*` | constants for TLC |
| `*Proofs` | theorems |

`EthTx` and `EthRx` implement `TxChannel` and `RxChannel`: `Channel == INSTANCE
... WITH` maps the descriptors in the CCAT and the contents of their frames to
the abstract sequence, and the runs check `Channel!Spec` as a property.  In the
same way `FlashUpdate` implements `FlashDevice`, on top of which `UpdateScript` is
written: what is shown of the script rests on what is shown of the driver.

### Abstractions

- Frames, bytes and regions are model values.  Lengths of frames matter only as
  "supported" or not, and statistics counters are left out.
- A slot of the ring is a number; `fifo_set_end()`, the increment and the wrap are
  kept as arithmetic on it.
- Code that is not in the repository is modelled from how the driver uses it and
  marked external: the network stack (it stops handing over frames some time after
  `netif_carrier_off()`), the PHY, the FIFOs of the CCAT, the flash (ignores
  commands while busy, needs a write enable for every erase and program).
- `Forget` (`FlashUpdate`) and `Return` (`Gpio`) also reset locals, so that
  finished calls do not multiply states.
- History variables record what happened for the properties; no step depends on
  them: `lost` and `raced` (`CcatProbe`), `overwritten` (`UpdateScript`).
- `UpdateScript` counts in blocks of `cat`.  A worn out flash holds anything after
  it was programmed.  An FPGA that is switched on with neither the old contents nor
  an image in its flash does not start, and there is no device.
- `CyclicTask` has the difference of the two alarm counters, which wrap around
  together, and stops counting asynchronous cycles where the code no longer tells
  their number apart (`MAX_ASYNC`).
- `FlashUpdate` has `read()` and `write()` at the position of the file.  With
  `pwrite()` the end of the *last* write would decide how much is programmed.

## 3. Runs

| run | question | result |
|---|---|---|
| `ethtx` | is the ring a FIFO channel under every interleaving, with DMA and without, and does a stopped queue resume? | holds (176,411 states), if the stack follows the loss of the link before it comes back |
| `ethtx_busy` | can "BUG! Tx Ring full when queue awake!" happen? | yes |
| `ethrx` | is every frame in one place, delivered once and in order, and freed, unless it is a runt? | holds (141,358) |
| `eth_lifecycle` | does a registered device use its own memory after any failures and rebinds, does the timer stop before its rings go, and which failures leave memory, a driver or an armed CCAT behind? | holds (31,924) |
| `eth_txfail` | is memory freed only after the FIFO is reset, also if the TX memory cannot be allocated? | no |
| `cdev` | is open exclusive, are the counts exact, does the class outlive its devices, and when does a failure stop the kernel? | holds (26,204), if no function is unbound while its file is open |
| `probe` | does a failed probe leave nothing behind, do children keep their mapping and their own data, is no function skipped, also with CCATs probed at the same time? | holds (336,577), with one exception each to the first and to the third, see 4 |
| `flash` | does the driver implement the abstract device (after close() the flash holds exactly the image), and does close() return? | holds (69,182) |
| `update` | are the verdicts of the script true, are the old contents safe over many runs? | holds (253,358), the second with one exception, see 4 |
| `sram` | does the SRAM hold what was written? | holds (15,599), for one thread |
| `gpio` | is no update lost, no value read for the wrong direction? | holds (47,104) |
| `cyclic` | is one lost frame tolerated, a cut cable noticed, every alarm served? | holds (200,538) |

The variant of the hardware is a variable that never changes (`ops`, `bus`, `dma`), so one
run covers DMA and EIM, or PCI and EIM.

### Bounds

- Rings of three frames: the smallest with a first, a middle and a last frame, so
  that wrap, full ring and a descriptor in the middle differ.  The FIFO of the
  CCAT is assumed to hold at least the ring (`HW_DEPTH >= FIFO_LENGTH`): with DMA the
  driver never looks at its level.  Two payloads tell order and
  duplication apart.
- `Cdev`: more functions (3) than devices (2), so that the table overflows, and
  three processes, so that two losers of `open()` meet a holder.
- `CcatProbe`: two CCATs, probed and removed in every interleaving, two functions of
  one type (the cell is reused), an unused block and an unknown one.  Every step may
  fail on either bus.
- `FlashUpdate`: sizes below, equal to and above a block.  The run also passes with
  a flash of four cells (1,694,640 states), which has two full blocks.
- `UpdateScript`: an image smaller than the flash and one too large for it, each
  with its own backup file, so that a run with one may follow a failed run with the
  other.
- `CyclicTask`: `cyclic_task()` has its own delays (10 and 5); three output values,
  and an error counter that is not full before the outputs have wrapped around in an
  outage: inputs that nobody has read since then equal the outputs again by chance.
  Up to three alarms to catch up with.
- `Gpio`: one line outside the first register.
- `EthLifecycle`: five regions, so that leaks exhaust the memory only after two
  failed probes.

Deadlock is checked except in `cdev`, where all functions may end in `oops`.
The receive run includes runts, frames that `fifo_dma_rx_ready()` takes for empty.

### Fairness

- The timer callback runs and restarts its timer while the interface is open
  (`HRTIMER_RESTART`): weak fairness of `TimerFire` and of its steps.
- A call of `start_xmit`, `read()` or `close()` runs to its end: weak fairness.
- The stack follows the carrier (`Linkwatch`), the CCAT sends while the link is up,
  and the flash finishes a command: assumptions about external parties.
- `main()` of the EtherCAT test runs and the interval timer, which is periodic, goes
  on.
- Nothing is assumed about users, the EtherCAT bus, the link, incoming frames or power.

`EveryFrameFreed` is conditional on an interface that stays open; `TxResumes`
is conditional: if the interface stays open and the link stays up.
Without `SettledLink` (below) TLC finds it violated with a ring of two frames.

## 4. Findings

Each is a run that expects a violation, with the quotation in `PROJECT.json`.

1. `ethtx_busy`: `ccat_eth_link_up()` starts the queue without looking at the
   ring, and `poll_tx()` tests for a free frame and wakes the queue without the
   transmit lock, so the queue can be awake with a full ring.  Harmless beyond the
   log message and a requeue: the frame is not lost.
2. `eth_txfail`: freed RX memory stays armed in the CCAT.

Seen with other values of the constants, or as an exception a property makes, without
a run of their own:

- `EthTx` with `SettledLink = FALSE` violates `ReadyMeansFree`: nothing waits for a
  `start_xmit` that started before `netif_carrier_off()`, and if the link returns
  before the stack has reacted, `ccat_eth_link_up()` resets the ring under it.
- `UpdateScript` violates `ChanceToRecover`, which is `RecoveryKept` without its
  exception: after a run that damaged the flash, a second run for the same `*.rbf`
  begins by replacing the good backup with a dump of the damage, although the FPGA was
  powered all the time ("As long as the FPGA stays powered on you have a chance to
  recover!").  `RecoveryKept` shows that no other run on a damaged flash, such as one
  for another `*.rbf`, loses the good contents.
- `Cdev` with `UnbindBusy = TRUE` violates `ExclusiveOpen`: a function unbound while
  its file is open lets a second process in.
- `CcatProbe`, `OwnPlatformData`: on PCI a child gets the information block of another
  CCAT, of the same type, if that CCAT's probe fills in the static cell between the
  assignment and `mfd_add_devices()`.  The history variable `raced` records these
  functions; for all others, and always on EIM, the data is the child's own.
- `CcatProbe`, `NothingHeld`: a failed `ioremap()` on EIM keeps the region for good, and
  no CCAT can be probed any more.  The history variable `lost` records it; no other
  failure leaves anything behind.
- `CyclicTask`: when the outputs wrap around in an outage and meet the inputs nobody
  has read, `numAsyncCycles` starts again at 0, although no frame has come back.  So
  `missed`, which decides whether an error has a cause, is reset only by an answer;
  reset together with `numAsyncCycles`, one lost frame after an outage is enough for
  an error, and `ErrorHasCause` is violated.
- `Sram` with two threads violates `SramHoldsWrites` and `ReadReturns`: calls on one
  file overwrite each other's buffer.

Plain from the actions and from the exceptions properties make: the error path of
the first `ccat_cdev_probe()` follows a NULL class pointer (`OopsOnFirstUse` says
when); a stored runt blocks reception until the next link up (`EveryFrameFreed`); if
the second Ethernet driver cannot be registered, the first stays registered without
its module (`UnloadedIsUnused`); `ccat_functions_init()` returns 0 when memory is short and
functions are left out, although its comment says "count of failed functions";
`ccat_dma_init()` fills the RX FIFO before it writes the channel address
(`EthLifecycle`, label `rx_addr`); an invalid MAC address leaks the device and its
memory; GPIO lines from 32 on cannot be set.

## 5. Proofs

All for every value of the constants that satisfies the named assumptions.
Each specification with a proof has an inductive invariant (`IndInv`, `SramInv`,
`CyclicInv`), which begins with the type invariant.  (Before a proof is changed, add it
to the configuration: it holds in every instance here.)

**`EthTxProofs`** (assuming `SettledLink`).  `IndInv` is `TypeOK` with
`Exclusion` (stack and timer are never both in the region that works on the ring:
the carrier is off and the stack has noticed before `link_up` resets it),
`XmitProgress` and `ResetProgress` (what a context in the middle of
`start_xmit` or of the reset has done), and the three facts about the ring.
`RingSegment` alone is not inductive: it needs to know that nobody else moves
`fifo->next` between its load, store and wrap.  Theorems `RingInvariant`,
`SegmentCorrect`, `ReadyFramesFree`, `BusyFramesOwned`, `ForwardingFirst`.

`TransmitImplementsChannel`: the path implements `TxChannel`.  The channel holds the
frames of the descriptors in the CCAT, in their order; it accepts in
the kick (DMA) or in the copy (EIM), sends when the CCAT takes the oldest
descriptor, and is flushed by the reset on link up.  A frame stays what it was
because a slot in the CCAT is not marked ready (`ReadyMeansFree`), so nobody fills
it; the forwarding frame is the first because of `ForwardFirst`.

**`EthRxProofs`** (no assumption beyond the types, and a FIFO that holds the ring).
`IndInv` is `TypeOK`, `RingPartition` and `PollProgress` (what the labels of
`poll_rx()` tell of the frame in hand and of the budget).  The partition is carried by
positions relative to the oldest waiting frame: the CCAT moves the border between
waiting and free frames, `fifo_inc` and `fifo_dma_rx_add()` together move a frame
from the front to the back.  Theorems `ReceiveInvariant`, `ReceiveTypes`,
`PartitionCorrect`, and `ReceiveImplementsChannel`: the waiting frames, in the order
of the ring, are the channel.

**`CdevProofs`** (assuming `~UnbindBusy`).  `IndInv` ties `in_use` to the number
of processes inside `open()` or holding the file, `instances` to the number of
functions that hold a device, and says what a probe at each label has done.
Exclusive open follows from the tally: `in_use` is one minus the number of
processes that use the device, so only the first of them sees 0 after its
decrement.  Theorems `CdevInvariant`, `OpenIsExclusive`,
`CountsAreExact`, `ClassOutlivesDevices`, `BusyIsJustified`, `OopsNeedsFirstUse`.

**`CcatProbeProofs`** (no assumption beyond the types; any CCATs, probed at the same
time, any information blocks and failures).  `DiscoveryInv` says that the children are
exactly the functions in front of the block a CCAT has come to: probes at the same time
spoil each other's cells, but no function is skipped or connected twice.  Theorems
`DiscoveryInvariant`, `EveryFunctionFound`.  On top of it `IndInv` says what is held at
every label (`Holds`), that the EIM region has one owner (`OneRegion`), which keeps other
probes away from the cells there, and that the cell of a function being connected is its
own or the function is recorded as raced (`CellFilled`).  It needs `DiscoveryInv` where a
cell is filled in: the function is a new one, so that no child loses its record.  Theorems
`ProbeInvariant`, `NothingIsLeftBehind`, `ChildrenStayMapped`, `PlatformDataIsOwn`.

**`FlashUpdateProofs`** (any flash, blocks and bytes).  `IndInv` adds to `TypeOK` and
`ReadDelivers`: the buffer holds the image, and the position is never in front of its
end, so that a `write()` that fails halfway spoils nothing (`Buffered`); what
`ccat_read_flash()` has delivered (`Reading`); and the contract between the steps of
`close()` and the flash (`ReleaseProgress`): a command finds the flash idle and
writing enabled, the wait behind the erase leaves a flash of 0xff, and before each
turn of `ccat_write_flash()` the flash holds the buffer up to `off` and 0xff behind
it.  Theorems `UpdateInvariant`, `UpdateTypes`, `ReadCorrect`, and
`UpdateImplementsDevice`: every step is one of `FlashDevice` or not seen there
(`Device!Safety`, which is `Device!Spec` without the fairness of `Programmed`).

**`SmallProofs`** holds what is proved of three small modules.  It extends all three,
which is why `Sram` and `CyclicTask` have names such as `SramSpec` and `CyclicSpec`.

- `Gpio`: `IndInv` adds to the two properties that whoever is between lock and unlock
  owns the mutex, and that what it read is still in the register.  Theorems
  `GpioInvariant`, `UpdatesAreKept`, `DirectionIsCurrent`.
- `Sram` (`SramInv`): a call in progress stays in the SRAM for any number of threads
  (`SramInvariant`, `SramTypes`).  With one thread (`OneThread`) a call finds its own
  bytes in the buffer between its two copies (`BufferIsOwn`), from which
  `WritesAreKept` and `ReadsAreCorrect` (an action property) follow.
- `CyclicTask`: `CyclicInv` says why a lost frame is tolerated (`InStep`): the frame that
  sets new outputs is the only one whose answer may be old, so with fewer than two
  missed answers at most two cycles are out of step, and then `UPDATE_DELAY >= 3`
  cycles are enough for the inputs to follow before the outputs change again.
  Theorems `CyclicInvariant`, `CyclicTypes`, `ErrorsHaveCauses` (an action property).

**`EthLifecycleProofs`** (no assumption beyond the types; any set of failures).
`IndInv` says which drivers are registered in each state of the module and that a
probe in progress has its driver (`ModuleState`), which memory exists at each label
and that nothing else is allocated (`MemoryState`), and what the registers of the
CCAT hold (`ChannelState`).  `ChannelsMatch` is not inductive: it needs to know
where the channel got its address, and that memory allocated later is not the
memory it points to.  Theorems `LifecycleInvariant`, `RegisteredChannelsMatch`,
`FreedAfterReset`, `NothingElseLeaks`, `TimerHasRings`, `UnloadedCodeIsUnused`.

**`UpdateScriptProofs`** (any size of the flash, any images).  `IndInv` ties the
device to the command that has it open (`DeviceState`), says that a file being read
is a prefix of the flash (`DumpState`) and that behind the first command the backup
is a dump of the flash as it was then (`BackupState`).  With these the verdicts
follow from the comparisons the script makes, and the old contents are in the flash,
in the backup or in that of another `*.rbf` (`KeptElsewhere`) at every step.  Theorems
`ScriptInvariant`, `VerdictsAreTrue`, `RecoveryIsKept`.

Only model-checked: liveness (`TxResumes`, `EveryFrameFreed`, `CloseReturns`,
`CutIsNoticed`, `AlarmsServed`), which is out of the prover's reach, and
the fairness in `ImplementsDevice`, for the same reason.  Every invariant and every
action property a passing run checks is also proved.

## 6. Not modelled

- Statistics (`ccat_eth_get_stats64()`): counters that no other state depends on.
- The system time: a register read, without state of its own.
- `SWAP_BITS` and the layout of commands in `update.c`: the flash is modelled at the
  level of commands and addresses.
- The configuration of the EtherCAT master before the loop of `unittest/main.c`, and
  the two small test programs that send frames.
- The EtherLab patches, scripts for tests, and build files.

## 7. What could come next

1. Composition of `EthLifecycle` with `CcatProbe`: removal of a CCAT while a function
   of it is being probed.
2. Composition of `UpdateScript` with `FlashUpdate` instead of `FlashDevice`, which the
   refinement makes unnecessary for safety, in order to ask whether a run of the script
   ends.
