----------------------------- MODULE CcatProbe -----------------------------
(***************************************************************************)
(* Binding and unbinding CCATs (module.c): ccat_pci_probe() and            *)
(* ccat_pci_remove(), or ccat_eim_probe() and ccat_eim_remove(), and the   *)
(* discovery of the functions in ccat_functions_init().                    *)
(*                                                                         *)
(* Every CCAT has its own probe, which no lock of the driver keeps apart   *)
(* from the probe of another CCAT, but the cells that describe the         *)
(* functions to the MFD core are static and shared by all of them.         *)
(***************************************************************************)
EXTENDS Integers, Sequences, FiniteSets

CONSTANTS
  Devices,   \* CCATs
  Types,     \* types that have an entry in ccat_cells
  NotUsed,   \* CCATINFO_NOTUSED
  Blocks,    \* the information blocks of a CCAT: a sequence of types
  Failures,  \* steps that may fail on each bus
  None

ASSUME CcatProbeAssumption ==
  /\ NotUsed \notin Types
  /\ Blocks \in Seq(Types \cup {NotUsed} \cup {"other"})
  /\ Failures \in
       [{"pci", "eim"} -> SUBSET {"enable", "rev", "regions", "mask", "bar0",
                                  "bar2", "kzalloc", "mfd"}]
  /\ None \notin Devices \X Nat

VARIABLES
  bus,       \* "pci" or "eim", as the driver was built (CONFIG_PCI)
  pc,        \* where the probe or the removal of a CCAT is
  enabled,   \* pci_enable_device_mem()
  regions,   \* pci_request_regions(), request_mem_region()
  bar_0,     \* mapped
  bar_2,     \* mapped
  block,     \* the block ccat_functions_init() looks at
  cells,     \* cell.platform_data of ccat_cells: <<CCAT, block>> or None
  children,  \* devices of the MFD core: <<block, platform data>>
  ret,       \* result of ccat_functions_init()

  (* history, which no step depends on *)
  lost,      \* CCATs whose ioremap() failed on EIM: they keep the region
  raced      \* <<CCAT, block>> whose cell another CCAT filled in again before
             \* mfd_add_devices() looked at it

resources == <<enabled, regions, bar_0, bar_2, lost>>
functions == <<block, cells, children, ret, raced>>
vars == <<bus, pc, enabled, regions, bar_0, bar_2, block, cells, children, ret,
          lost, raced>>

MayFail(step) == step \in Failures[bus]

Goto(d, label) == pc' = [pc EXCEPT ![d] = label]

(***************************************************************************)
(* ccat_pci_probe()                                                        *)
(***************************************************************************)

PciEnable(d) ==
  /\ pc[d] = "unbound"
  /\ \/ /\ enabled' = [enabled EXCEPT ![d] = TRUE]
        /\ Goto(d, "rev")
     \/ /\ MayFail("enable")
        /\ UNCHANGED <<pc, enabled>>
  /\ UNCHANGED <<regions, bar_0, bar_2, lost, functions>>

\* pci_read_config_byte()
PciRevision(d) ==
  /\ pc[d] = "rev"
  /\ \/ Goto(d, "regions")
     \/ MayFail("rev") /\ Goto(d, "disable_device")
  /\ UNCHANGED <<resources, functions>>

PciRegions(d) ==
  /\ pc[d] = "regions"
  /\ \/ /\ ~regions[d]
        /\ regions' = [regions EXCEPT ![d] = TRUE]
        /\ Goto(d, "mask")
     \/ /\ regions[d] \/ MayFail("regions")
        /\ Goto(d, "disable_device")
        /\ UNCHANGED regions
  /\ UNCHANGED <<enabled, bar_0, bar_2, lost, functions>>

\* dma_set_mask_and_coherent(), for 64 and then for 32 bit
PciMask(d) ==
  /\ pc[d] = "mask"
  /\ \/ Goto(d, "bar0")
     \/ MayFail("mask") /\ Goto(d, "release_regions")
  /\ UNCHANGED <<resources, functions>>

PciBar0(d) ==
  /\ pc[d] = "bar0"
  /\ \/ /\ bar_0' = [bar_0 EXCEPT ![d] = TRUE]
        /\ Goto(d, "bar2")
     \/ /\ MayFail("bar0")
        /\ Goto(d, "release_regions")
        /\ UNCHANGED bar_0
  /\ UNCHANGED <<enabled, regions, bar_2, lost, functions>>

\* the second BAR is optional
PciBar2(d) ==
  /\ pc[d] = "bar2"
  /\ \/ bar_2' = [bar_2 EXCEPT ![d] = TRUE]
     \/ MayFail("bar2") /\ UNCHANGED bar_2
  /\ Goto(d, "init")
  /\ UNCHANGED <<enabled, regions, bar_0, lost, functions>>

ReleaseRegions(d) ==
  /\ pc[d] = "release_regions"
  /\ regions' = [regions EXCEPT ![d] = FALSE]
  /\ Goto(d, "disable_device")
  /\ UNCHANGED <<enabled, bar_0, bar_2, lost, functions>>

\* a probe that jumps over the label disable_device
DisableDevice_Skipped(d) ==
  /\ pc[d] = "disable_device"
  /\ Goto(d, "unbound")
  /\ UNCHANGED <<resources, functions>>

DisableDevice(d) ==
  /\ pc[d] = "disable_device"
  /\ enabled' = [enabled EXCEPT ![d] = FALSE]
  /\ Goto(d, "unbound")
  /\ UNCHANGED <<regions, bar_0, bar_2, lost, functions>>

(***************************************************************************)
(* ccat_eim_probe()                                                        *)
(***************************************************************************)

\* a probe that ignores the result of request_mem_region()
EimRegion_Unchecked(d) ==
  /\ pc[d] = "unbound"
  /\ regions' = [regions EXCEPT ![d] = TRUE]
  /\ Goto(d, "ioremap")
  /\ UNCHANGED <<enabled, bar_0, bar_2, lost, functions>>

\* the address of the region is the same for all CCATs
EimRegion(d) ==
  /\ pc[d] = "unbound"
  /\ \/ /\ \A e \in Devices : ~regions[e]
        /\ regions' = [regions EXCEPT ![d] = TRUE]
        /\ Goto(d, "ioremap")
     \/ /\ MayFail("regions") \/ \E e \in Devices : regions[e]
        /\ UNCHANGED <<pc, regions>>
  /\ UNCHANGED <<enabled, bar_0, bar_2, lost, functions>>

\* a failure keeps the region
EimIoremap(d) ==
  /\ pc[d] = "ioremap"
  /\ \/ /\ bar_0' = [bar_0 EXCEPT ![d] = TRUE]
        /\ Goto(d, "init")
        /\ UNCHANGED lost
     \/ /\ MayFail("bar0")
        /\ Goto(d, "unbound")
        /\ lost' = lost \cup {d}
        /\ UNCHANGED bar_0
  /\ UNCHANGED <<enabled, regions, bar_2, functions>>

(***************************************************************************)
(* ccat_functions_init()                                                   *)
(***************************************************************************)

\* the loop is over, with a result for the probe, which only logs it
Finish(d, r) ==
  /\ ret' = [ret EXCEPT ![d] = r]
  /\ Goto(d, "bound")

\* kzalloc() of the next struct ccat_function; without it the loop ends
Allocate(d) ==
  \/ Goto(d, "scan") /\ UNCHANGED ret
  \/ MayFail("kzalloc") /\ Finish(d, 0)

FunctionsInit(d) ==
  /\ pc[d] = "init"
  /\ block' = [block EXCEPT ![d] = 1]
  /\ Allocate(d)
  /\ UNCHANGED <<resources, cells, children, raced>>

\* ccat_function_connect(): the platform data is the CCAT and the block
Cell(d) == <<d, block[d]>>

\* the functions of other CCATs that are between the same cell and
\* mfd_add_devices()
Waiting(d) ==
  {<<e, block[e]>> : e \in {e \in Devices \ {d} :
     pc[e] = "connect" /\ Blocks[block[e]] = Blocks[block[d]]}}

\* a turn of the loop, up to the cell that ccat_function_connect() fills in
Scan(d) ==
  /\ pc[d] = "scan"
  /\ \/ /\ block[d] > Len(Blocks)
        /\ Finish(d, 0)
        /\ UNCHANGED <<block, cells, raced>>
     \/ /\ block[d] <= Len(Blocks)
        /\ Blocks[block[d]] \in Types
        /\ cells' = [cells EXCEPT ![Blocks[block[d]]] = Cell(d)]
        /\ raced' = (raced \ {Cell(d)}) \cup Waiting(d)
        /\ Goto(d, "connect")
        /\ UNCHANGED <<block, ret>>
     \/ /\ block[d] <= Len(Blocks)
        /\ Blocks[block[d]] = NotUsed
        /\ block' = [block EXCEPT ![d] = @ + 1]
        /\ UNCHANGED <<pc, cells, ret, raced>>
     \/ /\ block[d] <= Len(Blocks)
        /\ Blocks[block[d]] \notin Types \cup {NotUsed}
        /\ block' = [block EXCEPT ![d] = @ + 1]
        /\ Allocate(d)
        /\ UNCHANGED <<cells, raced>>
  /\ UNCHANGED <<resources, children>>

\* a loop that goes on when mfd_add_devices() fails
Connect_GoesOn(d) ==
  /\ pc[d] = "connect"
  /\ \/ children' = [children EXCEPT ![d] =
                       @ \cup {<<block[d], cells[Blocks[block[d]]]>>}]
     \/ MayFail("mfd") /\ UNCHANGED children
  /\ block' = [block EXCEPT ![d] = @ + 1]
  /\ Allocate(d)
  /\ UNCHANGED <<resources, cells, raced>>

\* mfd_add_devices() copies the platform data of the cell
Connect(d) ==
  /\ pc[d] = "connect"
  /\ \/ /\ children' = [children EXCEPT ![d] =
                          @ \cup {<<block[d], cells[Blocks[block[d]]]>>}]
        /\ block' = [block EXCEPT ![d] = @ + 1]
        /\ Allocate(d)
     \/ /\ MayFail("mfd")
        /\ Finish(d, -1)
        /\ UNCHANGED <<block, children>>
  /\ UNCHANGED <<resources, cells, raced>>

(***************************************************************************)
(* ccat_pci_remove(), ccat_eim_remove()                                    *)
(***************************************************************************)

\* a removal that unmaps the CCAT first
RemoveDevices_Late(d) ==
  /\ pc[d] = "bound"
  /\ bar_0' = [bar_0 EXCEPT ![d] = FALSE]
  /\ Goto(d, "unmap")
  /\ UNCHANGED <<enabled, regions, bar_2, lost, functions>>

RemoveDevices(d) ==
  /\ pc[d] = "bound"
  /\ children' = [children EXCEPT ![d] = {}]
  /\ Goto(d, "unmap")
  /\ UNCHANGED <<resources, block, cells, ret, raced>>

Unmap(d) ==
  /\ pc[d] = "unmap"
  /\ bar_0' = [bar_0 EXCEPT ![d] = FALSE]
  /\ bar_2' = [bar_2 EXCEPT ![d] = FALSE]
  /\ regions' = [regions EXCEPT ![d] = FALSE]
  /\ enabled' = [enabled EXCEPT ![d] = FALSE]
  /\ block' = [block EXCEPT ![d] = 1]
  /\ ret' = [ret EXCEPT ![d] = 0]
  /\ Goto(d, "unbound")
  /\ UNCHANGED <<cells, children, lost, raced>>

(***************************************************************************)
(* The specification                                                       *)
(***************************************************************************)

Init ==
  /\ bus \in {"pci", "eim"}
  /\ pc = [d \in Devices |-> "unbound"]
  /\ enabled = [d \in Devices |-> FALSE]
  /\ regions = [d \in Devices |-> FALSE]
  /\ bar_0 = [d \in Devices |-> FALSE]
  /\ bar_2 = [d \in Devices |-> FALSE]
  /\ block = [d \in Devices |-> 1]
  /\ cells = [t \in Types |-> None]
  /\ children = [d \in Devices |-> {}]
  /\ ret = [d \in Devices |-> 0]
  /\ lost = {}
  /\ raced = {}

PciProbe(d) ==
  \/ PciEnable(d) \/ PciRevision(d) \/ PciRegions(d) \/ PciMask(d)
  \/ PciBar0(d) \/ PciBar2(d) \/ ReleaseRegions(d) \/ DisableDevice(d)

EimProbe(d) == EimRegion(d) \/ EimIoremap(d)

Step(d) ==
  \/ bus = "pci" /\ PciProbe(d)
  \/ bus = "eim" /\ EimProbe(d)
  \/ FunctionsInit(d) \/ Scan(d) \/ Connect(d)
  \/ RemoveDevices(d) \/ Unmap(d)

Next == UNCHANGED bus /\ \E d \in Devices : Step(d)

Spec == Init /\ [][Next]_vars

(***************************************************************************)
(* Properties                                                              *)
(***************************************************************************)

Labels == {"unbound", "rev", "regions", "mask", "bar0", "bar2",
           "release_regions", "disable_device", "ioremap", "init", "scan",
           "connect", "bound", "unmap"}

TypeOK ==
  /\ bus \in {"pci", "eim"}
  /\ pc \in [Devices -> Labels]
  /\ enabled \in [Devices -> BOOLEAN]
  /\ regions \in [Devices -> BOOLEAN]
  /\ bar_0 \in [Devices -> BOOLEAN]
  /\ bar_2 \in [Devices -> BOOLEAN]
  /\ block \in [Devices -> 1 .. Len(Blocks) + 1]
  /\ cells \in [Types -> (Devices \X (1 .. Len(Blocks))) \cup {None}]
  /\ children \in
       [Devices -> SUBSET ((1 .. Len(Blocks)) \X (Devices \X (1 .. Len(Blocks))))]
  /\ ret \in [Devices -> {-1, 0}]
  /\ lost \in SUBSET Devices
  /\ raced \in SUBSET (Devices \X (1 .. Len(Blocks)))

\* An unbound CCAT holds nothing: whatever step of a probe fails, and whatever
\* the other CCATs do, the labels release_regions and disable_device of
\* ccat_pci_probe() and the removal give back exactly what it had got, so that
\* the next probe can succeed.  The one thing that stays behind is the region
\* of a CCAT on EIM whose ioremap() failed: ccat_eim_probe() returns without
\* release_mem_region().
NothingHeld ==
  \A d \in Devices : pc[d] = "unbound" =>
    /\ ~enabled[d] /\ ~bar_0[d] /\ ~bar_2[d] /\ children[d] = {}
    /\ regions[d] <=> d \in lost

\* The drivers of the functions access bar_0: it is mapped, and its region
\* reserved, as long as there is a child, also while the CCAT is removed.
ChildrenMapped ==
  \A d \in Devices : children[d] # {} => bar_0[d] /\ regions[d]

\* Every child gets the information block and the CCAT it was created for,
\* although ccat_function_connect() passes them in static cells, shared by all
\* functions of a type and by all CCATs.  On EIM this always holds: only the
\* CCAT that has the region gets as far as the cells.  On PCI the one exception
\* is a cell that the probe of another CCAT filled in between the assignment
\* and mfd_add_devices(); also then the child gets a block of its own type.
OwnPlatformData ==
  \A d \in Devices : \A c \in children[d] :
    /\ c[2] = <<d, c[1]>> \/ (bus = "pci" /\ <<d, c[1]>> \in raced)
    /\ Blocks[c[2][2]] = Blocks[c[1]]

\* The discovery leaves no gap: ccat_functions_init() has connected exactly the
\* functions in front of the block it has come to, or at which the lack of
\* memory or an error of the MFD core made it give up.  The error is returned
\* only when the function of that block is the one that is missing.
FunctionsFound ==
  \A d \in Devices :
    /\ pc[d] \in {"scan", "connect", "bound"} =>
         {c[1] : c \in children[d]} = {i \in 1 .. block[d] - 1 : Blocks[i] \in Types}
    /\ pc[d] = "bound" /\ ret[d] < 0 =>
         block[d] <= Len(Blocks) /\ Blocks[block[d]] \in Types

\* What the discovery relies on, also when CCATs are probed at the same time:
\* the children are new, and the cell of a known type has been filled in.
DiscoveryInv ==
  /\ TypeOK
  /\ FunctionsFound
  /\ \A d \in Devices :
       /\ children[d] # {} => pc[d] \in {"scan", "connect", "bound"}
       /\ pc[d] = "connect" =>
            /\ block[d] <= Len(Blocks)
            /\ Blocks[block[d]] \in Types
            /\ cells[Blocks[block[d]]] # None

\* request_mem_region() gives the region of the EIM to one CCAT.
OneRegion ==
  bus = "eim" => \A d, e \in Devices : regions[d] /\ regions[e] => d = e

\* What a CCAT holds at every label of its probe and its removal.
Holds(d) ==
  /\ pc[d] \in {"unbound", "ioremap"} => ~enabled[d]
  /\ pc[d] = "unbound" => (regions[d] <=> d \in lost)
  /\ d \in lost => bus = "eim" /\ pc[d] = "unbound"
  /\ pc[d] \in {"rev", "regions", "disable_device"} => ~regions[d]
  /\ pc[d] \in {"mask", "bar0", "bar2", "release_regions", "ioremap", "init",
                "scan", "connect", "bound", "unmap"} => regions[d]
  /\ pc[d] \in {"bar2", "init", "scan", "connect", "bound", "unmap"} <=> bar_0[d]
  /\ bar_2[d] => pc[d] \in {"init", "scan", "connect", "bound", "unmap"}
  /\ children[d] # {} => pc[d] \in {"scan", "connect", "bound"}

\* A function that is being connected is described by the cell of its type,
\* unless another CCAT has filled it in since, for a function of this type.
CellFilled(d) ==
  pc[d] = "connect" =>
    LET cell == cells[Blocks[block[d]]] IN
    /\ block[d] \in 1 .. Len(Blocks)
    /\ Blocks[block[d]] \in Types
    /\ cell \in Devices \X (1 .. Len(Blocks))
    /\ Blocks[cell[2]] = Blocks[block[d]]
    /\ cell = <<d, block[d]>> \/ <<d, block[d]>> \in raced

\* The inductive invariant: the resources follow the label, and the region
\* keeps two probes on EIM from using the cells at the same time.
IndInv ==
  /\ TypeOK
  /\ OneRegion
  /\ OwnPlatformData
  /\ bus = "eim" => raced = {}
  /\ \A d \in Devices : Holds(d) /\ CellFilled(d)
=============================================================================
