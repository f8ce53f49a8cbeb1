-------------------------- MODULE CcatProbeProofs --------------------------
(***************************************************************************)
(* Proofs about CcatProbe, for any number of CCATs that are probed and     *)
(* removed at the same time, both buses, any information blocks and any    *)
(* set of failures.                                                        *)
(***************************************************************************)
EXTENDS CcatProbe, TLAPS

(***************************************************************************)
(* The discovery of the functions                                          *)
(***************************************************************************)

\* The labels at which a CCAT may have children
Discovered == {"scan", "connect", "bound"}

\* What FunctionsFound and DiscoveryInv say of one CCAT
Found(d) ==
  /\ pc[d] \in Discovered =>
       {c[1] : c \in children[d]} = {i \in 1 .. block[d] - 1 : Blocks[i] \in Types}
  /\ pc[d] = "bound" /\ ret[d] < 0 =>
       block[d] <= Len(Blocks) /\ Blocks[block[d]] \in Types
  /\ children[d] # {} => pc[d] \in Discovered
  /\ pc[d] = "connect" =>
       /\ block[d] <= Len(Blocks)
       /\ Blocks[block[d]] \in Types
       /\ cells[Blocks[block[d]]] # None

\* Initially every CCAT is unbound.
LEMMA InitType == Init => TypeOK
<1>1. Len(Blocks) \in Nat /\ 1 \in 1 .. Len(Blocks) + 1
  BY CcatProbeAssumption
<1> QED BY <1>1 DEF Init, TypeOK, Labels

\* The invariant is a statement about each CCAT.
LEMMA DiscoveryByDevice ==
  DiscoveryInv <=> TypeOK /\ \A d \in Devices : Found(d)
BY DEF DiscoveryInv, FunctionsFound, Found, Discovered

\* A step of d is looked at for d only: a cell that was filled in stays so.
LEMMA DiscoveryStep ==
  ASSUME DiscoveryInv, TypeOK', NEW d \in Devices, Found(d)',
         \A e \in Devices : e # d =>
           /\ pc'[e] = pc[e] /\ children'[e] = children[e]
           /\ block'[e] = block[e] /\ ret'[e] = ret[e],
         \A t \in Types : cells[t] # None => cells'[t] # None
  PROVE  DiscoveryInv'
<1>1. ASSUME NEW e \in Devices, e # d PROVE Found(e)'
  <2>1. Found(e)
    BY DiscoveryByDevice
  <2>2. /\ pc'[e] = pc[e] /\ children'[e] = children[e]
        /\ block'[e] = block[e] /\ ret'[e] = ret[e]
    BY <1>1
  <2> QED BY <2>1, <2>2 DEF Found
<1>2. \A e \in Devices : Found(e)'
  BY <1>1
<1> QED BY <1>2 DEF DiscoveryInv, FunctionsFound, Found, Discovered

\* The steps that get or give back a resource have no children yet, or none
\* any more.
LEMMA ResourceDiscovery ==
  ASSUME DiscoveryInv, UNCHANGED bus, NEW d \in Devices,
         pc[d] \notin Discovered, NEW l \in Labels \ Discovered,
         pc' = [pc EXCEPT ![d] = l],
         enabled' \in [Devices -> BOOLEAN], regions' \in [Devices -> BOOLEAN],
         bar_0' \in [Devices -> BOOLEAN], bar_2' \in [Devices -> BOOLEAN],
         lost' \in SUBSET Devices, UNCHANGED functions
  PROVE  DiscoveryInv'
<1>1. TypeOK'
  BY DEF DiscoveryInv, TypeOK, functions
<1>2. children[d] = {}
  BY DEF DiscoveryInv, Discovered
<1>3. Found(d)'
  BY <1>2 DEF Found, functions, DiscoveryInv, TypeOK, Discovered
<1>4. UNCHANGED <<children, block, ret, cells>>
  BY DEF functions
<1>5. \A e \in Devices : e # d => pc'[e] = pc[e]
  BY SMTT(20) DEF DiscoveryInv, TypeOK
<1> QED BY <1>1, <1>3, <1>4, <1>5, DiscoveryStep

\* ccat_pci_probe() and ccat_eim_probe() up to ccat_functions_init().
LEMMA ProbeDiscovery ==
  ASSUME DiscoveryInv, UNCHANGED bus, NEW d \in Devices,
         PciProbe(d) \/ EimProbe(d)
  PROVE  DiscoveryInv'
<1> USE DEF Goto, resources, functions
<1>1. UNCHANGED functions /\ pc[d] \notin Discovered
  BY DEF PciProbe, EimProbe, PciEnable, PciRevision, PciRegions, PciMask, PciBar0,
         PciBar2, ReleaseRegions, DisableDevice, EimRegion, EimIoremap, Discovered
<1>2. PICK l \in Labels \ Discovered : pc' = [pc EXCEPT ![d] = l]
  <2>1. pc = [pc EXCEPT ![d] = pc[d]] /\ pc[d] \in Labels \ Discovered
    BY <1>1 DEF DiscoveryInv, TypeOK
  <2> QED BY <2>1 DEF PciProbe, EimProbe, PciEnable, PciRevision, PciRegions,
         PciMask, PciBar0, PciBar2, ReleaseRegions, DisableDevice, EimRegion,
         EimIoremap, Discovered, Labels
<1>3. /\ enabled' \in [Devices -> BOOLEAN] /\ regions' \in [Devices -> BOOLEAN]
      /\ bar_0' \in [Devices -> BOOLEAN] /\ bar_2' \in [Devices -> BOOLEAN]
      /\ lost' \in SUBSET Devices
  BY DEF PciProbe, EimProbe, PciEnable, PciRevision, PciRegions, PciMask, PciBar0,
         PciBar2, ReleaseRegions, DisableDevice, EimRegion, EimIoremap,
         DiscoveryInv, TypeOK
<1> QED BY <1>1, <1>2, <1>3, ResourceDiscovery

\* kzalloc() of the next function, for the invariant of the discovery.
LEMMA AllocateLabels ==
  ASSUME TypeOK, NEW d \in Devices, Allocate(d)
  PROVE  /\ \E l \in {"scan", "bound"} : pc' = [pc EXCEPT ![d] = l]
         /\ ret' \in [Devices -> {-1, 0}]
         /\ \A e \in Devices : e # d => ret'[e] = ret[e]
         /\ pc'[d] = "bound" => ret'[d] = 0
BY DEF Allocate, Finish, Goto, TypeOK

\* The loop starts in front of the first block, without children.
LEMMA FunctionsInitDiscovery ==
  ASSUME DiscoveryInv, UNCHANGED bus, NEW d \in Devices, FunctionsInit(d)
  PROVE  DiscoveryInv'
<1>1. PICK l \in {"scan", "bound"} : pc' = [pc EXCEPT ![d] = l]
  BY AllocateLabels DEF FunctionsInit, DiscoveryInv
<1>2. /\ ret' \in [Devices -> {-1, 0}]
      /\ \A e \in Devices : e # d => ret'[e] = ret[e]
      /\ pc'[d] = "bound" => ret'[d] = 0
      /\ UNCHANGED <<resources, cells, children, raced>>
      /\ block' = [block EXCEPT ![d] = 1] /\ pc[d] = "init"
  BY AllocateLabels DEF FunctionsInit, DiscoveryInv
<1>3. TypeOK'
  BY <1>1, <1>2, CcatProbeAssumption DEF DiscoveryInv, TypeOK, resources, Labels
<1>4. children'[d] = {} /\ block'[d] = 1 /\ pc'[d] \in {"scan", "bound"}
  BY <1>1, <1>2 DEF DiscoveryInv, TypeOK
<1>5. {c[1] : c \in children'[d]} = {}
  BY <1>4
<1>6. {i \in 1 .. block'[d] - 1 : Blocks[i] \in Types} = {}
  BY <1>4
<1>7. Found(d)'
  BY <1>2, <1>4, <1>5, <1>6 DEF Found, Discovered
<1> QED BY <1>1, <1>2, <1>3, <1>7, DiscoveryStep DEF DiscoveryInv, TypeOK

\* The functions in front of a block.
LEMMA NextBlock ==
  ASSUME NEW b \in Nat \ {0}
  PROVE  {i \in 1 .. (b + 1) - 1 : Blocks[i] \in Types}
           = {i \in 1 .. b - 1 : Blocks[i] \in Types}
             \cup (IF Blocks[b] \in Types THEN {b} ELSE {})
<1>1. ASSUME NEW i
      PROVE  i \in 1 .. (b + 1) - 1 <=> i \in 1 .. b - 1 \/ i = b
  OBVIOUS
<1> QED BY <1>1

\* The functions that are being connected have a block.
LEMMA WaitingType ==
  ASSUME DiscoveryInv, NEW d \in Devices
  PROVE  Waiting(d) \subseteq Devices \X (1 .. Len(Blocks))
<1>1. ASSUME NEW e \in Devices, pc[e] = "connect" PROVE block[e] \in 1 .. Len(Blocks)
  BY <1>1, CcatProbeAssumption DEF DiscoveryInv, TypeOK
<1> QED BY <1>1 DEF Waiting

\* A turn of the loop connects a function or there is none in the block.
LEMMA ScanDiscovery ==
  ASSUME DiscoveryInv, UNCHANGED bus, NEW d \in Devices, Scan(d)
  PROVE  DiscoveryInv'
<1>1. /\ Len(Blocks) \in Nat /\ block[d] \in 1 .. Len(Blocks) + 1
      /\ pc[d] = "scan" /\ UNCHANGED <<resources, children>>
      /\ TypeOK
  BY CcatProbeAssumption DEF DiscoveryInv, TypeOK, Scan
<1>2. {c[1] : c \in children[d]} = {i \in 1 .. block[d] - 1 : Blocks[i] \in Types}
  BY <1>1 DEF DiscoveryInv, FunctionsFound
<1>3. CASE block[d] > Len(Blocks)
  <2>0. Finish(d, 0) /\ UNCHANGED <<block, cells, raced>>
    BY <1>1, <1>3 DEF Scan
  <2>1. /\ pc' = [pc EXCEPT ![d] = "bound"]
        /\ ret' \in [Devices -> {-1, 0}] /\ ret'[d] = 0
        /\ \A e \in Devices : e # d => ret'[e] = ret[e]
        /\ UNCHANGED <<block, cells, raced>>
    BY <1>1, <2>0 DEF Finish, Goto, TypeOK
  <2>2. TypeOK'
    BY <1>1, <2>1 DEF TypeOK, Labels, resources
  <2>3. Found(d)'
    BY <1>1, <1>2, <2>1 DEF Found, Discovered, TypeOK
  <2> QED BY <1>1, <2>1, <2>2, <2>3, DiscoveryStep DEF TypeOK
<1>4. CASE block[d] <= Len(Blocks) /\ Blocks[block[d]] \in Types
  <2>1. /\ pc' = [pc EXCEPT ![d] = "connect"]
        /\ cells' = [cells EXCEPT ![Blocks[block[d]]] = <<d, block[d]>>]
        /\ raced' = (raced \ {<<d, block[d]>>}) \cup Waiting(d)
        /\ UNCHANGED <<block, ret>>
    BY <1>1, <1>4, CcatProbeAssumption DEF Scan, Cell, Goto
  <2>2. block[d] \in 1 .. Len(Blocks) /\ <<d, block[d]>> # None
    BY <1>1, <1>4, CcatProbeAssumption
  <2>3. cells' \in [Types -> (Devices \X (1 .. Len(Blocks))) \cup {None}]
    BY <1>1, <1>4, <2>1, <2>2 DEF TypeOK
  <2>t. raced' \in SUBSET (Devices \X (1 .. Len(Blocks)))
    <3>1. Waiting(d) \subseteq Devices \X (1 .. Len(Blocks))
      BY WaitingType
    <3> QED BY <1>1, <2>1, <3>1 DEF TypeOK
  <2>4. TypeOK'
    BY <1>1, <2>1, <2>3, <2>t DEF TypeOK, Labels, resources
  <2>5. \A t \in Types : cells[t] # None => cells'[t] # None
    BY <1>1, <2>1, <2>2 DEF TypeOK
  <2>6. cells'[Blocks[block[d]]] # None
    BY <1>1, <1>4, <2>1, <2>2 DEF TypeOK
  <2>7. Found(d)'
    BY <1>1, <1>2, <1>4, <2>1, <2>6 DEF Found, Discovered, TypeOK
  <2> QED BY <1>1, <2>1, <2>4, <2>5, <2>7, DiscoveryStep DEF TypeOK
<1>5. CASE block[d] <= Len(Blocks) /\ Blocks[block[d]] \notin Types
  <2>1. /\ block' = [block EXCEPT ![d] = block[d] + 1]
        /\ UNCHANGED <<cells, raced>>
        /\ Allocate(d) \/ UNCHANGED <<pc, ret>>
    BY <1>1, <1>5 DEF Scan, TypeOK
  <2>2. block' \in [Devices -> 1 .. Len(Blocks) + 1] /\ block'[d] = block[d] + 1
    BY <1>1, <1>5, <2>1 DEF TypeOK
  <2>3. /\ \E l \in {"scan", "bound"} : pc' = [pc EXCEPT ![d] = l]
        /\ ret' \in [Devices -> {-1, 0}]
        /\ \A e \in Devices : e # d => ret'[e] = ret[e]
        /\ pc'[d] = "bound" => ret'[d] = 0
    <3>1. CASE Allocate(d)
      BY <1>1, <3>1, AllocateLabels
    <3>2. CASE UNCHANGED <<pc, ret>>
      BY <1>1, <3>2 DEF TypeOK
    <3> QED BY <2>1, <3>1, <3>2
  <2>4. PICK l \in {"scan", "bound"} : pc' = [pc EXCEPT ![d] = l]
    BY <2>3
  <2>5. TypeOK'
    BY <1>1, <2>1, <2>2, <2>3, <2>4 DEF TypeOK, Labels, resources
  <2>6. {i \in 1 .. block'[d] - 1 : Blocks[i] \in Types}
          = {i \in 1 .. block[d] - 1 : Blocks[i] \in Types}
    BY <1>1, <1>5, <2>2, NextBlock
  <2>7. Found(d)'
    BY <1>1, <1>2, <2>3, <2>4, <2>6 DEF Found, Discovered, TypeOK
  <2> QED BY <1>1, <2>1, <2>3, <2>4, <2>5, <2>7, DiscoveryStep DEF TypeOK
<1> QED BY <1>1, <1>3, <1>4, <1>5

\* mfd_add_devices() adds the function of the block, or the loop ends there.
LEMMA ConnectDiscovery ==
  ASSUME DiscoveryInv, UNCHANGED bus, NEW d \in Devices, Connect(d)
  PROVE  DiscoveryInv'
<1>1. /\ Len(Blocks) \in Nat /\ block[d] \in 1 .. Len(Blocks)
      /\ pc[d] = "connect" /\ UNCHANGED <<resources, cells, raced>>
      /\ Blocks[block[d]] \in Types /\ TypeOK
  BY CcatProbeAssumption DEF DiscoveryInv, TypeOK, Connect
<1>2. {c[1] : c \in children[d]} = {i \in 1 .. block[d] - 1 : Blocks[i] \in Types}
  BY <1>1 DEF DiscoveryInv, FunctionsFound
<1>3. PICK p \in Devices \X (1 .. Len(Blocks)) : p = cells[Blocks[block[d]]]
  BY <1>1 DEF DiscoveryInv, TypeOK
<1>4. CASE children' = [children EXCEPT ![d] =
                          children[d] \cup {<<block[d], cells[Blocks[block[d]]]>>}]
           /\ block' = [block EXCEPT ![d] = block[d] + 1]
           /\ Allocate(d)
  <2>1. children'[d] = children[d] \cup {<<block[d], p>>}
    BY <1>1, <1>3, <1>4 DEF TypeOK
  <2>2. children' \in [Devices ->
          SUBSET ((1 .. Len(Blocks)) \X (Devices \X (1 .. Len(Blocks))))]
    BY <1>1, <1>3, <1>4 DEF TypeOK
  <2>3. block' \in [Devices -> 1 .. Len(Blocks) + 1] /\ block'[d] = block[d] + 1
    BY <1>1, <1>4 DEF TypeOK
  <2>4. PICK l \in {"scan", "bound"} : pc' = [pc EXCEPT ![d] = l]
    BY <1>1, <1>4, AllocateLabels
  <2>5. /\ ret' \in [Devices -> {-1, 0}]
        /\ \A e \in Devices : e # d => ret'[e] = ret[e]
        /\ pc'[d] = "bound" => ret'[d] = 0
    BY <1>1, <1>4, AllocateLabels
  <2>6. TypeOK'
    BY <1>1, <2>2, <2>3, <2>4, <2>5 DEF TypeOK, Labels, resources
  <2>7. {c[1] : c \in children'[d]} = {c[1] : c \in children[d]} \cup {block[d]}
    <3>1. <<block[d], p>>[1] = block[d]
      OBVIOUS
    <3> QED BY <2>1, <3>1, Zenon
  <2>8. {i \in 1 .. block'[d] - 1 : Blocks[i] \in Types}
          = {i \in 1 .. block[d] - 1 : Blocks[i] \in Types} \cup {block[d]}
    BY <1>1, <2>3, NextBlock
  <2>9. Found(d)'
    <3>1. pc'[d] \in {"scan", "bound"} /\ ~(pc'[d] = "bound" /\ ret'[d] < 0)
      BY <1>1, <2>4, <2>5 DEF TypeOK
    <3> QED BY <1>2, <2>7, <2>8, <3>1, SMTT(20) DEF Found, Discovered
  <2> QED BY <1>1, <1>4, <2>4, <2>5, <2>6, <2>9, DiscoveryStep DEF TypeOK
<1>5. CASE Finish(d, -1) /\ UNCHANGED <<block, children>>
  <2>1. /\ pc' = [pc EXCEPT ![d] = "bound"] /\ ret' \in [Devices -> {-1, 0}]
        /\ \A e \in Devices : e # d => ret'[e] = ret[e]
    BY <1>1, <1>5 DEF Finish, Goto, TypeOK
  <2>2. TypeOK'
    BY <1>1, <1>5, <2>1 DEF TypeOK, Labels, resources
  <2>3. Found(d)'
    BY <1>1, <1>2, <1>5, <2>1 DEF Found, Discovered, TypeOK
  <2> QED BY <1>1, <1>5, <2>1, <2>2, <2>3, DiscoveryStep DEF TypeOK
<1> QED BY <1>4, <1>5 DEF Connect

\* A removal takes all children away first.
LEMMA RemoveDiscovery ==
  ASSUME DiscoveryInv, UNCHANGED bus, NEW d \in Devices,
         RemoveDevices(d) \/ Unmap(d)
  PROVE  DiscoveryInv'
<1>1. PICK l \in {"unmap", "unbound"} : pc' = [pc EXCEPT ![d] = l]
  BY DEF RemoveDevices, Unmap, Goto
<1>2. TypeOK'
  <2>1. CASE RemoveDevices(d)
    BY <1>1, <2>1 DEF RemoveDevices, DiscoveryInv, TypeOK, Labels, resources
  <2>2. CASE Unmap(d)
    BY <1>1, <2>2, CcatProbeAssumption DEF Unmap, DiscoveryInv, TypeOK, Labels
  <2> QED BY <2>1, <2>2
<1>3. /\ children'[d] = {} /\ UNCHANGED cells
      /\ \A e \in Devices : e # d =>
           children'[e] = children[e] /\ block'[e] = block[e] /\ ret'[e] = ret[e]
  BY DEF RemoveDevices, Unmap, DiscoveryInv, TypeOK, Goto
<1>4. Found(d)'
  BY <1>1, <1>3 DEF Found, Discovered, DiscoveryInv, TypeOK
<1> QED BY <1>1, <1>2, <1>3, <1>4, DiscoveryStep DEF DiscoveryInv, TypeOK

\* The discovery leaves no gap, in any order of probes and removals and
\* whatever fails.
THEOREM DiscoveryInvariant == Spec => []DiscoveryInv
<1>1. Init => DiscoveryInv
  <2> SUFFICES ASSUME Init PROVE DiscoveryInv
    OBVIOUS
  <2>1. TypeOK
    BY InitType
  <2> QED BY <2>1 DEF Init, DiscoveryInv, FunctionsFound
<1>2. DiscoveryInv /\ [Next]_vars => DiscoveryInv'
  <2> SUFFICES ASSUME DiscoveryInv, [Next]_vars PROVE DiscoveryInv'
    OBVIOUS
  <2>1. CASE UNCHANGED vars
    BY <2>1 DEF vars, DiscoveryInv, TypeOK, FunctionsFound
  <2>2. CASE Next
    <3> UNCHANGED bus
      BY <2>2 DEF Next
    <3> PICK d \in Devices : Step(d)
      BY <2>2 DEF Next
    <3> QED
      BY ProbeDiscovery, FunctionsInitDiscovery, ScanDiscovery,
         ConnectDiscovery, RemoveDiscovery DEF Step
  <2> QED BY <2>1, <2>2
<1> QED BY <1>1, <1>2, PTL DEF Spec

\* ccat_functions_init() has connected exactly the functions in front of the
\* block it has come to.
THEOREM EveryFunctionFound == Spec => []FunctionsFound
<1>1. DiscoveryInv => FunctionsFound
  BY DEF DiscoveryInv
<1> QED BY <1>1, DiscoveryInvariant, PTL

(***************************************************************************)
(* What a CCAT holds                                                       *)
(***************************************************************************)

\* What a step of another CCAT leaves alone
Untouched(e) ==
  /\ pc'[e] = pc[e]
  /\ enabled'[e] = enabled[e] /\ regions'[e] = regions[e]
  /\ bar_0'[e] = bar_0[e] /\ bar_2'[e] = bar_2[e]
  /\ e \in lost' <=> e \in lost
  /\ children'[e] = children[e]

\* Nothing is held and no cell is filled in initially.
LEMMA InitIndInv == Init => IndInv
<1> SUFFICES ASSUME Init PROVE IndInv
  OBVIOUS
<1>1. TypeOK
  BY InitType
<1>2. OneRegion /\ OwnPlatformData /\ raced = {}
  BY DEF Init, OneRegion, OwnPlatformData
<1>3. \A d \in Devices : Holds(d) /\ CellFilled(d)
  BY DEF Init, Holds, CellFilled
<1> QED BY <1>1, <1>2, <1>3 DEF IndInv

\* What a CCAT holds does not depend on the others.
LEMMA HoldsAlone ==
  ASSUME IndInv, UNCHANGED bus, NEW e \in Devices, Untouched(e)
  PROVE  Holds(e)'
BY DEF IndInv, Holds, Untouched

\* A step of d that leaves the functions alone preserves the invariant if it
\* does so for what d holds.
LEMMA ResourceStep ==
  ASSUME IndInv, TypeOK', UNCHANGED bus, NEW d \in Devices,
         NEW l \in Labels \ {"connect"}, pc' = [pc EXCEPT ![d] = l],
         \A e \in Devices : e # d => Untouched(e),
         UNCHANGED functions, OneRegion', Holds(d)'
  PROVE  IndInv'
<1>1. OwnPlatformData' /\ (bus' = "eim" => raced' = {})
  BY DEF IndInv, OwnPlatformData, functions
<1>2. \A e \in Devices : Holds(e)'
  BY HoldsAlone
<1>3. ASSUME NEW e \in Devices PROVE CellFilled(e)'
  <2>1. CASE e = d
    BY <2>1 DEF CellFilled, IndInv, TypeOK
  <2>2. CASE e # d
    <3>1. pc'[e] = pc[e]
      BY <2>2 DEF Untouched
    <3> QED BY <3>1 DEF CellFilled, IndInv, functions
  <2> QED BY <2>1, <2>2
<1> QED BY <1>1, <1>2, <1>3 DEF IndInv

\* pci_enable_device_mem(): the CCAT has nothing else yet.
LEMMA PciEnablePreserves ==
  ASSUME IndInv, TypeOK', UNCHANGED bus, NEW d \in Devices, bus = "pci",
         PciEnable(d)
  PROVE  IndInv'
<1>1. PICK l \in {"rev", "unbound"} : pc' = [pc EXCEPT ![d] = l]
  BY DEF PciEnable, Goto, IndInv, TypeOK
<1>2. UNCHANGED functions /\ \A e \in Devices : e # d => Untouched(e)
  BY DEF PciEnable, Goto, Untouched, resources, functions, IndInv, TypeOK
<1>3. Holds(d)'
  BY DEF PciEnable, Goto, resources, functions, Holds, IndInv, TypeOK, MayFail
<1>4. OneRegion'
  BY DEF OneRegion
<1>5. l \in Labels \ {"connect"}
  BY DEF Labels
<1> QED BY <1>1, <1>2, <1>3, <1>4, <1>5, ResourceStep

\* After a failure only the device is enabled.
LEMMA PciRevisionPreserves ==
  ASSUME IndInv, TypeOK', UNCHANGED bus, NEW d \in Devices, bus = "pci",
         PciRevision(d)
  PROVE  IndInv'
<1>1. PICK l \in {"regions", "disable_device"} : pc' = [pc EXCEPT ![d] = l]
  BY Zenon DEF PciRevision, Goto
<1>2. UNCHANGED functions /\ \A e \in Devices : e # d => Untouched(e)
  BY DEF PciRevision, Goto, Untouched, resources, functions, IndInv, TypeOK
<1>3. Holds(d)'
  BY DEF PciRevision, Goto, resources, functions, Holds, IndInv, TypeOK, MayFail
<1>4. OneRegion'
  BY DEF OneRegion
<1>5. l \in Labels \ {"connect"}
  BY DEF Labels
<1> QED BY <1>1, <1>2, <1>3, <1>4, <1>5, ResourceStep

\* The regions are free, as d holds none here.
LEMMA PciRegionsPreserves ==
  ASSUME IndInv, TypeOK', UNCHANGED bus, NEW d \in Devices, bus = "pci",
         PciRegions(d)
  PROVE  IndInv'
<1>1. PICK l \in {"mask", "disable_device"} : pc' = [pc EXCEPT ![d] = l]
  BY Zenon DEF PciRegions, Goto
<1>2. UNCHANGED functions /\ \A e \in Devices : e # d => Untouched(e)
  BY DEF PciRegions, Goto, Untouched, resources, functions, IndInv, TypeOK
<1>3. Holds(d)'
  BY DEF PciRegions, Goto, resources, functions, Holds, IndInv, TypeOK, MayFail
<1>4. OneRegion'
  BY DEF OneRegion
<1>5. l \in Labels \ {"connect"}
  BY DEF Labels
<1> QED BY <1>1, <1>2, <1>3, <1>4, <1>5, ResourceStep

\* After a failure the regions are still to be released.
LEMMA PciMaskPreserves ==
  ASSUME IndInv, TypeOK', UNCHANGED bus, NEW d \in Devices, bus = "pci",
         PciMask(d)
  PROVE  IndInv'
<1>1. PICK l \in {"bar0", "release_regions"} : pc' = [pc EXCEPT ![d] = l]
  BY Zenon DEF PciMask, Goto
<1>2. UNCHANGED functions /\ \A e \in Devices : e # d => Untouched(e)
  BY DEF PciMask, Goto, Untouched, resources, functions, IndInv, TypeOK
<1>3. Holds(d)'
  BY DEF PciMask, Goto, resources, functions, Holds, IndInv, TypeOK, MayFail
<1>4. OneRegion'
  BY DEF OneRegion
<1>5. l \in Labels \ {"connect"}
  BY DEF Labels
<1> QED BY <1>1, <1>2, <1>3, <1>4, <1>5, ResourceStep

\* bar_0 is mapped, or the regions are still to be released.
LEMMA PciBar0Preserves ==
  ASSUME IndInv, TypeOK', UNCHANGED bus, NEW d \in Devices, bus = "pci",
         PciBar0(d)
  PROVE  IndInv'
<1>1. PICK l \in {"bar2", "release_regions"} : pc' = [pc EXCEPT ![d] = l]
  BY Zenon DEF PciBar0, Goto
<1>2. UNCHANGED functions /\ \A e \in Devices : e # d => Untouched(e)
  BY DEF PciBar0, Goto, Untouched, resources, functions, IndInv, TypeOK
<1>3. Holds(d)'
  <2>1. /\ pc[d] = "bar0" /\ pc'[d] = l
        /\ UNCHANGED <<enabled, regions, bar_2, lost, children>>
    BY <1>1 DEF PciBar0, functions, IndInv, TypeOK
  <2>2. CASE bar_0' = [bar_0 EXCEPT ![d] = TRUE] /\ pc'[d] = "bar2"
    <3>1. bar_0'[d]
      BY <2>2 DEF IndInv, TypeOK
    <3> QED BY <2>1, <2>2, <3>1 DEF Holds, IndInv
  <2>3. CASE UNCHANGED bar_0 /\ pc'[d] = "release_regions"
    BY <2>1, <2>3 DEF Holds, IndInv
  <2> QED BY <2>2, <2>3 DEF PciBar0, Goto, IndInv, TypeOK
<1>4. OneRegion'
  BY DEF OneRegion
<1>5. l \in Labels \ {"connect"}
  BY DEF Labels
<1> QED BY <1>1, <1>2, <1>3, <1>4, <1>5, ResourceStep

\* bar_2 is optional.
LEMMA PciBar2Preserves ==
  ASSUME IndInv, TypeOK', UNCHANGED bus, NEW d \in Devices, bus = "pci",
         PciBar2(d)
  PROVE  IndInv'
<1>1. PICK l \in {"init"} : pc' = [pc EXCEPT ![d] = l]
  BY Zenon DEF PciBar2, Goto
<1>2. UNCHANGED functions /\ \A e \in Devices : e # d => Untouched(e)
  BY DEF PciBar2, Goto, Untouched, resources, functions, IndInv, TypeOK
<1>3. Holds(d)'
  BY DEF PciBar2, Goto, resources, functions, Holds, IndInv, TypeOK, MayFail
<1>4. OneRegion'
  BY DEF OneRegion
<1>5. l \in Labels \ {"connect"}
  BY DEF Labels
<1> QED BY <1>1, <1>2, <1>3, <1>4, <1>5, ResourceStep

\* What is left is the enabled device.
LEMMA ReleaseRegionsPreserves ==
  ASSUME IndInv, TypeOK', UNCHANGED bus, NEW d \in Devices, bus = "pci",
         ReleaseRegions(d)
  PROVE  IndInv'
<1>1. PICK l \in {"disable_device"} : pc' = [pc EXCEPT ![d] = l]
  BY Zenon DEF ReleaseRegions, Goto
<1>2. UNCHANGED functions /\ \A e \in Devices : e # d => Untouched(e)
  BY DEF ReleaseRegions, Goto, Untouched, resources, functions, IndInv, TypeOK
<1>3. Holds(d)'
  BY DEF ReleaseRegions, Goto, resources, functions, Holds, IndInv, TypeOK, MayFail
<1>4. OneRegion'
  BY DEF OneRegion
<1>5. l \in Labels \ {"connect"}
  BY DEF Labels
<1> QED BY <1>1, <1>2, <1>3, <1>4, <1>5, ResourceStep

\* Nothing is left.
LEMMA DisableDevicePreserves ==
  ASSUME IndInv, TypeOK', UNCHANGED bus, NEW d \in Devices, bus = "pci",
         DisableDevice(d)
  PROVE  IndInv'
<1>1. PICK l \in {"unbound"} : pc' = [pc EXCEPT ![d] = l]
  BY Zenon DEF DisableDevice, Goto
<1>2. UNCHANGED functions /\ \A e \in Devices : e # d => Untouched(e)
  BY DEF DisableDevice, Goto, Untouched, resources, functions, IndInv, TypeOK
<1>3. Holds(d)'
  BY DEF DisableDevice, Goto, resources, functions, Holds, IndInv, TypeOK, MayFail
<1>4. OneRegion'
  BY DEF OneRegion
<1>5. l \in Labels \ {"connect"}
  BY DEF Labels
<1> QED BY <1>1, <1>2, <1>3, <1>4, <1>5, ResourceStep

\* The region is requested only if no CCAT has it.
LEMMA EimRegionPreserves ==
  ASSUME IndInv, TypeOK', UNCHANGED bus, NEW d \in Devices, bus = "eim",
         EimRegion(d)
  PROVE  IndInv'
<1>1. PICK l \in {"ioremap", "unbound"} : pc' = [pc EXCEPT ![d] = l]
  BY DEF EimRegion, Goto, IndInv, TypeOK
<1>2. UNCHANGED functions /\ \A e \in Devices : e # d => Untouched(e)
  BY DEF EimRegion, Goto, Untouched, resources, functions, IndInv, TypeOK
<1>3. Holds(d)'
  BY DEF EimRegion, Goto, resources, functions, Holds, IndInv, TypeOK, MayFail
<1>4. OneRegion'
  BY DEF EimRegion, OneRegion, IndInv, TypeOK
<1>5. l \in Labels \ {"connect"}
  BY DEF Labels
<1> QED BY <1>1, <1>2, <1>3, <1>4, <1>5, ResourceStep

\* A failed ioremap() keeps the region, and the CCAT counts as lost.
LEMMA EimIoremapPreserves ==
  ASSUME IndInv, TypeOK', UNCHANGED bus, NEW d \in Devices, bus = "eim",
         EimIoremap(d)
  PROVE  IndInv'
<1>1. PICK l \in {"init", "unbound"} : pc' = [pc EXCEPT ![d] = l]
  BY Zenon DEF EimIoremap, Goto
<1>2. UNCHANGED functions /\ \A e \in Devices : e # d => Untouched(e)
  BY DEF EimIoremap, Goto, Untouched, resources, functions, IndInv, TypeOK
<1>3. Holds(d)'
  BY DEF EimIoremap, Goto, resources, functions, Holds, IndInv, TypeOK, MayFail
<1>4. OneRegion'
  BY DEF EimIoremap, OneRegion, IndInv, TypeOK
<1>5. l \in Labels \ {"connect"}
  BY DEF Labels
<1> QED BY <1>1, <1>2, <1>3, <1>4, <1>5, ResourceStep

(***************************************************************************)
(* The cells                                                               *)
(***************************************************************************)

\* What OwnPlatformData says of one child
Own(d, c) ==
  /\ c[2] = <<d, c[1]>> \/ (bus = "pci" /\ <<d, c[1]>> \in raced)
  /\ Blocks[c[2][2]] = Blocks[c[1]]

\* A step of d in ccat_functions_init(), or of its removal, is looked at for the
\* functions of d and for the cells the others wait with.
LEMMA FunctionStep ==
  ASSUME IndInv, TypeOK', UNCHANGED bus, NEW d \in Devices,
         UNCHANGED resources,
         \A e \in Devices : e # d => pc'[e] = pc[e] /\ children'[e] = children[e],
         \A p \in raced : p[1] # d => p \in raced',
         bus = "eim" => raced' = {},
         \A c \in children'[d] : Own(d, c)',
         \A e \in Devices : CellFilled(e)',
         Holds(d)'
  PROVE  IndInv'
<1>1. OneRegion'
  BY DEF IndInv, OneRegion, resources
<1>2. ASSUME NEW e \in Devices, e # d, NEW c \in children'[e] PROVE Own(e, c)'
  <2>1. Own(e, c)
    BY <1>2 DEF IndInv, OwnPlatformData, Own
  <2>2. <<e, c[1]>> \in raced => <<e, c[1]>> \in raced'
    BY <1>2
  <2> QED BY <2>1, <2>2 DEF Own
<1>3. OwnPlatformData'
  BY <1>2 DEF OwnPlatformData, Own
<1>4. ASSUME NEW e \in Devices, e # d PROVE Untouched(e)
  BY <1>4 DEF Untouched, resources
<1>5. \A e \in Devices : Holds(e)'
  BY <1>4, HoldsAlone
<1> QED BY <1>1, <1>3, <1>5 DEF IndInv

\* As long as the cells stay the same, the others keep theirs.
LEMMA CellsStay ==
  ASSUME IndInv, NEW d \in Devices, UNCHANGED <<cells, raced>>,
         \A e \in Devices : e # d => pc'[e] = pc[e] /\ block'[e] = block[e],
         pc'[d] # "connect"
  PROVE  \A e \in Devices : CellFilled(e)'
BY DEF IndInv, CellFilled

\* The first allocation; there are no children yet.
LEMMA FunctionsInitPreserves ==
  ASSUME IndInv, TypeOK', UNCHANGED bus, NEW d \in Devices, FunctionsInit(d)
  PROVE  IndInv'
<1>1. PICK l \in {"scan", "bound"} : pc' = [pc EXCEPT ![d] = l]
  BY AllocateLabels DEF FunctionsInit, IndInv
<1>2. UNCHANGED <<resources, cells, children, raced>> /\ pc[d] = "init"
  BY DEF FunctionsInit
<1>3. /\ \A e \in Devices : e # d =>
           pc'[e] = pc[e] /\ block'[e] = block[e] /\ children'[e] = children[e]
      /\ pc'[d] = l
  BY <1>1, <1>2 DEF FunctionsInit, IndInv, TypeOK
<1>4. Holds(d)'
  BY <1>2, <1>3 DEF Holds, IndInv, resources
<1>5. \A e \in Devices : CellFilled(e)'
  BY <1>2, <1>3, CellsStay
<1>6. /\ \A c \in children'[d] : Own(d, c)'
      /\ \A p \in raced : p \in raced'
      /\ bus = "eim" => raced' = {}
  BY <1>2 DEF IndInv, OwnPlatformData, Own
<1> QED BY <1>2, <1>3, <1>4, <1>5, <1>6, FunctionStep

\* On EIM no other CCAT is as far as the cells.
LEMMA AloneOnEim ==
  ASSUME IndInv, NEW d \in Devices, bus = "eim", regions[d]
  PROVE  Waiting(d) = {}
<1>1. ASSUME NEW e \in Devices \ {d} PROVE pc[e] # "connect"
  <2>1. ~regions[e]
    BY DEF IndInv, OneRegion
  <2> QED BY <2>1 DEF IndInv, Holds
<1> QED BY <1>1 DEF Waiting

\* Filling in a cell: the others that wait with it are marked as raced.
LEMMA FillPreserves ==
  ASSUME IndInv, DiscoveryInv, TypeOK', UNCHANGED bus, NEW d \in Devices,
         pc[d] = "scan", block[d] \in 1 .. Len(Blocks), Blocks[block[d]] \in Types,
         pc' = [pc EXCEPT ![d] = "connect"],
         cells' = [cells EXCEPT ![Blocks[block[d]]] = <<d, block[d]>>],
         raced' = (raced \ {<<d, block[d]>>}) \cup Waiting(d),
         UNCHANGED <<resources, block, children>>
  PROVE  IndInv'
<1>1. /\ \A e \in Devices : e # d => pc'[e] = pc[e] /\ children'[e] = children[e]
      /\ pc'[d] = "connect"
  BY DEF IndInv, TypeOK
<1>2. \A p \in raced : p[1] # d => p \in raced'
  OBVIOUS
<1>3. regions[d] /\ Holds(d)'
  BY <1>1 DEF IndInv, Holds, resources
<1>4. bus = "eim" => raced' = {}
  BY <1>3, AloneOnEim DEF IndInv
<1>5. ASSUME NEW c \in children'[d] PROVE Own(d, c)'
  <2>1. c[1] # block[d]
    <3>1. c[1] \in {i \in 1 .. block[d] - 1 : Blocks[i] \in Types}
      BY <1>5 DEF DiscoveryInv, FunctionsFound
    <3> QED BY <3>1
  <2>2. Own(d, c)
    BY <1>5 DEF IndInv, OwnPlatformData, Own
  <2>3. <<d, c[1]>> # <<d, block[d]>>
    BY <2>1
  <2> QED BY <2>2, <2>3 DEF Own
<1>6. ASSUME NEW e \in Devices PROVE CellFilled(e)'
  <2>1. CASE e = d
    BY <1>1, <2>1 DEF CellFilled, IndInv, TypeOK
  <2>2. CASE e # d /\ pc[e] = "connect" /\ Blocks[block[e]] = Blocks[block[d]]
    <3>1. <<e, block[e]>> \in raced'
      BY <2>2 DEF Waiting
    <3>2. cells'[Blocks[block[e]]] = <<d, block[d]>>
      BY <2>2 DEF IndInv, TypeOK
    <3> QED BY <2>2, <3>1, <3>2, SMTT(20) DEF CellFilled, IndInv
  <2>3. CASE e # d /\ pc[e] = "connect" /\ Blocks[block[e]] # Blocks[block[d]]
    <3>1. cells'[Blocks[block[e]]] = cells[Blocks[block[e]]]
      BY <2>3 DEF IndInv, TypeOK, CellFilled
    <3>2. <<e, block[e]>> \in raced => <<e, block[e]>> \in raced'
      BY <1>2, <2>3
    <3> QED BY <2>3, <3>1, <3>2, SMTT(20) DEF CellFilled, IndInv
  <2>4. CASE e # d /\ pc[e] # "connect"
    BY <1>1, <2>4 DEF CellFilled
  <2> QED BY <2>1, <2>2, <2>3, <2>4
<1> QED BY <1>1, <1>2, <1>3, <1>4, <1>5, <1>6, FunctionStep

\* A turn of the loop: the end, the cell of a known type, or the next block.
LEMMA ScanPreserves ==
  ASSUME IndInv, DiscoveryInv, TypeOK', UNCHANGED bus, NEW d \in Devices, Scan(d)
  PROVE  IndInv'
<1>1. /\ Len(Blocks) \in Nat /\ block[d] \in 1 .. Len(Blocks) + 1
      /\ pc[d] = "scan" /\ UNCHANGED <<resources, children>>
  BY CcatProbeAssumption DEF IndInv, TypeOK, Scan
<1>2. CASE block[d] <= Len(Blocks) /\ Blocks[block[d]] \in Types
  <2>1. /\ pc' = [pc EXCEPT ![d] = "connect"]
        /\ cells' = [cells EXCEPT ![Blocks[block[d]]] = <<d, block[d]>>]
        /\ raced' = (raced \ {<<d, block[d]>>}) \cup Waiting(d)
        /\ UNCHANGED block
    BY <1>1, <1>2, CcatProbeAssumption DEF Scan, Cell, Goto
  <2>2. block[d] \in 1 .. Len(Blocks)
    BY <1>1, <1>2
  <2> QED BY <1>1, <1>2, <2>1, <2>2, FillPreserves
<1>3. CASE ~(block[d] <= Len(Blocks) /\ Blocks[block[d]] \in Types)
  <2>1. /\ UNCHANGED <<cells, raced>>
        /\ \A e \in Devices : e # d => block'[e] = block[e]
        /\ Allocate(d) \/ UNCHANGED pc \/ Finish(d, 0)
    BY <1>1, <1>3 DEF Scan, IndInv, TypeOK
  <2>2. PICK l \in {"scan", "bound"} : pc' = [pc EXCEPT ![d] = l]
    <3>1. CASE Allocate(d)
      BY <3>1, AllocateLabels DEF IndInv
    <3>2. CASE UNCHANGED pc
      BY <1>1, <3>2 DEF IndInv, TypeOK
    <3>3. CASE Finish(d, 0)
      BY <3>3 DEF Finish, Goto
    <3> QED BY <2>1, <3>1, <3>2, <3>3
  <2>3. /\ \A e \in Devices : e # d => pc'[e] = pc[e] /\ children'[e] = children[e]
        /\ pc'[d] = l
    BY <1>1, <2>2 DEF IndInv, TypeOK
  <2>4. Holds(d)'
    BY <1>1, <2>3 DEF Holds, IndInv, resources
  <2>5. \A e \in Devices : CellFilled(e)'
    BY <2>1, <2>3, CellsStay
  <2>6. /\ \A c \in children'[d] : Own(d, c)'
        /\ \A p \in raced : p \in raced'
        /\ bus = "eim" => raced' = {}
    BY <1>1, <2>1 DEF IndInv, OwnPlatformData, Own
  <2> QED BY <1>1, <2>3, <2>4, <2>5, <2>6, FunctionStep
<1> QED BY <1>2, <1>3

\* The child gets what the cell holds: its own block, or a block of its type if
\* another CCAT came in between.
LEMMA ConnectPreserves ==
  ASSUME IndInv, TypeOK', UNCHANGED bus, NEW d \in Devices, Connect(d)
  PROVE  IndInv'
<1> PICK cell : cell = cells[Blocks[block[d]]]
  OBVIOUS
<1> PICK new : new = <<block[d], cell>>
  OBVIOUS
<1>1. pc[d] = "connect" /\ UNCHANGED <<resources, cells, raced>>
  BY DEF Connect
<1>2. Own(d, new)'
  <2>1. /\ cell = <<d, block[d]>> \/ <<d, block[d]>> \in raced
        /\ Blocks[cell[2]] = Blocks[block[d]]
    BY <1>1 DEF IndInv, CellFilled
  <2>2. bus = "eim" => raced = {}
    BY DEF IndInv
  <2>3. new[1] = block[d] /\ new[2] = cell
    OBVIOUS
  <2>4. bus = "pci" \/ bus = "eim"
    BY DEF IndInv, TypeOK
  <2>5. UNCHANGED raced
    BY <1>1
  <2> QED BY <2>1, <2>2, <2>3, <2>4, <2>5 DEF Own
<1>3. PICK l \in {"scan", "bound"} : pc' = [pc EXCEPT ![d] = l]
  BY AllocateLabels DEF Connect, Finish, Goto, IndInv
<1>4. /\ \A e \in Devices : e # d =>
           pc'[e] = pc[e] /\ block'[e] = block[e] /\ children'[e] = children[e]
      /\ pc'[d] = l
  BY <1>3 DEF Connect, IndInv, TypeOK
<1>5. children'[d] \subseteq children[d] \cup {new}
  BY DEF Connect, IndInv, TypeOK
<1>6. ASSUME NEW c \in children'[d] PROVE Own(d, c)'
  <2>1. CASE c = new
    BY <1>2, <2>1
  <2>2. CASE c \in children[d]
    BY <1>1, <2>2 DEF IndInv, OwnPlatformData, Own
  <2> QED BY <1>5, <1>6, <2>1, <2>2
<1>7. Holds(d)'
  BY <1>1, <1>4 DEF Holds, IndInv, resources
<1>8. \A e \in Devices : CellFilled(e)'
  BY <1>1, <1>4, CellsStay
<1>9. (\A p \in raced : p \in raced') /\ (bus = "eim" => raced' = {})
  BY <1>1 DEF IndInv
<1> QED BY <1>1, <1>4, <1>6, <1>7, <1>8, <1>9, FunctionStep

\* mfd_remove_devices(): everything is still mapped.
LEMMA RemoveDevicesPreserves ==
  ASSUME IndInv, TypeOK', UNCHANGED bus, NEW d \in Devices, RemoveDevices(d)
  PROVE  IndInv'
<1>1. pc[d] = "bound" /\ UNCHANGED <<resources, block, cells, raced>>
  BY DEF RemoveDevices
<1>2. /\ \A e \in Devices : e # d => pc'[e] = pc[e] /\ children'[e] = children[e]
      /\ pc'[d] = "unmap" /\ children'[d] = {}
  BY DEF RemoveDevices, Goto, IndInv, TypeOK
<1>3. Holds(d)'
  BY <1>1, <1>2 DEF Holds, IndInv, resources
<1>4. \A e \in Devices : CellFilled(e)'
  BY <1>1, <1>2, CellsStay
<1>5. (\A p \in raced : p \in raced') /\ (bus = "eim" => raced' = {})
  BY <1>1 DEF IndInv
<1> QED BY <1>1, <1>2, <1>3, <1>4, <1>5, FunctionStep

\* Everything is given back; the children are gone.
LEMMA UnmapPreserves ==
  ASSUME IndInv, TypeOK', UNCHANGED bus, NEW d \in Devices, Unmap(d)
  PROVE  IndInv'
<1>1. pc[d] = "unmap" /\ UNCHANGED <<cells, children, lost, raced>>
  BY DEF Unmap
<1>2. /\ \A e \in Devices : e # d => Untouched(e) /\ block'[e] = block[e]
      /\ pc'[d] = "unbound"
      /\ \A e \in Devices : regions'[e] => regions[e]
  BY <1>1 DEF Unmap, Goto, Untouched, IndInv, TypeOK
<1>3. Holds(d)'
  BY <1>1, <1>2 DEF Unmap, Holds, IndInv, TypeOK
<1>4. \A e \in Devices : Holds(e)'
  BY <1>2, <1>3, HoldsAlone
<1>5. \A e \in Devices : CellFilled(e)'
  BY <1>1, <1>2, CellsStay DEF Untouched
<1>6. OneRegion'
  BY <1>2 DEF OneRegion, IndInv
<1>7. OwnPlatformData' /\ (bus' = "eim" => raced' = {})
  BY <1>1 DEF IndInv, OwnPlatformData
<1> QED BY <1>4, <1>5, <1>6, <1>7 DEF IndInv

\* What a CCAT holds follows from where its probe or removal is, and a cell
\* still describes the function it was filled in for, or the function is
\* recorded as raced.
THEOREM ProbeInvariant == Spec => []IndInv
<1>1. IndInv /\ DiscoveryInv /\ DiscoveryInv' /\ [Next]_vars => IndInv'
  <2> SUFFICES ASSUME IndInv, DiscoveryInv, TypeOK', [Next]_vars PROVE IndInv'
    BY DEF DiscoveryInv
  <2>1. CASE UNCHANGED vars
    BY <2>1 DEF vars, IndInv, OneRegion, OwnPlatformData, Holds, CellFilled
  <2>2. CASE Next
    <3> UNCHANGED bus
      BY <2>2 DEF Next
    <3> PICK d \in Devices : Step(d)
      BY <2>2 DEF Next
    <3>1. CASE bus = "pci" /\ PciProbe(d)
      BY <3>1, PciEnablePreserves, PciRevisionPreserves, PciRegionsPreserves,
         PciMaskPreserves, PciBar0Preserves, PciBar2Preserves,
         ReleaseRegionsPreserves, DisableDevicePreserves DEF PciProbe
    <3>2. CASE bus = "eim" /\ EimProbe(d)
      BY <3>2, EimRegionPreserves, EimIoremapPreserves DEF EimProbe
    <3> QED
      BY <3>1, <3>2, FunctionsInitPreserves, ScanPreserves, ConnectPreserves,
         RemoveDevicesPreserves, UnmapPreserves DEF Step
  <2> QED BY <2>1, <2>2
<1> QED BY InitIndInv, DiscoveryInvariant, <1>1, PTL DEF Spec

\* Whatever step fails, an unbound CCAT holds nothing (the labels
\* release_regions and disable_device of ccat_pci_probe()), except the region
\* after a failed ioremap() of ccat_eim_probe().
THEOREM NothingIsLeftBehind == Spec => []NothingHeld
<1>1. IndInv => NothingHeld
  BY DEF IndInv, NothingHeld, Holds
<1> QED BY ProbeInvariant, <1>1, PTL

\* The children never outlive the mapping they use (ccat_pci_remove()).
THEOREM ChildrenStayMapped == Spec => []ChildrenMapped
<1>1. IndInv => ChildrenMapped
  BY DEF IndInv, ChildrenMapped, Holds
<1> QED BY ProbeInvariant, <1>1, PTL

\* Every child gets its own information block (ccat_function_connect()): always
\* on EIM, and on PCI unless another CCAT has filled in the cell just before
\* mfd_add_devices() looks at it.
THEOREM PlatformDataIsOwn == Spec => []OwnPlatformData
<1>1. IndInv => OwnPlatformData
  BY DEF IndInv
<1> QED BY ProbeInvariant, <1>1, PTL
=============================================================================
