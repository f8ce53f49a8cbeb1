----------------------------- MODULE CdevProofs -----------------------------
(***************************************************************************)
(* Proofs about Cdev for every number of devices, functions and processes, *)
(* as long as no function is unbound while its file is open.               *)
(***************************************************************************)
EXTENDS Cdev, FiniteSetTheorems, TLAPS

\* The processes that use device s, and the functions that hold an instance.
Users(s) == {o \in Openers : Uses(o, s)}
Holders  == {f \in Funcs : fpc[f] # "unbound"}

\* Both are finite, so that they can be counted.
LEMMA FiniteCounts ==
  /\ \A s \in Slots : IsFiniteSet(Users(s)) /\ Cardinality(Users(s)) \in Nat
  /\ IsFiniteSet(Holders) /\ Cardinality(Holders) \in Nat
<1>1. ASSUME NEW s \in Slots
      PROVE  IsFiniteSet(Users(s)) /\ Cardinality(Users(s)) \in Nat
  <2>1. Users(s) \subseteq Openers
    BY DEF Users
  <2> QED
    BY <2>1, CdevAssumption, FS_Subset, FS_CardinalityType DEF CdevAssumption
<1>2. IsFiniteSet(Holders) /\ Cardinality(Holders) \in Nat
  <2>1. Holders \subseteq Funcs
    BY DEF Holders
  <2> QED
    BY <2>1, CdevAssumption, FS_Subset, FS_CardinalityType DEF CdevAssumption
<1> QED
  BY <1>1, <1>2

\* open() makes the process one more user of the device, and of no other.
LEMMA OneMoreUser ==
  ASSUME TypeOK, NEW o \in Openers, NEW s \in Slots, OpenTest(o, s)
  PROVE  /\ Cardinality(Users(s)') = Cardinality(Users(s)) + 1
         /\ \A r \in Slots \ {s} : Users(r)' = Users(r)
<1>1. o \notin Users(s) /\ Users(s)' = Users(s) \cup {o}
  BY DEF Users, Uses, OpenTest, Taken, TypeOK
<1>2. \A r \in Slots \ {s} : Users(r)' = Users(r)
  BY DEF Users, Uses, OpenTest, Taken, TypeOK
<1> QED
  BY <1>1, <1>2, FiniteCounts, FS_AddElement

\* An open() that fails and a close() make the process no user of its device.
LEMMA OneLessUser ==
  ASSUME TypeOK, NEW o \in Openers, opc[o] # "closed",
         opc' = [opc EXCEPT ![o] = "closed"], file' = file
  PROVE  /\ Cardinality(Users(file[o])') = Cardinality(Users(file[o])) - 1
         /\ \A r \in Slots \ {file[o]} : Users(r)' = Users(r)
<1>0. file[o] \in Slots
  BY DEF TypeOK
<1>1. /\ o \in Users(file[o])
      /\ {p \in Openers : opc'[p] # "closed" /\ file'[p] = file[o]}
            = Users(file[o]) \ {o}
  BY DEF Users, Uses, TypeOK
<1>2. Users(file[o])' = {p \in Openers : opc'[p] # "closed" /\ file'[p] = file'[o]}
  BY DEF Users, Uses
<1>3. file'[o] = file[o]
  OBVIOUS
<1>4. Users(file[o])' = Users(file[o]) \ {o}
  BY <1>1, <1>2, <1>3
<1>5. \A r \in Slots \ {file[o]} : Users(r)' = Users(r)
  BY DEF Users, Uses, TypeOK
<1> QED
  BY <1>0, <1>1, <1>4, <1>5, FiniteCounts, FS_RemoveElement

\* A function that takes an instance, and one that gives it back.
LEMMA OneMoreHolder ==
  ASSUME TypeOK, NEW f \in Funcs, NEW x, fpc[f] = "unbound", x # "unbound",
         fpc' = [fpc EXCEPT ![f] = x]
  PROVE  Cardinality(Holders') = Cardinality(Holders) + 1
<1>1. f \notin Holders /\ Holders' = Holders \cup {f}
  BY DEF Holders, TypeOK
<1> QED
  BY <1>1, FiniteCounts, FS_AddElement

\* A function that becomes unbound leaves one holder less.
LEMMA OneLessHolder ==
  ASSUME TypeOK, NEW f \in Funcs, fpc[f] # "unbound",
         fpc' = [fpc EXCEPT ![f] = "unbound"]
  PROVE  Cardinality(Holders') = Cardinality(Holders) - 1
<1>1. f \in Holders /\ Holders' = Holders \ {f}
  BY DEF Holders, TypeOK
<1> QED
  BY <1>1, FiniteCounts, FS_RemoveElement

\* The last holder: nobody else holds an instance.
LEMMA LastHolder ==
  ASSUME TypeOK, NEW f \in Funcs, NEW g \in Funcs, f # g,
         fpc[f] # "unbound", fpc[g] # "unbound"
  PROVE  Cardinality(Holders) - 1 # 0
<1>1. /\ f \in Holders
      /\ g \in Holders \ {f}
  BY DEF Holders
<1>2. Cardinality(Holders \ {f}) = Cardinality(Holders) - 1
  BY <1>1, FiniteCounts, FS_RemoveElement
<1>3. IsFiniteSet(Holders \ {f})
  BY FiniteCounts, FS_Subset
<1> QED
  BY <1>1, <1>2, <1>3, FS_EmptySet

(***************************************************************************)
(* Every step preserves the invariant.                                     *)
(***************************************************************************)

\* open() and close() leave the functions alone and change in_use of a device
\* the kernel knows, so that what ccat_cdev_probe() relies on is not disturbed.
LEMMA OpenersDisturbNoProbe ==
  ASSUME IndInv, NEW s \in Slots, added[s], NEW n \in Int,
         UNCHANGED <<base, dev, classSet, added, probes>>,
         in_use' = [in_use EXCEPT ![s] = n]
  PROVE  /\ InstancesCount'
         /\ \A f \in Funcs : ProbeState(f)'
         /\ \A r \in Slots : AddedDevice(r)'
         /\ ClassCovers'
<1>1. InstancesCount'
  BY DEF IndInv, InstancesCount, base, probes
<1>2. ASSUME NEW f \in Funcs
      PROVE  ProbeState(f)'
  BY DEF IndInv, TypeOK, ProbeState, Binding, base, probes
<1>3. ASSUME NEW r \in Slots
      PROVE  AddedDevice(r)'
  BY DEF IndInv, AddedDevice, probes
<1>4. ClassCovers'
  BY DEF IndInv, ClassCovers, base, probes
<1> QED
  BY <1>1, <1>2, <1>3, <1>4

\* A process that enters open() takes one from in_use.
LEMMA OpenTestPreserves ==
  ASSUME IndInv, NEW o \in Openers, NEW s \in Slots, OpenTest(o, s)
  PROVE  IndInv'
<1>0. /\ TypeOK
      /\ in_use[s] \in Int
      /\ added[s]
      /\ in_use[s] = 1 - Cardinality(Users(s))
  BY DEF IndInv, TypeOK, OpenTest, Taken, InUseTally, Users
<1>1. TypeOK'
  BY <1>0 DEF TypeOK, OpenTest, Taken, base, probes
<1>2. /\ InstancesCount'
      /\ \A f \in Funcs : ProbeState(f)'
      /\ \A r \in Slots : AddedDevice(r)'
      /\ ClassCovers'
  <2>1. in_use[s] - 1 \in Int /\ in_use' = [in_use EXCEPT ![s] = in_use[s] - 1]
    BY <1>0 DEF OpenTest, Taken
  <2> QED
    BY <1>0, <2>1, OpenersDisturbNoProbe DEF OpenTest, Taken
<1>3. \A p \in Openers : opc'[p] # "closed" => added'[file'[p]]
  BY DEF IndInv, TypeOK, OpenTest, Taken
<1>4. ExclusiveOpen'
  <2>1. CASE in_use[s] - 1 = 0
    <3>1. Cardinality(Users(s)) = 0
      BY <1>0, <2>1, FiniteCounts
    <3>2. Users(s) = {}
      BY <3>1, FiniteCounts, FS_EmptySet
    <3>3. \A p \in Openers : opc[p] # "closed" => file[p] # s
      BY <3>2 DEF Users, Uses
    <3> QED
      BY <3>3 DEF IndInv, ExclusiveOpen, OpenTest, Taken, TypeOK
  <2>2. CASE in_use[s] - 1 # 0
    BY <2>2 DEF IndInv, ExclusiveOpen, OpenTest, Taken, TypeOK
  <2> QED
    BY <2>1, <2>2
<1>5. InUseTally'
  <2>1. ASSUME NEW r \in Slots, added'[r]
        PROVE  in_use'[r] = 1 - Cardinality(Users(r)')
    <3>1. CASE r = s
      <4>1. in_use'[s] = in_use[s] - 1
        BY <1>0 DEF OpenTest, Taken, TypeOK
      <4>2. Cardinality(Users(s)') = Cardinality(Users(s)) + 1
        BY <1>0, OneMoreUser
      <4>3. Users(r)' = Users(s)'
        BY <3>1
      <4> QED
        BY <1>0, <3>1, <4>1, <4>2, <4>3, FiniteCounts
    <3>2. CASE r # s
      <4>1. in_use'[r] = in_use[r] /\ added[r]
        BY <1>0, <2>1, <3>2 DEF OpenTest, Taken, TypeOK
      <4>2. Users(r)' = Users(r)
        BY <1>0, <3>2, OneMoreUser
      <4> QED
        BY <4>1, <4>2 DEF IndInv, InUseTally, Users
    <3> QED
      BY <3>1, <3>2
  <2> QED
    BY <2>1 DEF InUseTally, Users
<1> QED
  BY <1>1, <1>2, <1>3, <1>4, <1>5 DEF IndInv

\* What a failed open() and close() have in common: the count goes back.
LEMMA GiveBackPreserves ==
  ASSUME IndInv, NEW o \in Openers, opc[o] # "closed",
         in_use' = [in_use EXCEPT ![file[o]] = @ + 1],
         opc' = [opc EXCEPT ![o] = "closed"],
         UNCHANGED <<base, dev, classSet, added, probes, file>>
  PROVE  IndInv'
<1> DEFINE s == file[o]
<1>0. /\ TypeOK
      /\ s \in Slots
      /\ in_use[s] \in Int
      /\ added[s]
      /\ in_use[s] = 1 - Cardinality(Users(s))
  BY DEF IndInv, TypeOK, InUseTally, Users
<1>1. TypeOK'
  BY <1>0 DEF TypeOK, base, probes
<1>2. /\ InstancesCount'
      /\ \A f \in Funcs : ProbeState(f)'
      /\ \A r \in Slots : AddedDevice(r)'
      /\ ClassCovers'
  <2>1. in_use[s] + 1 \in Int /\ in_use' = [in_use EXCEPT ![s] = in_use[s] + 1]
    BY <1>0
  <2> QED
    BY <1>0, <2>1, OpenersDisturbNoProbe
<1>3. \A p \in Openers : opc'[p] # "closed" => added'[file'[p]]
  BY DEF IndInv, TypeOK
<1>4. ExclusiveOpen'
  BY DEF IndInv, ExclusiveOpen, TypeOK
<1>5. InUseTally'
  <2>1. ASSUME NEW r \in Slots, added'[r]
        PROVE  in_use'[r] = 1 - Cardinality(Users(r)')
    <3>1. CASE r = s
      <4>1. in_use'[r] = in_use[r] + 1
        BY <1>0, <3>1 DEF TypeOK
      <4>2. Cardinality(Users(file[o])') = Cardinality(Users(file[o])) - 1
        BY <1>0, OneLessUser
      <4>3. Users(file[o])' = Users(r)'
        BY <3>1 DEF Users, Uses
      <4> QED
        BY <1>0, <3>1, <4>1, <4>2, <4>3, FiniteCounts
    <3>2. CASE r # s
      <4>1. in_use'[r] = in_use[r] /\ added[r]
        BY <1>0, <2>1, <3>2 DEF TypeOK
      <4>2. Users(r)' = Users(r)
        BY <1>0, <3>2, OneLessUser
      <4> QED
        BY <4>1, <4>2 DEF IndInv, InUseTally, Users
    <3> QED
      BY <3>1, <3>2
  <2> QED
    BY <2>1 DEF InUseTally, Users
<1> QED
  BY <1>1, <1>2, <1>3, <1>4, <1>5 DEF IndInv

\* kzalloc() that succeeds: the process stays a user.
LEMMA OpenedPreserves ==
  ASSUME IndInv, NEW o \in Openers, opc[o] = "alloc",
         opc' = [opc EXCEPT ![o] = "open"],
         UNCHANGED <<base, devices, probes, file>>
  PROVE  IndInv'
<1>1. TypeOK'
  BY DEF IndInv, TypeOK, base, devices, probes
<1>2. /\ InstancesCount'
      /\ \A f \in Funcs : ProbeState(f)'
      /\ \A r \in Slots : AddedDevice(r)'
      /\ ClassCovers'
  BY DEF IndInv, InstancesCount, ProbeState, Binding, AddedDevice, ClassCovers,
         base, devices, probes
<1>3. \A p \in Openers : opc'[p] # "closed" => added'[file'[p]]
  BY DEF IndInv, TypeOK, devices
<1>4. ExclusiveOpen'
  BY DEF IndInv, ExclusiveOpen, TypeOK
<1>5. InUseTally'
  <2>1. \A r \in Slots : Users(r)' = Users(r)
    BY DEF IndInv, TypeOK, Users, Uses
  <2> QED
    BY <2>1 DEF IndInv, InUseTally, Users, devices
<1> QED
  BY <1>1, <1>2, <1>3, <1>4, <1>5 DEF IndInv

\* A step of the driver core keeps the processes' part of the invariant if it
\* takes no device from a process, and in_use of a device it adds is 1.
LEMMA ProbesKeepUsers ==
  ASSUME IndInv, UNCHANGED files,
         \A o \in Openers : opc[o] # "closed" => added'[file[o]],
         \A s \in Slots : added'[s] =>
           in_use'[s] = in_use[s] /\ (added[s] \/ in_use[s] = 1)
  PROVE  /\ \A o \in Openers : opc'[o] # "closed" => added'[file'[o]]
         /\ ExclusiveOpen'
         /\ InUseTally'
<1>1. \A o \in Openers : opc'[o] # "closed" => added'[file'[o]]
  BY DEF files
<1>2. ExclusiveOpen'
  BY DEF IndInv, ExclusiveOpen, files
<1>3. ASSUME NEW s \in Slots, added'[s]
      PROVE  in_use'[s] = 1 - Cardinality(Users(s)')
  <2>1. Users(s)' = Users(s)
    BY DEF Users, Uses, files
  <2>2. CASE added[s]
    BY <1>3, <2>1, <2>2 DEF IndInv, InUseTally, Users
  <2>3. CASE ~added[s]
    <3>1. Users(s) = {}
      BY <2>3 DEF IndInv, Users, Uses
    <3> QED
      BY <1>3, <2>1, <2>3, <3>1, FS_EmptySet
  <2> QED
    BY <2>2, <2>3
<1> QED
  BY <1>1, <1>2, <1>3 DEF InUseTally, Users

\* A device that is not taken is not known to the kernel, so
\* alloc_ccat_cdev() never resets in_use of a device that can be open.
LEMMA AllocatesPreserves ==
  ASSUME IndInv, NEW f \in Funcs, ProbeAlloc(f)
  PROVE  IndInv'
<1>0. /\ TypeOK
      /\ fpc[f] = "unbound"
      /\ \A g \in Funcs : ~Binding(g)
      /\ UNCHANGED <<classSet, added, files>>
  BY DEF IndInv, ProbeAlloc
<1>1. /\ major' \in BOOLEAN
      /\ class' \in {"null", "error", "live", "gone"}
      /\ class' = "live" => major'
      /\ instances # 0 => class' = class
  <2>1. major \in BOOLEAN /\ class \in {"null", "error", "live", "gone"}
    BY <1>0 DEF TypeOK
  <2>2. class = "live" => major
    BY DEF IndInv, InstancesCount
  <2>3. \/ UNCHANGED <<major, class>>
        \/ instances = 0 /\ major' = TRUE /\ class' \in {"error", "live"}
    BY DEF ProbeAlloc, ClassInit
  <2>4. CASE UNCHANGED <<major, class>>
    BY <2>1, <2>2, <2>4
  <2>5. CASE instances = 0 /\ major' = TRUE /\ class' \in {"error", "live"}
    BY <2>5
  <2> QED
    BY <2>3, <2>4, <2>5
<1>2. \A s \in Slots : added[s] => class' = "live"
  <2>1. ASSUME NEW s \in Slots, added[s]
        PROVE  class = "live" /\ instances # 0
    <3>1. PICK g \in Funcs : fpc[g] \in {"done", "bound"}
      BY <2>1 DEF IndInv, AddedDevice
    <3>2. Holders # {}
      BY <3>1 DEF Holders
    <3>3. Cardinality(Holders) # 0
      BY <3>2, FiniteCounts, FS_EmptySet
    <3> QED
      BY <2>1, <3>3 DEF IndInv, InstancesCount, ClassCovers, Holders
  <2> QED
    BY <1>1, <2>1
<1>3. CASE \E s \in Slots : /\ ~dev[s]
                            /\ instances' = instances + 1
                            /\ dev' = [dev EXCEPT ![s] = major' \/ s # 0]
                            /\ in_use' = [in_use EXCEPT ![s] = 1]
                            /\ slot' = [slot EXCEPT ![f] = s]
                            /\ fpc' = [fpc EXCEPT ![f] = "init"]
  <2>1. PICK s \in Slots : /\ ~dev[s]
                           /\ instances' = instances + 1
                           /\ dev' = [dev EXCEPT ![s] = major' \/ s # 0]
                           /\ in_use' = [in_use EXCEPT ![s] = 1]
                           /\ slot' = [slot EXCEPT ![f] = s]
                           /\ fpc' = [fpc EXCEPT ![f] = "init"]
    BY <1>3
  <2>2. ~added[s]
    BY <2>1 DEF IndInv, AddedDevice
  <2>3. TypeOK'
    <3>1. (major' \/ s # 0) \in BOOLEAN
      OBVIOUS
    <3>2. dev' \in [Slots -> BOOLEAN]
      BY <1>0, <2>1, <3>1 DEF TypeOK
    <3> QED
      BY <1>0, <1>1, <2>1, <3>2 DEF TypeOK, files
  <2>4. InstancesCount'
    <3>1. Cardinality(Holders') = Cardinality(Holders) + 1
      BY <1>0, <2>1, OneMoreHolder
    <3> QED
      BY <1>1, <2>1, <3>1 DEF IndInv, InstancesCount, Holders
  <2>5. ASSUME NEW g \in Funcs
        PROVE  ProbeState(g)'
    <3>1. CASE g = f
      <4>1. fpc'[g] = "init" /\ slot'[g] = s
        BY <1>0, <2>1, <3>1 DEF TypeOK
      <4>2. ~added'[s] /\ in_use'[s] = 1
        BY <1>0, <2>1, <2>2 DEF TypeOK
      <4>3. class' = "live" => dev'[s]
        BY <1>0, <1>1, <2>1 DEF TypeOK
      <4>4. \A h \in Funcs \ {f} : ~Binding(h)'
        BY <1>0, <2>1 DEF Binding, TypeOK
      <4> QED
        BY <3>1, <4>1, <4>2, <4>3, <4>4 DEF ProbeState
    <3>2. CASE g # f
      <4>1. fpc'[g] = fpc[g] /\ slot'[g] = slot[g]
        BY <1>0, <2>1, <3>2 DEF TypeOK
      <4>2. fpc[g] \notin {"init", "fail", "done"}
        BY <1>0 DEF Binding
      <4> QED
        BY <1>0, <4>1, <4>2 DEF IndInv, ProbeState, Binding
    <3> QED
      BY <3>1, <3>2
  <2>6. ASSUME NEW r \in Slots, added'[r]
        PROVE  /\ dev'[r]
               /\ \E g \in Funcs : fpc'[g] \in {"done", "bound"} /\ slot'[g] = r
    <3>1. added[r] /\ r # s
      BY <1>0, <2>2, <2>6
    <3>2. PICK g \in Funcs : fpc[g] \in {"done", "bound"} /\ slot[g] = r
      BY <3>1 DEF IndInv, AddedDevice
    <3>3. fpc'[g] = fpc[g] /\ slot'[g] = slot[g]
      BY <1>0, <2>1, <3>2 DEF TypeOK
    <3>4. dev'[r]
      BY <1>0, <2>1, <3>1 DEF IndInv, AddedDevice, TypeOK
    <3> QED
      BY <3>2, <3>3, <3>4
  <2>7. ClassCovers'
    BY <1>0, <1>2, <2>1 DEF IndInv, ClassCovers, TypeOK
  <2>8. /\ \A o \in Openers : opc[o] # "closed" => added'[file[o]]
        /\ \A r \in Slots : added'[r] =>
             in_use'[r] = in_use[r] /\ (added[r] \/ in_use[r] = 1)
    BY <1>0, <2>1, <2>2 DEF IndInv, TypeOK
  <2> QED
    BY <1>0, <2>3, <2>4, <2>5, <2>6, <2>7, <2>8, ProbesKeepUsers
    DEF IndInv, AddedDevice
<1>4. CASE UNCHANGED <<instances, dev, in_use, probes>>
  <2>1. TypeOK'
    BY <1>0, <1>1, <1>4 DEF TypeOK, probes, files
  <2>2. InstancesCount'
    BY <1>1, <1>4 DEF IndInv, InstancesCount, probes
  <2>3. ASSUME NEW g \in Funcs
        PROVE  ProbeState(g)'
    <3>1. fpc[g] \notin {"init", "fail", "done"}
      BY <1>0 DEF Binding
    <3> QED
      BY <1>0, <1>4, <3>1 DEF IndInv, ProbeState, Binding, probes
  <2>4. \A r \in Slots : AddedDevice(r)'
    BY <1>0, <1>4 DEF IndInv, AddedDevice, probes
  <2>5. ClassCovers'
    BY <1>0, <1>2, <1>4 DEF IndInv, ClassCovers, probes
  <2>6. /\ \A o \in Openers : opc[o] # "closed" => added'[file[o]]
        /\ \A r \in Slots : added'[r] =>
             in_use'[r] = in_use[r] /\ (added[r] \/ in_use[r] = 1)
    BY <1>0, <1>4 DEF IndInv
  <2> QED
    BY <1>0, <2>1, <2>2, <2>3, <2>4, <2>5, <2>6, ProbesKeepUsers DEF IndInv
<1>5. CASE /\ instances' = instances + 1
           /\ fpc' = [fpc EXCEPT ![f] = "oops"]
           /\ UNCHANGED <<dev, in_use, slot>>
  <2>1. TypeOK'
    BY <1>0, <1>1, <1>5 DEF TypeOK, files
  <2>2. InstancesCount'
    <3>1. Cardinality(Holders') = Cardinality(Holders) + 1
      BY <1>0, <1>5, OneMoreHolder
    <3> QED
      BY <1>1, <1>5, <3>1 DEF IndInv, InstancesCount, Holders
  <2>3. ASSUME NEW g \in Funcs
        PROVE  ProbeState(g)'
    <3>1. fpc'[g] \notin {"init", "fail", "done"} /\ (fpc'[g] = "bound" => fpc[g] = "bound")
      BY <1>0, <1>5 DEF Binding, TypeOK
    <3> QED
      BY <1>0, <1>5, <3>1 DEF IndInv, ProbeState, Binding
  <2>4. ASSUME NEW r \in Slots, added'[r]
        PROVE  /\ dev'[r]
               /\ \E g \in Funcs : fpc'[g] \in {"done", "bound"} /\ slot'[g] = r
    <3>1. PICK g \in Funcs : fpc[g] \in {"done", "bound"} /\ slot[g] = r
      BY <1>0, <2>4 DEF IndInv, AddedDevice
    <3>2. fpc'[g] = fpc[g] /\ slot'[g] = slot[g]
      BY <1>0, <1>5, <3>1 DEF TypeOK
    <3>3. dev'[r]
      BY <1>0, <1>5, <2>4 DEF IndInv, AddedDevice
    <3> QED
      BY <3>1, <3>2, <3>3
  <2>5. ClassCovers'
    BY <1>0, <1>2, <1>5 DEF IndInv, ClassCovers, TypeOK
  <2>6. /\ \A o \in Openers : opc[o] # "closed" => added'[file[o]]
        /\ \A r \in Slots : added'[r] =>
             in_use'[r] = in_use[r] /\ (added[r] \/ in_use[r] = 1)
    BY <1>0, <1>5 DEF IndInv
  <2> QED
    BY <1>0, <2>1, <2>2, <2>3, <2>4, <2>5, <2>6, ProbesKeepUsers
    DEF IndInv, AddedDevice
<1> QED
  BY <1>3, <1>4, <1>5 DEF ProbeAlloc

\* A step of function f from one state that holds an instance to another
\* keeps the count.
LEMMA SameHolders ==
  ASSUME IndInv, NEW f \in Funcs, NEW x, fpc[f] # "unbound", x # "unbound",
         fpc' = [fpc EXCEPT ![f] = x], UNCHANGED base
  PROVE  InstancesCount'
<1>1. Holders' = Holders
  BY DEF IndInv, TypeOK, Holders
<1> QED
  BY <1>1 DEF IndInv, InstancesCount, Holders, base

\* device_create() and cdev_add(), or their failure.
LEMMA ProbeInitPreserves ==
  ASSUME IndInv, NEW f \in Funcs, ProbeInit(f)
  PROVE  IndInv'
<1> DEFINE s == slot[f]
<1>0. /\ TypeOK
      /\ s \in Slots
      /\ fpc[f] = "init"
      /\ ~added[s]
      /\ in_use[s] = 1
      /\ class = "live" => dev[s]
      /\ \A g \in Funcs \ {f} : fpc[g] \notin {"init", "fail", "done"}
      /\ \A g \in Funcs \ {f} : fpc[g] = "bound" => slot[g] # s /\ added[slot[g]]
      /\ UNCHANGED <<base, dev, in_use, classSet, slot, files>>
  BY DEF IndInv, TypeOK, ProbeInit, ProbeState, Binding
<1>1. PICK x \in {"oops", "done", "fail"} :
        /\ fpc' = [fpc EXCEPT ![f] = x]
        /\ x = "done" => class = "live" /\ added' = [added EXCEPT ![s] = TRUE]
        /\ x = "fail" => class = "live"
        /\ x # "done" => added' = added
  <2>1. CASE class # "live" /\ fpc' = [fpc EXCEPT ![f] = "oops"] /\ UNCHANGED added
    BY <2>1
  <2>2. CASE class = "live" /\ added' = [added EXCEPT ![s] = TRUE] /\ fpc' = [fpc EXCEPT ![f] = "done"]
    BY <2>2
  <2>3. CASE class = "live" /\ fpc' = [fpc EXCEPT ![f] = "fail"] /\ UNCHANGED added
    BY <2>3
  <2> QED
    BY <2>1, <2>2, <2>3 DEF ProbeInit
<1>2. /\ fpc'[f] = x
      /\ \A g \in Funcs \ {f} : fpc'[g] = fpc[g]
      /\ \A r \in Slots \ {s} : added'[r] = added[r]
      /\ added'[s] <=> x = "done"
  BY <1>0, <1>1 DEF TypeOK
<1>3. TypeOK'
  BY <1>0, <1>1 DEF TypeOK, base, files
<1>4. InstancesCount'
  BY <1>0, <1>1, SameHolders
<1>5. ASSUME NEW g \in Funcs
      PROVE  ProbeState(g)'
  <2>1. CASE g = f
    <3>1. \A h \in Funcs \ {f} : ~Binding(h)'
      BY <1>0, <1>2 DEF Binding
    <3>2. slot'[f] = s /\ dev' = dev
      BY <1>0
    <3> QED
      BY <1>0, <1>1, <1>2, <2>1, <3>1, <3>2 DEF ProbeState
  <2>2. CASE g # f
    <3>1. fpc'[g] \notin {"init", "fail", "done"}
      BY <1>0, <1>2, <2>2
    <3>2. fpc'[g] = "bound" => added'[slot'[g]]
      BY <1>0, <1>2, <2>2 DEF TypeOK
    <3> QED
      BY <3>1, <3>2 DEF ProbeState, Binding
  <2> QED
    BY <2>1, <2>2
<1>6. ASSUME NEW r \in Slots, added'[r]
      PROVE  /\ dev'[r]
             /\ \E g \in Funcs : fpc'[g] \in {"done", "bound"} /\ slot'[g] = r
  <2>1. CASE r = s
    BY <1>0, <1>1, <1>2, <1>6, <2>1
  <2>2. CASE r # s
    <3>1. added[r]
      BY <1>2, <1>6, <2>2
    <3>2. PICK g \in Funcs : fpc[g] \in {"done", "bound"} /\ slot[g] = r
      BY <3>1 DEF IndInv, AddedDevice
    <3>3. g # f
      BY <2>2, <3>2
    <3>4. dev'[r]
      BY <1>0, <3>1 DEF IndInv, AddedDevice
    <3> QED
      BY <1>0, <1>2, <3>2, <3>3, <3>4
  <2> QED
    BY <2>1, <2>2
<1>7. ClassCovers'
  <2>1. ASSUME NEW r \in Slots, added'[r]
        PROVE  class' = "live"
    BY <1>0, <1>1, <1>2, <2>1 DEF IndInv, ClassCovers, base
  <2>2. ASSUME NEW g \in Funcs, NEW h \in Funcs, g # h,
               fpc'[g] \in {"done", "bound"}, fpc'[h] \in {"done", "bound"}
        PROVE  slot'[g] # slot'[h]
    <3>1. CASE g = f
      BY <1>0, <1>2, <2>2, <3>1
    <3>2. CASE h = f
      BY <1>0, <1>2, <2>2, <3>2
    <3>3. CASE g # f /\ h # f
      BY <1>0, <1>2, <2>2, <3>3 DEF IndInv, ClassCovers
    <3> QED
      BY <3>1, <3>2, <3>3
  <2> QED
    BY <2>1, <2>2 DEF ClassCovers
<1>8. \A o \in Openers : opc[o] # "closed" => added'[file[o]]
  BY <1>0, <1>2 DEF IndInv, TypeOK
<1>9. \A r \in Slots : added'[r] =>
        in_use'[r] = in_use[r] /\ (added[r] \/ in_use[r] = 1)
  BY <1>0, <1>2
<1> QED
  BY <1>0, <1>3, <1>4, <1>5, <1>6, <1>7, <1>8, <1>9, ProbesKeepUsers
  DEF IndInv, AddedDevice

\* A successful probe records the class of the device.
LEMMA ProbeDonePreserves ==
  ASSUME IndInv, NEW f \in Funcs, ProbeDone(f)
  PROVE  IndInv'
<1>0. /\ TypeOK
      /\ fpc[f] = "done"
      /\ fpc' = [fpc EXCEPT ![f] = "bound"]
      /\ UNCHANGED <<base, dev, in_use, added, slot, files>>
  BY DEF IndInv, ProbeDone
<1>1. /\ fpc'[f] = "bound"
      /\ \A g \in Funcs \ {f} : fpc'[g] = fpc[g]
  BY <1>0 DEF TypeOK
<1>2. TypeOK'
  BY <1>0 DEF TypeOK, ProbeDone, base, files
<1>3. InstancesCount'
  BY <1>0, SameHolders
<1>4. ASSUME NEW g \in Funcs
      PROVE  ProbeState(g)'
  BY <1>0, <1>1 DEF IndInv, ProbeState, Binding, base
<1>5. ASSUME NEW r \in Slots
      PROVE  AddedDevice(r)'
  BY <1>0, <1>1 DEF IndInv, AddedDevice
<1>6. ClassCovers'
  BY <1>0, <1>1 DEF IndInv, ClassCovers, base
<1>7. /\ \A o \in Openers : opc[o] # "closed" => added'[file[o]]
      /\ \A r \in Slots : added'[r] =>
           in_use'[r] = in_use[r] /\ (added[r] \/ in_use[r] = 1)
  BY <1>0 DEF IndInv
<1> QED
  BY <1>0, <1>2, <1>3, <1>4, <1>5, <1>6, <1>7, ProbesKeepUsers DEF IndInv

\* free_ccat_cdev(): giving back a device nobody uses destroys the class only
\* when no other function has a device.
LEMMA FreePreserves ==
  ASSUME IndInv, NEW f \in Funcs, fpc[f] \in {"fail", "bound"},
         \A g \in Funcs \ {f} : fpc[g] \notin {"init", "fail", "done"},
         \A o \in Openers : opc[o] # "closed" => file[o] # slot[f],
         ClassExit,
         added' = [added EXCEPT ![slot[f]] = FALSE],
         dev' = [dev EXCEPT ![slot[f]] = FALSE],
         fpc' = [fpc EXCEPT ![f] = "unbound"],
         UNCHANGED <<major, in_use, classSet, slot, files>>
  PROVE  IndInv'
<1> DEFINE s == slot[f]
<1>0. TypeOK /\ s \in Slots
  BY DEF IndInv, TypeOK
<1>1. /\ fpc'[f] = "unbound"
      /\ \A g \in Funcs \ {f} : fpc'[g] = fpc[g]
      /\ ~added'[s]
      /\ \A r \in Slots \ {s} : added'[r] = added[r] /\ dev'[r] = dev[r]
  BY <1>0 DEF TypeOK
<1>2. /\ Cardinality(Holders') = Cardinality(Holders) - 1
      /\ instances = Cardinality(Holders)
      /\ instances' = instances - 1
  <2>1. Cardinality(Holders') = Cardinality(Holders) - 1
    BY <1>0, OneLessHolder
  <2> QED
    BY <2>1 DEF IndInv, InstancesCount, Holders, ClassExit
<1>3. instances' \in Nat
  <2>1. Holders' \subseteq Funcs
    BY DEF Holders
  <2>2. Cardinality(Holders') \in Nat
    BY <2>1, CdevAssumption, FS_Subset, FS_CardinalityType DEF CdevAssumption
  <2> QED
    BY <1>2, <2>2
<1>4. class' \in {class, "gone"} /\ (instances' # 0 => class' = class)
  BY DEF ClassExit
<1>5. TypeOK'
  BY <1>0, <1>3, <1>4 DEF TypeOK, files
<1>6. InstancesCount'
  BY <1>2, <1>4 DEF IndInv, InstancesCount, Holders
<1>7. \A g \in Funcs \ {f} : fpc[g] = "bound" => slot[g] # s
  <2>1. CASE fpc[f] = "bound"
    BY <2>1 DEF IndInv, ClassCovers
  <2>2. CASE fpc[f] = "fail"
    BY <2>2 DEF IndInv, ProbeState
  <2> QED
    BY <2>1, <2>2
<1>8. ASSUME NEW g \in Funcs
      PROVE  ProbeState(g)'
  <2>1. CASE g = f
    BY <1>1, <2>1 DEF ProbeState, Binding
  <2>2. CASE g # f
    <3>1. fpc'[g] = fpc[g] /\ fpc[g] \notin {"init", "fail", "done"}
      BY <1>1, <2>2
    <3>2. fpc[g] = "bound" => slot[g] \in Slots \ {s} /\ added[slot[g]]
      BY <1>0, <1>7, <2>2 DEF IndInv, ProbeState, TypeOK
    <3> QED
      BY <1>1, <3>1, <3>2 DEF ProbeState, Binding
  <2> QED
    BY <2>1, <2>2
<1>9. ASSUME NEW r \in Slots, added'[r]
      PROVE  /\ r # s /\ added[r] /\ dev'[r]
             /\ \E g \in Funcs \ {f} : fpc'[g] \in {"done", "bound"} /\ slot'[g] = r
  <2>1. r # s /\ added[r] /\ dev'[r]
    BY <1>1, <1>9 DEF IndInv, AddedDevice
  <2>2. PICK g \in Funcs : fpc[g] \in {"done", "bound"} /\ slot[g] = r
    BY <2>1 DEF IndInv, AddedDevice
  <2>3. g # f
    BY <2>1, <2>2
  <2> QED
    BY <1>1, <2>1, <2>2, <2>3
<1>10. ClassCovers'
  <2>1. ASSUME NEW r \in Slots, added'[r]
        PROVE  class' = "live"
    <3>1. PICK g \in Funcs \ {f} : fpc'[g] \in {"done", "bound"}
      BY <1>9, <2>1
    <3>2. fpc[g] # "unbound"
      BY <1>1, <3>1
    <3>3. Cardinality(Holders) - 1 # 0
      BY <1>0, <3>2, LastHolder
    <3> QED
      BY <1>2, <1>4, <1>9, <2>1, <3>3 DEF IndInv, ClassCovers
  <2>2. ASSUME NEW g \in Funcs, NEW h \in Funcs, g # h,
               fpc'[g] \in {"done", "bound"}, fpc'[h] \in {"done", "bound"}
        PROVE  slot'[g] # slot'[h]
    BY <1>1, <2>2 DEF IndInv, ClassCovers
  <2> QED
    BY <2>1, <2>2 DEF ClassCovers
<1>11. \A o \in Openers : opc[o] # "closed" => added'[file[o]]
  BY <1>0, <1>1 DEF IndInv, TypeOK
<1>12. \A r \in Slots : added'[r] =>
         in_use'[r] = in_use[r] /\ (added[r] \/ in_use[r] = 1)
  BY <1>9
<1> QED
  BY <1>5, <1>6, <1>8, <1>9, <1>10, <1>11, <1>12, ProbesKeepUsers
  DEF IndInv, AddedDevice

\* The error path gives the device back, or oopses.
LEMMA ProbeFailPreserves ==
  ASSUME IndInv, NEW f \in Funcs, ProbeFail(f)
  PROVE  IndInv'
<1>0. /\ TypeOK
      /\ fpc[f] = "fail"
      /\ slot[f] \in Slots
      /\ ~added[slot[f]]
      /\ \A g \in Funcs \ {f} : fpc[g] \notin {"init", "fail", "done"}
      /\ UNCHANGED <<major, in_use, classSet, added, slot, files>>
  BY DEF IndInv, TypeOK, ProbeFail, ProbeState, Binding
<1>1. CASE fpc' = [fpc EXCEPT ![f] = "oops"] /\ UNCHANGED <<instances, class, dev>>
  <2>1. /\ fpc'[f] = "oops"
        /\ \A g \in Funcs \ {f} : fpc'[g] = fpc[g]
    BY <1>0, <1>1 DEF TypeOK
  <2>2. TypeOK'
    BY <1>0, <1>1 DEF TypeOK, files
  <2>3. InstancesCount'
    BY <1>0, <1>1, SameHolders DEF base
  <2>4. ASSUME NEW g \in Funcs
        PROVE  ProbeState(g)'
    BY <1>0, <1>1, <2>1 DEF IndInv, ProbeState, Binding
  <2>5. ASSUME NEW r \in Slots
        PROVE  AddedDevice(r)'
    BY <1>0, <1>1, <2>1 DEF IndInv, AddedDevice
  <2>6. ClassCovers'
    BY <1>0, <1>1, <2>1 DEF IndInv, ClassCovers
  <2>7. /\ \A o \in Openers : opc[o] # "closed" => added'[file[o]]
        /\ \A r \in Slots : added'[r] =>
             in_use'[r] = in_use[r] /\ (added[r] \/ in_use[r] = 1)
    BY <1>0 DEF IndInv
  <2> QED
    BY <1>0, <2>2, <2>3, <2>4, <2>5, <2>6, <2>7, ProbesKeepUsers DEF IndInv
<1>2. CASE /\ ClassExit
           /\ dev' = [dev EXCEPT ![slot[f]] = FALSE]
           /\ fpc' = [fpc EXCEPT ![f] = "unbound"]
  <2>1. added' = [added EXCEPT ![slot[f]] = FALSE]
    BY <1>0 DEF TypeOK
  <2>2. \A o \in Openers : opc[o] # "closed" => file[o] # slot[f]
    BY <1>0 DEF IndInv
  <2> QED
    BY <1>0, <1>2, <2>1, <2>2, FreePreserves
<1> QED
  BY <1>1, <1>2 DEF ProbeFail

\* Nobody uses a device that is removed.
LEMMA RemovePreserves ==
  ASSUME ~UnbindBusy, IndInv, NEW f \in Funcs, Remove(f)
  PROVE  IndInv'
<1>1. /\ fpc[f] \in {"fail", "bound"}
      /\ \A g \in Funcs \ {f} : fpc[g] \notin {"init", "fail", "done"}
      /\ \A o \in Openers : opc[o] # "closed" => file[o] # slot[f]
  BY DEF Remove, Binding, Uses
<1> QED
  BY <1>1, FreePreserves DEF Remove

\* Initially there is no class, no device and no open file.
LEMMA InitIndInv == Init => IndInv
<1> SUFFICES ASSUME Init PROVE IndInv
  OBVIOUS
<1>1. TypeOK
  <2>1. 0 \in Slots
    BY CdevAssumption DEF CdevAssumption, Slots
  <2>2. instances \in Nat /\ in_use \in [Slots -> Int]
    BY DEF Init
  <2>3. slot \in [Funcs -> Slots] /\ file \in [Openers -> Slots]
    BY <2>1 DEF Init
  <2> QED
    BY <2>2, <2>3 DEF Init, TypeOK
<1>2. InstancesCount
  <2>1. {f \in Funcs : fpc[f] # "unbound"} = {}
    BY DEF Init
  <2> QED
    BY <2>1, FS_EmptySet DEF Init, InstancesCount
<1>3. ExclusiveOpen
  BY DEF Init, ExclusiveOpen
<1>4. InUseTally
  BY DEF Init, InUseTally
<1> QED
  BY <1>1, <1>2, <1>3, <1>4
  DEF Init, IndInv, ProbeState, Binding, AddedDevice, ClassCovers

\* Every step preserves the invariant.
LEMMA NextIndInv ==
  ASSUME ~UnbindBusy, IndInv, [Next]_vars
  PROVE  IndInv'
<1>1. ASSUME NEW f \in Funcs, Bind(f)
      PROVE  IndInv'
  BY <1>1, AllocatesPreserves, ProbeInitPreserves, ProbeFailPreserves,
     ProbeDonePreserves DEF Bind
<1>2. ASSUME NEW f \in Funcs, Remove(f)
      PROVE  IndInv'
  BY <1>2, RemovePreserves
<1>3. ASSUME NEW o \in Openers, NEW s \in Slots, OpenTest(o, s)
      PROVE  IndInv'
  BY <1>3, OpenTestPreserves
<1>4. ASSUME NEW o \in Openers, OpenBusy(o)
      PROVE  IndInv'
  BY <1>4, GiveBackPreserves DEF OpenBusy
<1>5. ASSUME NEW o \in Openers, OpenAlloc(o)
      PROVE  IndInv'
  BY <1>5, GiveBackPreserves, OpenedPreserves DEF OpenAlloc, devices
<1>6. ASSUME NEW o \in Openers, Release(o)
      PROVE  IndInv'
  BY <1>6, GiveBackPreserves DEF Release
<1>7. CASE UNCHANGED vars
  BY <1>7 DEF vars, IndInv, TypeOK, InstancesCount, ProbeState, Binding,
              AddedDevice, ExclusiveOpen, InUseTally, Uses, ClassCovers
<1> QED
  BY <1>1, <1>2, <1>3, <1>4, <1>5, <1>6, <1>7 DEF Next

(***************************************************************************)
(* Theorems                                                                *)
(***************************************************************************)

\* The inductive invariant holds in every reachable state, if no function is
\* unbound while its file is open.
THEOREM CdevInvariant ==
  ASSUME ~UnbindBusy
  PROVE  Spec => []IndInv
BY InitIndInv, NextIndInv, PTL DEF Spec

\* No two processes have a device open: ccat_cdev_open() needs no lock.
THEOREM OpenIsExclusive ==
  ASSUME ~UnbindBusy
  PROVE  Spec => []ExclusiveOpen
<1>1. IndInv => ExclusiveOpen
  BY DEF IndInv
<1> QED
  BY <1>1, CdevInvariant, PTL

\* No path through open() and close() gains or loses a count of in_use.
THEOREM CountsAreExact ==
  ASSUME ~UnbindBusy
  PROVE  Spec => []InUseTally
<1>1. IndInv => InUseTally
  BY DEF IndInv
<1> QED
  BY <1>1, CdevInvariant, PTL

\* The class lives as long as a device in it, and devices are not shared.
THEOREM ClassOutlivesDevices ==
  ASSUME ~UnbindBusy
  PROVE  Spec => []ClassCovers
<1>1. IndInv => ClassCovers
  BY DEF IndInv
<1> QED
  BY <1>1, CdevInvariant, PTL

\* -EBUSY is only returned if another process is using the device.
THEOREM BusyIsJustified ==
  ASSUME ~UnbindBusy
  PROVE  Spec => BusyHasReason
<1>1. ASSUME IndInv, [Next]_vars, NEW o \in Openers, NEW s \in Slots,
             opc[o] = "closed", opc'[o] = "busy", file'[o] = s
      PROVE  \E p \in Openers \ {o} : Uses(p, s)
  <2>0. TypeOK
    BY <1>1 DEF IndInv
  <2>1. PICK r \in Slots : OpenTest(o, r)
    BY <1>1, <2>0 DEF Next, vars, Bind, ProbeAlloc, ProbeInit, ProbeFail,
       ProbeDone,
       Remove, OpenTest, Taken, OpenBusy, OpenAlloc, Release, files, TypeOK
  <2>2. r = s /\ in_use[s] - 1 # 0 /\ added[s] /\ in_use[s] \in Int
    BY <1>1, <2>0, <2>1 DEF OpenTest, Taken, TypeOK
  <2>3. in_use[s] = 1 - Cardinality(Users(s))
    BY <1>1, <2>2 DEF IndInv, InUseTally, Users
  <2>4. Cardinality(Users(s)) # 0
    BY <2>2, <2>3, FiniteCounts
  <2>5. Users(s) # {}
    BY <2>4, FS_EmptySet
  <2> QED
    BY <1>1, <2>5 DEF Users, Uses
<1>2. IndInv /\ [Next]_vars =>
        [\A o \in Openers, s \in Slots :
           opc[o] = "closed" /\ opc'[o] = "busy" /\ file'[o] = s
             => \E p \in Openers \ {o} : Uses(p, s)]_vars
  BY <1>1
<1> QED
  BY <1>2, CdevInvariant, PTL DEF Spec, BusyHasReason

\* While a function is bound its class is there.
LEMMA BoundHasClass ==
  ASSUME IndInv, NEW g \in Funcs, fpc[g] = "bound"
  PROVE  class = "live" /\ instances # 0
<1>1. TypeOK /\ slot[g] \in Slots /\ added[slot[g]]
  BY DEF IndInv, TypeOK, ProbeState
<1>2. class = "live"
  BY <1>1 DEF IndInv, ClassCovers
<1>3. g \in Holders
  BY DEF Holders
<1>4. Cardinality(Holders) # 0
  BY <1>3, FiniteCounts, FS_EmptySet
<1>5. instances # 0
  BY <1>4 DEF IndInv, InstancesCount, Holders
<1> QED
  BY <1>2, <1>5

\* A failing probe stops the kernel only while no function of the class is
\* bound, or on the first use of a device.
THEOREM OopsNeedsFirstUse ==
  ASSUME ~UnbindBusy
  PROVE  Spec => OopsOnFirstUse
<1>1. ASSUME IndInv, [Next]_vars, NEW f \in Funcs, NEW g \in Funcs,
             fpc[f] # "oops", fpc'[f] = "oops", classSet[slot'[f]],
             fpc[g] = "bound"
      PROVE  FALSE
  <2>0. TypeOK /\ class = "live" /\ instances # 0
    BY <1>1, BoundHasClass DEF IndInv
  <2>1. Bind(f)
    BY <1>1, <2>0 DEF Next, vars, Bind, ProbeAlloc, ProbeInit, ProbeFail,
       ProbeDone,
       Remove, OpenTest, OpenBusy, OpenAlloc, Release, probes, TypeOK
  <2>2. CASE ProbeAlloc(f)
    <3>1. class' = "live"
      BY <2>0, <2>2 DEF ProbeAlloc, ClassInit
    <3> QED
      BY <1>1, <2>0, <2>2, <3>1 DEF ProbeAlloc, probes, TypeOK
  <2>3. CASE ProbeInit(f)
    BY <1>1, <2>0, <2>3 DEF ProbeInit, TypeOK
  <2>4. CASE ProbeFail(f)
    BY <1>1, <2>0, <2>4 DEF ProbeFail, TypeOK
  <2>5. CASE ProbeDone(f)
    BY <1>1, <2>0, <2>5 DEF ProbeDone, TypeOK
  <2> QED
    BY <2>1, <2>2, <2>3, <2>4, <2>5 DEF Bind
<1>2. IndInv /\ [Next]_vars =>
        [\A f \in Funcs :
           fpc[f] # "oops" /\ fpc'[f] = "oops"
             => \/ ~classSet[slot'[f]]
                \/ \A g \in Funcs : fpc[g] # "bound"]_vars
  BY <1>1
<1> QED
  BY <1>2, CdevInvariant, PTL DEF Spec, OopsOnFirstUse
=============================================================================
