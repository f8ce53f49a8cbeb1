-------------------------------- MODULE Cdev --------------------------------
(***************************************************************************)
(* The character devices of module.c, shared by the update and the SRAM    *)
(* function: a class that exists while it has instances, a table of        *)
(* devices, and exclusive open.                                            *)
(*                                                                         *)
(* The driver core binds and unbinds functions one at a time; processes    *)
(* open and close device files at any time.                                *)
(***************************************************************************)
EXTENDS Integers, FiniteSets

CONSTANTS
  Count,        \* base->count
  Funcs,        \* functions (platform devices) the driver can be bound to
  Openers,      \* processes, one file descriptor each
  Failures,     \* calls that may fail
  UnbindBusy    \* may a function be unbound while its file is open?

ASSUME CdevAssumption ==
  /\ Count \in Nat \ {0}
  /\ IsFiniteSet(Funcs)
  /\ IsFiniteSet(Openers)
  /\ Failures \subseteq {"region", "class", "cdev_add", "kzalloc"}
  /\ UnbindBusy \in BOOLEAN

VARIABLES
  instances,  \* base->instances
  major,      \* base->dev # 0
  class,      \* what base->class points to
  dev,        \* devices[i].dev # 0
  in_use,     \* devices[i].in_use
  classSet,   \* devices[i].class # NULL
  added,      \* is devices[i].cdev known to the kernel?
  fpc,        \* progress of ccat_cdev_probe() of each function
  slot,       \* the device of each function
  opc,        \* progress of open() of each process
  file        \* the device each process works on

base    == <<instances, major, class>>
devices == <<dev, in_use, classSet, added>>
probes  == <<fpc, slot>>
files   == <<opc, file>>
vars    == <<instances, major, class, dev, in_use, classSet, added, fpc, slot,
             opc, file>>

Slots == 0 .. Count - 1

\* the device is between alloc_ccat_cdev() and free_ccat_cdev()
Binding(f) == fpc[f] \in {"init", "fail", "done"}

\* process o has decremented in_use of device s and not given it back
Uses(o, s) == opc[o] # "closed" /\ file[o] = s

(***************************************************************************)
(* ccat_cdev_probe()                                                       *)
(***************************************************************************)

\* ccat_class_init(): the first instance creates region and class.  Its
\* result is ignored by the caller, and class_create() reports errors with an
\* error pointer, which is not NULL.
ClassInit ==
  \/ /\ instances # 0
     /\ UNCHANGED <<major, class>>
  \/ /\ instances = 0
     /\ "region" \in Failures
     /\ UNCHANGED <<major, class>>
  \/ /\ instances = 0
     /\ "class" \in Failures
     /\ major' = TRUE
     /\ class' = "error"
  \/ /\ instances = 0
     /\ major' = TRUE
     /\ class' = "live"

\* alloc_ccat_cdev(): take the first free device; "exceeding max. number of
\* devices" gives the instance back, and reads the class to print its name
ProbeAlloc(f) ==
  /\ fpc[f] = "unbound"
  /\ \A g \in Funcs : ~Binding(g)
  /\ ClassInit
  /\ \/ \E s \in Slots :
          /\ ~dev[s]
          /\ \A r \in 0 .. s - 1 : dev[r]
          /\ instances' = instances + 1
          /\ dev' = [dev EXCEPT ![s] = major' \/ s # 0]
          /\ in_use' = [in_use EXCEPT ![s] = 1]
          /\ slot' = [slot EXCEPT ![f] = s]
          /\ fpc' = [fpc EXCEPT ![f] = "init"]
     \/ /\ \A s \in Slots : dev[s]
        /\ class' = "live"
        /\ UNCHANGED <<instances, dev, in_use, probes>>
     \/ /\ \A s \in Slots : dev[s]
        /\ class' # "live"
        /\ instances' = instances + 1
        /\ fpc' = [fpc EXCEPT ![f] = "oops"]
        /\ UNCHANGED <<dev, in_use, slot>>
  /\ UNCHANGED <<classSet, added, files>>

\* ccat_cdev_init(): class->name is read, so a class that is not there stops
\* the kernel; an error of device_create() is not noticed; cdev_add() lets
\* processes open the device
ProbeInit(f) ==
  /\ fpc[f] = "init"
  /\ \/ /\ class # "live"
        /\ fpc' = [fpc EXCEPT ![f] = "oops"]
        /\ UNCHANGED added
     \/ /\ class = "live"
        /\ added' = [added EXCEPT ![slot[f]] = TRUE]
        /\ fpc' = [fpc EXCEPT ![f] = "done"]
     \/ /\ class = "live"
        /\ "cdev_add" \in Failures
        /\ fpc' = [fpc EXCEPT ![f] = "fail"]
        /\ UNCHANGED added
  /\ UNCHANGED <<base, dev, in_use, classSet, slot, files>>

\* ccat_class_exit() that destroys the class one instance too early
ClassExit_Early ==
  /\ instances' = instances - 1
  /\ class' = IF instances' <= 1 THEN "gone" ELSE class

\* ccat_class_exit(): the last instance destroys class and region
ClassExit ==
  /\ instances' = instances - 1
  /\ class' = IF instances' = 0 THEN "gone" ELSE class

\* free_ccat_cdev() on failure: it looks for the class in ccdev->class, which
\* is set for the first time by a probe that succeeds
ProbeFail(f) ==
  /\ fpc[f] = "fail"
  /\ \/ /\ ~classSet[slot[f]]
        /\ fpc' = [fpc EXCEPT ![f] = "oops"]
        /\ UNCHANGED <<instances, class, dev>>
     \/ /\ classSet[slot[f]]
        /\ ClassExit
        /\ dev' = [dev EXCEPT ![slot[f]] = FALSE]
        /\ fpc' = [fpc EXCEPT ![f] = "unbound"]
  /\ UNCHANGED <<major, in_use, classSet, added, slot, files>>

ProbeDone(f) ==
  /\ fpc[f] = "done"
  /\ classSet' = [classSet EXCEPT ![slot[f]] = TRUE]
  /\ fpc' = [fpc EXCEPT ![f] = "bound"]
  /\ UNCHANGED <<base, dev, in_use, added, slot, files>>

\* ccat_cdev_remove(): cdev_del(), device_destroy(), free_ccat_cdev().  The
\* module cannot be removed while a file is open (fops.owner), but a function
\* can be unbound.
Remove(f) ==
  /\ fpc[f] = "bound"
  /\ \A g \in Funcs : ~Binding(g)
  /\ UnbindBusy \/ \A o \in Openers : ~Uses(o, slot[f])
  /\ added' = [added EXCEPT ![slot[f]] = FALSE]
  /\ ClassExit
  /\ dev' = [dev EXCEPT ![slot[f]] = FALSE]
  /\ fpc' = [fpc EXCEPT ![f] = "unbound"]
  /\ UNCHANGED <<major, in_use, classSet, slot, files>>

(***************************************************************************)
(* open() and close()                                                      *)
(***************************************************************************)

\* an open() that tests in_use for the wrong value
Taken_Wrong(s) == in_use[s] - 1 >= -1

\* atomic_dec_and_test()
Taken(s) == in_use[s] - 1 = 0

\* ccat_cdev_open()
OpenTest(o, s) ==
  /\ opc[o] = "closed"
  /\ added[s]
  /\ in_use' = [in_use EXCEPT ![s] = @ - 1]
  /\ file' = [file EXCEPT ![o] = s]
  /\ opc' = [opc EXCEPT ![o] = IF Taken(s) THEN "alloc" ELSE "busy"]
  /\ UNCHANGED <<base, dev, classSet, added, probes>>

\* the -EBUSY path without atomic_inc()
OpenBusy_NoInc(o) ==
  /\ opc[o] = "busy"
  /\ opc' = [opc EXCEPT ![o] = "closed"]
  /\ UNCHANGED <<base, devices, probes, file>>

\* -EBUSY: give back what was taken
OpenBusy(o) ==
  /\ opc[o] = "busy"
  /\ in_use' = [in_use EXCEPT ![file[o]] = @ + 1]
  /\ opc' = [opc EXCEPT ![o] = "closed"]
  /\ UNCHANGED <<base, dev, classSet, added, probes, file>>

\* kzalloc() of the buffer: the file is open, or -ENOMEM
OpenAlloc(o) ==
  /\ opc[o] = "alloc"
  /\ \/ /\ opc' = [opc EXCEPT ![o] = "open"]
        /\ UNCHANGED in_use
     \/ /\ "kzalloc" \in Failures
        /\ in_use' = [in_use EXCEPT ![file[o]] = @ + 1]
        /\ opc' = [opc EXCEPT ![o] = "closed"]
  /\ UNCHANGED <<base, dev, classSet, added, probes, file>>

\* ccat_cdev_release()
Release(o) ==
  /\ opc[o] = "open"
  /\ in_use' = [in_use EXCEPT ![file[o]] = @ + 1]
  /\ opc' = [opc EXCEPT ![o] = "closed"]
  /\ UNCHANGED <<base, dev, classSet, added, probes, file>>

(***************************************************************************)
(* The specification                                                       *)
(***************************************************************************)

\* static struct ccat_class and dev_table
Init ==
  /\ instances = 0
  /\ major = FALSE
  /\ class = "null"
  /\ dev = [s \in Slots |-> FALSE]
  /\ in_use = [s \in Slots |-> 0]
  /\ classSet = [s \in Slots |-> FALSE]
  /\ added = [s \in Slots |-> FALSE]
  /\ fpc = [f \in Funcs |-> "unbound"]
  /\ slot = [f \in Funcs |-> 0]
  /\ opc = [o \in Openers |-> "closed"]
  /\ file = [o \in Openers |-> 0]

Bind(f) == ProbeAlloc(f) \/ ProbeInit(f) \/ ProbeFail(f) \/ ProbeDone(f)

Next ==
  \/ \E f \in Funcs : Bind(f) \/ Remove(f)
  \/ \E o \in Openers :
       \/ \E s \in Slots : OpenTest(o, s)
       \/ OpenBusy(o)
       \/ OpenAlloc(o)
       \/ Release(o)

Spec == Init /\ [][Next]_vars

(***************************************************************************)
(* Properties                                                              *)
(***************************************************************************)

TypeOK ==
  /\ instances \in Nat
  /\ major \in BOOLEAN
  /\ class \in {"null", "error", "live", "gone"}
  /\ dev \in [Slots -> BOOLEAN]
  /\ in_use \in [Slots -> Int]
  /\ classSet \in [Slots -> BOOLEAN]
  /\ added \in [Slots -> BOOLEAN]
  /\ fpc \in [Funcs -> {"unbound", "init", "fail", "done", "bound", "oops"}]
  /\ slot \in [Funcs -> Slots]
  /\ opc \in [Openers -> {"closed", "busy", "alloc", "open"}]
  /\ file \in [Openers -> Slots]

\* A device file is open at most once, whatever the interleaving of opens,
\* failed opens and closes: ccat_cdev_open() has no lock, only in_use.  This
\* needs functions that stay bound while their file is open (~UnbindBusy).
ExclusiveOpen ==
  \A o, p \in Openers :
    /\ o # p
    /\ opc[o] \in {"alloc", "open"}
    /\ opc[p] \in {"alloc", "open"}
    => file[o] # file[p]

\* in_use of a device that can be opened counts exactly the processes inside
\* open() or between open() and close(): no path gains or loses a count, so a
\* device nobody uses can always be opened again.
InUseTally ==
  \A s \in Slots : added[s] =>
    in_use[s] = 1 - Cardinality({o \in Openers : Uses(o, s)})

\* The class outlives every device that was created in it, and no two
\* functions share a device.
ClassCovers ==
  /\ \A s \in Slots : added[s] => class = "live"
  /\ \A f, g \in Funcs :
       /\ f # g
       /\ fpc[f] \in {"done", "bound"}
       /\ fpc[g] \in {"done", "bound"}
       => slot[f] # slot[g]

\* base->instances counts the functions that took an instance of the class
\* and did not give it back.
InstancesCount ==
  /\ instances = Cardinality({f \in Funcs : fpc[f] # "unbound"})
  /\ class = "live" => major

\* What ccat_cdev_probe() and ccat_cdev_remove() of function f may rely on.
ProbeState(f) ==
  /\ \A g \in Funcs : Binding(f) /\ Binding(g) => f = g
  /\ fpc[f] \in {"done", "bound"} => added[slot[f]]
  /\ fpc[f] = "init" => /\ ~added[slot[f]]
                        /\ in_use[slot[f]] = 1
                        /\ class = "live" => dev[slot[f]]
  /\ fpc[f] = "fail" => ~added[slot[f]] /\ dev[slot[f]]

\* A device the kernel knows is taken, and by a function.
AddedDevice(s) == added[s] =>
  /\ dev[s]
  /\ \E f \in Funcs : fpc[f] \in {"done", "bound"} /\ slot[f] = s

\* The inductive invariant.
IndInv ==
  /\ TypeOK
  /\ InstancesCount
  /\ \A f \in Funcs : ProbeState(f)
  /\ \A s \in Slots : AddedDevice(s)
  /\ \A o \in Openers : opc[o] # "closed" => added[file[o]]
  /\ ExclusiveOpen
  /\ InUseTally
  /\ ClassCovers

\* A process that is told -EBUSY met another process inside open() or
\* between open() and close(): an idle device never refuses.
BusyHasReason ==
  [][\A o \in Openers, s \in Slots :
       opc[o] = "closed" /\ opc'[o] = "busy" /\ file'[o] = s
         => \E p \in Openers \ {o} : Uses(p, s)]_vars

\* A failure stops the kernel (the class is missing, or the error path of
\* ccat_cdev_probe() takes it from a device that has none) only while no
\* function of the class is bound or on the first use of a device: as long as
\* one function is bound, probing another one in a used device is harmless.
OopsOnFirstUse ==
  [][\A f \in Funcs :
       fpc[f] # "oops" /\ fpc'[f] = "oops"
         => \/ ~classSet[slot'[f]]
            \/ \A g \in Funcs : fpc[g] # "bound"]_vars
=============================================================================
