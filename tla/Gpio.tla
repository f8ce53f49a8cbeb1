-------------------------------- MODULE Gpio -------------------------------
(***************************************************************************)
(* The GPIO function (gpio.c): callers on several CPUs that set and read   *)
(* lines through the same registers.  A register is changed by reading it, *)
(* changing a bit and writing it back, under a mutex.                      *)
(*                                                                         *)
(* A register is the set of lines whose bit is set.  Labels of a caller:   *)
(*   idle -> lock -> write | value -> idle                                 *)
(***************************************************************************)
EXTENDS Integers, FiniteSets

CONSTANTS
  Callers,
  NGPIO,     \* chip.ngpio
  WIDTH,     \* bits of a register: 32
  Nobody

ASSUME GpioAssumption ==
  /\ NGPIO \in Nat \ {0}
  /\ WIDTH \in Nat \ {0}
  /\ Nobody \notin Callers

VARIABLES
  pc,
  call,      \* what the caller asked for: [reg, nr, val]
  owner,     \* owner of gpio->lock
  old,       \* old of set_bit_in_register()
  input,     \* direction that ccat_gpio_get() has read
  regs,      \* output values (0x0), directions (0x8) and inputs (0x10)
  last       \* history: the bits the finished calls asked for

vars == <<pc, call, owner, old, input, regs, last>>

Lines     == 0 .. NGPIO - 1
Written   == {"out", "dir"}
Registers == Written \cup {"in"}

\* lines in the first register of a bank: the only one that is written
FirstRegister == {nr \in Lines : nr < WIDTH}

Goto(c, label) == pc' = [pc EXCEPT ![c] = label]

NoCall == [reg |-> "in", nr |-> 0, val |-> FALSE]

\* the call returns
Return(c) ==
  /\ owner' = Nobody
  /\ Goto(c, "idle")
  /\ call' = [call EXCEPT ![c] = NoCall]
  /\ old' = [old EXCEPT ![c] = {}]
  /\ input' = [input EXCEPT ![c] = FALSE]

\* ccat_gpio_set(), ccat_gpio_direction_input(), ccat_gpio_direction_output(),
\* ccat_gpio_get()
Call(c, reg, nr, val) ==
  /\ pc[c] = "idle"
  /\ call' = [call EXCEPT ![c] = [reg |-> reg, nr |-> nr, val |-> val]]
  /\ Goto(c, "lock")
  /\ UNCHANGED <<owner, old, input, regs, last>>

\* a set_bit_in_register() without the mutex
SetLock_Missing(c) ==
  /\ pc[c] = "lock"
  /\ call[c].reg \in Written
  /\ old' = [old EXCEPT ![c] = regs[call[c].reg] \cap FirstRegister]
  /\ Goto(c, "write")
  /\ UNCHANGED <<call, owner, input, regs, last>>

\* set_bit_in_register(): mutex_lock() and ioread32()
SetLock(c) ==
  /\ pc[c] = "lock"
  /\ call[c].reg \in Written
  /\ owner = Nobody
  /\ owner' = c
  /\ old' = [old EXCEPT ![c] = regs[call[c].reg] \cap FirstRegister]
  /\ Goto(c, "write")
  /\ UNCHANGED <<call, input, regs, last>>

\* set_bit(), clear_bit() on an unsigned long and iowrite32(): the bit of a
\* line that is not in the first register is lost
Changed(bits, nr, val) ==
  (IF val THEN bits \cup {nr} ELSE bits \ {nr}) \cap FirstRegister

\* set_bit_in_register(): iowrite32() and mutex_unlock()
SetWrite(c) ==
  LET reg == call[c].reg
      nr  == call[c].nr
      val == call[c].val
  IN /\ pc[c] = "write"
     /\ regs' = [regs EXCEPT ![reg] = Changed(old[c], nr, val)]
     /\ last' = [last EXCEPT ![reg] = IF val THEN @ \cup {nr} ELSE @ \ {nr}]
     /\ Return(c)

\* a ccat_gpio_get() without the mutex
GetLock_Missing(c) ==
  /\ pc[c] = "lock"
  /\ call[c].reg = "in"
  /\ input' = [input EXCEPT ![c] = call[c].nr \notin regs["dir"]]
  /\ Goto(c, "value")
  /\ UNCHANGED <<call, owner, old, regs, last>>

\* ccat_gpio_get(): mutex_lock() and ccat_gpio_get_direction()
GetLock(c) ==
  /\ pc[c] = "lock"
  /\ call[c].reg = "in"
  /\ owner = Nobody
  /\ owner' = c
  /\ input' = [input EXCEPT ![c] = call[c].nr \notin regs["dir"]]
  /\ Goto(c, "value")
  /\ UNCHANGED <<call, old, regs, last>>

\* ccat_gpio_get(): the value is read from the register for the direction
GetValue(c) ==
  /\ pc[c] = "value"
  /\ Return(c)
  /\ UNCHANGED <<regs, last>>

Init ==
  /\ pc = [c \in Callers |-> "idle"]
  /\ call = [c \in Callers |-> NoCall]
  /\ owner = Nobody
  /\ old = [c \in Callers |-> {}]
  /\ input = [c \in Callers |-> FALSE]
  /\ regs = [r \in Written |-> {}]
  /\ last = [r \in Written |-> {}]

Next == \E c \in Callers :
  \/ \E reg \in Written, nr \in Lines, val \in BOOLEAN : Call(c, reg, nr, val)
  \/ \E nr \in Lines : Call(c, "in", nr, FALSE)
  \/ SetLock(c) \/ SetWrite(c) \/ GetLock(c) \/ GetValue(c)

Spec == Init /\ [][Next]_vars

TypeOK ==
  /\ pc \in [Callers -> {"idle", "lock", "write", "value"}]
  /\ call \in [Callers -> [reg : Registers, nr : Lines, val : BOOLEAN]]
  /\ owner \in Callers \cup {Nobody}
  /\ old \in [Callers -> SUBSET FirstRegister]
  /\ input \in [Callers -> BOOLEAN]
  /\ regs \in [Written -> SUBSET FirstRegister]
  /\ last \in [Written -> SUBSET Lines]

\* No update is lost: every line of the first register has the value and the
\* direction that the last call for it asked for, whatever calls for other
\* lines ran at the same time (set_bit_in_register()).
NoLostUpdate == \A r \in Written : regs[r] = last[r] \cap FirstRegister

\* "omit direction changes before value was read" (ccat_gpio_get()): the
\* direction that selects the register is still the one of the line when the
\* value is read.
DirectionHolds ==
  \A c \in Callers :
    pc[c] = "value" => input[c] = (call[c].nr \notin regs["dir"])

\* What makes the two inductive: whoever is between the lock and the unlock
\* owns the mutex, and what it has read is still in the register.
IndInv ==
  /\ TypeOK
  /\ NoLostUpdate
  /\ DirectionHolds
  /\ \A c \in Callers :
       /\ pc[c] \in {"write", "value"} => owner = c
       /\ pc[c] = "write" => call[c].reg \in Written /\ old[c] = regs[call[c].reg]
=============================================================================
