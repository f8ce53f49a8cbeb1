---------------------------- MODULE SmallProofs ----------------------------
(***************************************************************************)
(* Proofs about the three small components: the GPIO function, an open     *)
(* file of the SRAM function and the EtherCAT test application, for any    *)
(* number of callers, lines and threads, any sizes and delays.             *)
(*                                                                         *)
(* The names of the three modules do not collide, so that they can be      *)
(* extended together; every theorem is about one of the specifications.    *)
(***************************************************************************)
EXTENDS Gpio, Sram, CyclicTask, TLAPS

(***************************************************************************)
(* The GPIO function                                                       *)
(***************************************************************************)

\* Initially no call is in progress and no bit is set.
LEMMA InitIndInv == Init => IndInv
<1> SUFFICES ASSUME Init PROVE IndInv
  OBVIOUS
<1>1. 0 \in Lines
  BY GpioAssumption DEF Lines
<1>2. TypeOK
  BY <1>1 DEF Init, TypeOK, NoCall, Registers, Written
<1>3. NoLostUpdate
  BY DEF Init, NoLostUpdate
<1> QED
  BY <1>2, <1>3 DEF Init, IndInv, DirectionHolds

\* A new call touches neither the registers nor the mutex.
LEMMA CallPreserves ==
  ASSUME IndInv, NEW c \in Callers, NEW reg \in Registers, NEW nr \in Lines,
         NEW val \in BOOLEAN, Call(c, reg, nr, val)
  PROVE  IndInv'
<1>1. TypeOK'
  BY DEF IndInv, TypeOK, Call, Goto
<1>2. NoLostUpdate'
  BY DEF IndInv, NoLostUpdate, Call
<1>3. DirectionHolds'
  BY DEF IndInv, TypeOK, DirectionHolds, Call, Goto
<1> QED
  BY <1>1, <1>2, <1>3 DEF IndInv, TypeOK, Call, Goto

\* The mutex is free, so nobody else is between its lock and its unlock.
LEMMA LockPreserves ==
  ASSUME IndInv, NEW c \in Callers, SetLock(c) \/ GetLock(c)
  PROVE  IndInv'
<1>1. CASE SetLock(c)
  <2>1. regs[call[c].reg] \cap FirstRegister = regs[call[c].reg]
    BY <1>1 DEF IndInv, TypeOK, SetLock
  <2>2. TypeOK'
    BY <1>1, <2>1 DEF IndInv, TypeOK, SetLock, Goto
  <2>3. NoLostUpdate' /\ DirectionHolds'
    BY <1>1 DEF IndInv, TypeOK, NoLostUpdate, DirectionHolds, SetLock, Goto
  <2>4. \A d \in Callers : d # c => pc[d] \notin {"write", "value"}
    BY <1>1, GpioAssumption DEF IndInv, SetLock
  <2> QED
    BY <1>1, <2>1, <2>2, <2>3, <2>4 DEF IndInv, TypeOK, SetLock, Goto
<1>2. CASE GetLock(c)
  <2>1. TypeOK'
    BY <1>2 DEF IndInv, TypeOK, GetLock, Goto
  <2>2. NoLostUpdate' /\ DirectionHolds'
    BY <1>2 DEF IndInv, TypeOK, NoLostUpdate, DirectionHolds, GetLock, Goto
  <2>3. \A d \in Callers : d # c => pc[d] \notin {"write", "value"}
    BY <1>2, GpioAssumption DEF IndInv, GetLock
  <2> QED
    BY <1>2, <2>1, <2>2, <2>3 DEF IndInv, TypeOK, GetLock, Goto
<1> QED
  BY <1>1, <1>2

\* The register still holds what was read, so only one bit changes.
LEMMA SetWritePreserves ==
  ASSUME IndInv, NEW c \in Callers, SetWrite(c)
  PROVE  IndInv'
<1> DEFINE reg == call[c].reg
           nr == call[c].nr
           val == call[c].val
<1>1. /\ reg \in Written /\ old[c] = regs[reg]
      /\ nr \in Lines /\ val \in BOOLEAN
      /\ pc[c] = "write" /\ owner = c
  BY DEF IndInv, TypeOK, SetWrite
<1>2. /\ regs' = [regs EXCEPT ![reg] = Changed(old[c], nr, val)]
      /\ last' = [last EXCEPT ![reg] = IF val THEN last[reg] \cup {nr}
                                              ELSE last[reg] \ {nr}]
      /\ Return(c)
  BY DEF SetWrite, IndInv, TypeOK
<1>3. \A d \in Callers : d # c => pc[d] \notin {"write", "value"}
  BY <1>1 DEF IndInv
<1>4. NoCall \in [reg : Registers, nr : Lines, val : BOOLEAN]
  BY GpioAssumption DEF NoCall, Registers, Lines
<1>5. TypeOK'
  <2>1. regs' \in [Written -> SUBSET FirstRegister]
    BY <1>1, <1>2 DEF IndInv, TypeOK, Changed
  <2>2. last' \in [Written -> SUBSET Lines]
    BY <1>1, <1>2 DEF IndInv, TypeOK
  <2> QED
    BY <1>2, <1>4, <2>1, <2>2 DEF IndInv, TypeOK, Return, Goto
<1>6. NoLostUpdate'
  <2>1. ASSUME NEW r \in Written, r # reg
        PROVE  regs'[r] = last'[r] \cap FirstRegister
    BY <1>1, <1>2, <2>1 DEF IndInv, TypeOK, NoLostUpdate
  <2>2. regs[reg] = last[reg] \cap FirstRegister
    BY <1>1 DEF IndInv, NoLostUpdate
  <2>3. regs'[reg] = Changed(regs[reg], nr, val)
    BY <1>1, <1>2 DEF IndInv, TypeOK
  <2>4. last'[reg] = IF val THEN last[reg] \cup {nr} ELSE last[reg] \ {nr}
    BY <1>1, <1>2 DEF IndInv, TypeOK
  <2>5. regs'[reg] = last'[reg] \cap FirstRegister
    BY <1>1, <2>2, <2>3, <2>4 DEF Changed
  <2> QED
    BY <2>1, <2>5 DEF NoLostUpdate, IndInv, TypeOK
<1>7. \A d \in Callers : pc'[d] \notin {"write", "value"}
  BY <1>2, <1>3 DEF Return, Goto, IndInv, TypeOK
<1> QED
  BY <1>5, <1>6, <1>7 DEF IndInv, DirectionHolds

\* Reading changes no register.
LEMMA GetValuePreserves ==
  ASSUME IndInv, NEW c \in Callers, GetValue(c)
  PROVE  IndInv'
<1>1. \A d \in Callers : d # c => pc[d] \notin {"write", "value"}
  BY DEF IndInv, GetValue
<1>2. NoCall \in [reg : Registers, nr : Lines, val : BOOLEAN]
  BY GpioAssumption DEF NoCall, Registers, Lines
<1>3. TypeOK'
  BY <1>2 DEF IndInv, TypeOK, GetValue, Return, Goto
<1>4. NoLostUpdate'
  BY DEF IndInv, NoLostUpdate, GetValue
<1>5. \A d \in Callers : pc'[d] \notin {"write", "value"}
  BY <1>1 DEF GetValue, Return, Goto, IndInv, TypeOK
<1> QED
  BY <1>3, <1>4, <1>5 DEF IndInv, DirectionHolds

\* IndInv holds in every reachable state: the mutex of set_bit_in_register()
\* and ccat_gpio_get() protects what was read until it is used.
THEOREM GpioInvariant == Spec => []IndInv
<1>1. IndInv /\ [Next]_vars => IndInv'
  <2> SUFFICES ASSUME IndInv, [Next]_vars PROVE IndInv'
    OBVIOUS
  <2>1. CASE UNCHANGED vars
    BY <2>1 DEF vars, IndInv, TypeOK, NoLostUpdate, DirectionHolds
  <2>2. CASE Next
    <3> PICK c \in Callers :
          \/ \E reg \in Written, nr \in Lines, val \in BOOLEAN : Call(c, reg, nr, val)
          \/ \E nr \in Lines : Call(c, "in", nr, FALSE)
          \/ SetLock(c) \/ SetWrite(c) \/ GetLock(c) \/ GetValue(c)
      BY <2>2 DEF Next
    <3>1. "in" \in Registers /\ Written \subseteq Registers
      BY DEF Registers
    <3> QED
      BY <3>1, CallPreserves, LockPreserves, SetWritePreserves, GetValuePreserves
  <2> QED
    BY <2>1, <2>2
<1> QED
  BY InitIndInv, <1>1, PTL DEF Spec

\* Concurrent calls for different lines never undo each other
\* (set_bit_in_register()).
THEOREM UpdatesAreKept == Spec => []NoLostUpdate
<1>1. IndInv => NoLostUpdate
  BY DEF IndInv
<1> QED
  BY GpioInvariant, <1>1, PTL

\* ccat_gpio_get() reads the register of the direction the line has.
THEOREM DirectionIsCurrent == Spec => []DirectionHolds
<1>1. IndInv => DirectionHolds
  BY DEF IndInv
<1> QED
  BY GpioInvariant, <1>1, PTL

(***************************************************************************)
(* The SRAM function                                                       *)
(***************************************************************************)

USE SramAssumption DEF SramAssumption

\* What is stored at the start of a buffer is found there.
LEMMA StoreSlice ==
  ASSUME NEW V, NEW s \in [Cells -> V], NEW b \in Seq(V),
         Len(b) <= IOSIZE
  PROVE  /\ Store(s, 0, b) \in [Cells -> V]
         /\ Slice(Store(s, 0, b), 0, Len(b)) = b
<1>1. Len(b) \in Nat /\ \A i \in 1 .. Len(b) : b[i] \in V
  OBVIOUS
<1>2. ASSUME NEW c \in Cells, 0 <= c, c < 0 + Len(b)
      PROVE  c - 0 + 1 \in 1 .. Len(b)
  BY <1>1, <1>2 DEF Cells
<1>3. Store(s, 0, b) \in [Cells -> V]
  BY <1>1, <1>2 DEF Store
<1>4. ASSUME NEW i \in 1 .. Len(b)
      PROVE  Store(s, 0, b)[0 + i - 1] = b[i]
  <2>1. /\ 0 + i - 1 \in Cells /\ 0 <= 0 + i - 1 /\ 0 + i - 1 < 0 + Len(b)
        /\ (0 + i - 1) - 0 + 1 = i
    BY <1>1 DEF Cells
  <2> QED BY <2>1 DEF Store
<1>5. b = [i \in 1 .. Len(b) |-> b[i]]
  OBVIOUS
<1> QED BY <1>3, <1>4, <1>5 DEF Slice

\* A part of the SRAM
LEMMA SliceType ==
  ASSUME NEW V, NEW s \in [Cells -> V], NEW p \in Nat,
         NEW n \in Nat, p + n <= IOSIZE
  PROVE  Slice(s, p, n) \in Seq(V) /\ Len(Slice(s, p, n)) = n
<1>1. \A i \in 1 .. n : s[p + i - 1] \in V
  BY DEF Cells
<1> QED BY <1>1 DEF Slice

\* A copy into a buffer leaves a buffer.
LEMMA StoreType ==
  ASSUME NEW V, NEW s \in [Cells -> V], NEW p \in Nat,
         NEW b \in Seq(V)
  PROVE  Store(s, p, b) \in [Cells -> V]
<1>1. ASSUME NEW c \in Cells, p <= c, c < p + Len(b)
      PROVE  c - p + 1 \in 1 .. Len(b) /\ b[c - p + 1] \in V
  BY <1>1 DEF Cells
<1> QED BY <1>1 DEF Store

\* llseek() moves the position of the file; a call in progress has its own.
LEMMA LlseekPreserves ==
  ASSUME SramInv, NEW t \in Threads, NEW p \in 0 .. IOSIZE,
         Llseek(t, p)
  PROVE  SramInv'
<1>1. SramTypeOK'
  BY DEF SramInv, SramTypeOK, Llseek, Cells
<1>2. \A u \in Threads : phase'[u] # "idle" => UNCHANGED <<phase[u], off[u], bytes[u]>>
  BY DEF SramInv, SramTypeOK, Llseek
<1>3. CallsFit'
  BY <1>2 DEF SramInv, CallsFit, Moved, Llseek
<1>4. OneThread => SramHoldsWrites' /\ BufferIsOwn'
  BY <1>2 DEF SramInv, SramHoldsWrites, BufferIsOwn, Payload, Llseek
<1> QED BY <1>1, <1>3, <1>4 DEF SramInv, OneThread

\* memcpy_fromio() leaves the part of the SRAM in the buffer.
LEMMA SramReadPreserves ==
  ASSUME SramInv, NEW t \in Threads,
         NEW len \in 0 .. IOSIZE + 1,
         Read(t, len)
  PROVE  SramInv'
<1> DEFINE V == Bytes \cup {Zero}
           n == IF len < IOSIZE - pos THEN len ELSE IOSIZE - pos
<1>1. /\ phase[t] = "idle" /\ pos < IOSIZE /\ UNCHANGED <<pos, sram, want>>
      /\ data' = Store(data, 0, Slice(sram, pos, n))
      /\ bytes' = [bytes EXCEPT ![t] = [i \in 1 .. n |-> Zero]]
      /\ off' = [off EXCEPT ![t] = pos]
      /\ phase' = [phase EXCEPT ![t] = "read"]
  BY DEF Read, Source
<1>2. pos \in Nat /\ n \in Nat /\ pos + n <= IOSIZE
  BY <1>1 DEF SramInv, SramTypeOK
<1> HIDE DEF n
<1>3. [i \in 1 .. n |-> Zero] \in Seq(V) /\ Len([i \in 1 .. n |-> Zero]) = n
  BY <1>2
<1>4. Slice(sram, pos, n) \in Seq(V) /\ Len(Slice(sram, pos, n)) = n
  <2>1. sram \in [Cells -> V]
    BY DEF SramInv, SramTypeOK
  <2> HIDE DEF V
  <2> QED BY <1>2, <2>1, SliceType
<1>5. /\ data' \in [Cells -> V] /\ Slice(data', 0, n) = Slice(sram, pos, n)
  <2>1. n <= IOSIZE /\ data \in [Cells -> V]
    BY <1>2 DEF SramInv, SramTypeOK
  <2> QED BY <1>1, <1>4, <2>1, StoreSlice
<1>6. SramTypeOK'
  <2>1. bytes' \in [Threads -> Seq(V)]
    BY <1>1, <1>3 DEF SramInv, SramTypeOK
  <2>2. \A u \in Threads : Len(bytes'[u]) <= IOSIZE
    BY <1>1, <1>2, <1>3 DEF SramInv, SramTypeOK
  <2> QED BY <1>1, <1>2, <1>5, <2>1, <2>2 DEF SramInv, SramTypeOK
<1>7. phase'[t] = "read" /\ off'[t] = pos /\ Len(bytes'[t]) = n
  BY <1>1, <1>3 DEF SramInv, SramTypeOK
<1>8. CallsFit'
  <2> SUFFICES ASSUME NEW u \in Threads, phase'[u] # "idle"
               PROVE  off'[u] + Len(bytes'[u]) <= IOSIZE
    BY DEF CallsFit, Moved
  <2>1. CASE u = t
    BY <1>2, <1>7, <2>1
  <2>2. CASE u # t
    BY <1>1, <2>2 DEF SramInv, SramTypeOK, CallsFit, Moved
  <2> QED BY <2>1, <2>2
<1>9. OneThread => SramHoldsWrites' /\ BufferIsOwn'
  <2> SUFFICES ASSUME OneThread PROVE SramHoldsWrites' /\ BufferIsOwn'
    OBVIOUS
  <2>1. Slice(data', 0, Len(bytes'[t])) = Slice(sram', off'[t], Len(bytes'[t]))
    BY <1>1, <1>5, <1>7
  <2>2. BufferIsOwn'
    BY <1>7, <2>1 DEF BufferIsOwn, Payload, OneThread
  <2> QED BY <1>1, <2>2 DEF SramInv, SramHoldsWrites
<1> QED BY <1>6, <1>8, <1>9 DEF SramInv, OneThread

\* copy_to_user() and memcpy_toio() end a call within the SRAM.
LEMMA DonePreserves ==
  ASSUME SramInv, NEW t \in Threads,
         ReadDone(t) \/ WriteDone(t)
  PROVE  SramInv'
<1> DEFINE V == Bytes \cup {Zero}
<1>1. /\ phase[t] # "idle" /\ phase' = [phase EXCEPT ![t] = "idle"]
      /\ UNCHANGED <<off, data>>
      /\ pos' = Moved(t) \/ pos' = pos
  BY DEF ReadDone, WriteDone
<1>2. /\ off[t] \in Nat /\ bytes[t] \in Seq(V) /\ Len(bytes[t]) \in Nat
      /\ off[t] + Len(bytes[t]) <= IOSIZE
  BY <1>1 DEF SramInv, SramTypeOK, CallsFit, Moved
<1>3. pos' \in 0 .. IOSIZE
  BY <1>1, <1>2 DEF Moved, SramInv, SramTypeOK
<1>4. Payload(t) \in Seq(V) /\ Len(Payload(t)) <= IOSIZE
  <2>1. 0 + Len(bytes[t]) <= IOSIZE
    BY <1>2
  <2>2. data \in [Cells -> V] /\ Len(bytes[t]) <= IOSIZE
    BY DEF SramInv, SramTypeOK
  <2> HIDE DEF V
  <2>3. Payload(t) \in Seq(V) /\ Len(Payload(t)) = Len(bytes[t])
    BY <1>2, <2>1, <2>2, SliceType DEF Payload
  <2> QED BY <2>2, <2>3
<1>5. \/ bytes' = [bytes EXCEPT ![t] = Payload(t)]
      \/ bytes' = [bytes EXCEPT ![t] = <<>>]
  BY <1>1 DEF ReadDone, WriteDone, Payload, SramInv, SramTypeOK
<1>6. /\ bytes' \in [Threads -> Seq(V)]
      /\ \A u \in Threads : u # t => bytes'[u] = bytes[u]
      /\ \A u \in Threads : Len(bytes'[u]) <= IOSIZE
  <2>1. /\ bytes \in [Threads -> Seq(V)] /\ <<>> \in Seq(V)
        /\ \A u \in Threads : Len(bytes[u]) <= IOSIZE
        /\ Len(<<>>) <= IOSIZE
    BY DEF SramInv, SramTypeOK
  <2> HIDE DEF V
  <2>2. ASSUME NEW p \in Seq(V), Len(p) <= IOSIZE, bytes' = [bytes EXCEPT ![t] = p]
        PROVE  /\ bytes' \in [Threads -> Seq(V)]
               /\ \A u \in Threads : u # t => bytes'[u] = bytes[u]
               /\ \A u \in Threads : Len(bytes'[u]) <= IOSIZE
    BY <2>1, <2>2
  <2> QED BY <1>4, <1>5, <2>1, <2>2, Zenon
<1>7. sram' \in [Cells -> V] /\ want' \in [Cells -> V]
  <2>1. CASE ReadDone(t)
    BY <2>1 DEF ReadDone, SramInv, SramTypeOK
  <2>2. CASE WriteDone(t)
    BY <1>2, <1>4, <2>2, StoreType DEF WriteDone, SramInv, SramTypeOK
  <2> QED BY <2>1, <2>2
<1>8. SramTypeOK'
  BY <1>1, <1>3, <1>6, <1>7 DEF SramInv, SramTypeOK
<1>9. CallsFit'
  BY <1>1, <1>6 DEF SramInv, SramTypeOK, CallsFit, Moved
<1>10. OneThread => SramHoldsWrites' /\ BufferIsOwn'
  <2> SUFFICES ASSUME OneThread PROVE SramHoldsWrites' /\ BufferIsOwn'
    OBVIOUS
  <2>1. phase'[t] = "idle"
    BY <1>1 DEF SramInv, SramTypeOK
  <2>2. BufferIsOwn'
    BY <2>1 DEF BufferIsOwn, OneThread
  <2>3. SramHoldsWrites'
    BY DEF ReadDone, WriteDone, SramInv, SramHoldsWrites, BufferIsOwn
  <2> QED BY <2>2, <2>3
<1> QED BY <1>8, <1>9, <1>10 DEF SramInv, OneThread

\* copy_from_user() leaves the bytes of the user in the buffer, or fails.
LEMMA SramWritePreserves ==
  ASSUME SramInv, NEW t \in Threads, NEW b \in Buffers,
         NEW k \in 0 .. Len(b), Write(t, b, k)
  PROVE  SramInv'
<1> DEFINE V == Bytes \cup {Zero}
           d == [i \in 1 .. Len(b) |-> IF i <= k THEN b[i] ELSE Zero]
<1>1. /\ phase[t] = "idle" /\ pos + Len(b) <= IOSIZE /\ UNCHANGED <<pos, sram, want>>
      /\ off' = [off EXCEPT ![t] = pos] /\ data' = Store(data, 0, d)
  BY DEF Write
<1>2. b \in Seq(V) /\ Len(b) \in Nat /\ pos \in Nat /\ Len(b) <= IOSIZE
  BY <1>1 DEF Buffers, SramInv, SramTypeOK
<1>3. d \in Seq(V) /\ Len(d) = Len(b) /\ (k = Len(b) => d = b)
  BY <1>2
<1> HIDE DEF d
<1>4. data' \in [Cells -> V] /\ Slice(data', 0, Len(b)) = d
  <2>1. data \in [Cells -> V]
    BY DEF SramInv, SramTypeOK
  <2> HIDE DEF V
  <2> QED BY <1>1, <1>2, <1>3, <2>1, StoreSlice
<1>5. CASE /\ k = Len(b) /\ phase' = [phase EXCEPT ![t] = "write"]
           /\ bytes' = [bytes EXCEPT ![t] = b]
  <2>1. bytes' \in [Threads -> Seq(V)]
    BY <1>2, <1>5 DEF SramInv, SramTypeOK
  <2>2. SramTypeOK'
    BY <1>1, <1>4, <1>5, <2>1 DEF SramInv, SramTypeOK
  <2>3. phase'[t] = "write" /\ off'[t] = pos /\ bytes'[t] = b
    BY <1>1, <1>5 DEF SramInv, SramTypeOK
  <2>4. CallsFit'
    <3> SUFFICES ASSUME NEW u \in Threads, phase'[u] # "idle"
                 PROVE  off'[u] + Len(bytes'[u]) <= IOSIZE
      BY DEF CallsFit, Moved
    <3>1. CASE u = t
      BY <1>1, <2>3, <3>1
    <3>2. CASE u # t
      BY <1>1, <1>5, <3>2 DEF SramInv, SramTypeOK, CallsFit, Moved
    <3> QED BY <3>1, <3>2
  <2>5. OneThread => BufferIsOwn'
    BY <1>3, <1>4, <1>5, <2>3 DEF BufferIsOwn, Payload, OneThread
  <2>6. OneThread => SramHoldsWrites'
    BY <1>1 DEF SramInv, SramHoldsWrites
  <2> QED BY <2>2, <2>4, <2>5, <2>6 DEF SramInv, OneThread
<1>6. CASE UNCHANGED phase /\ bytes' = [bytes EXCEPT ![t] = <<>>]
  <2>1. SramTypeOK'
    BY <1>1, <1>4, <1>6 DEF SramInv, SramTypeOK
  <2>2. CallsFit'
    BY <1>1, <1>6 DEF SramInv, SramTypeOK, CallsFit, Moved
  <2>3. OneThread => SramHoldsWrites' /\ BufferIsOwn'
    BY <1>1, <1>6 DEF SramInv, SramHoldsWrites, BufferIsOwn, OneThread
  <2> QED BY <2>1, <2>2, <2>3 DEF SramInv, OneThread
<1> QED BY <1>5, <1>6 DEF Write

LEMMA SramInitIndInv ==
  ASSUME SramInit
  PROVE  SramInv
BY DEF SramInit, SramInv, SramTypeOK, CallsFit,
   SramHoldsWrites, BufferIsOwn

LEMMA SramNextIndInv ==
  ASSUME SramInv, [SramNext]_sram_vars
  PROVE  SramInv'
<1>1. CASE SramNext
  BY <1>1, LlseekPreserves, SramReadPreserves, DonePreserves,
     SramWritePreserves DEF SramNext
<1>2. CASE UNCHANGED sram_vars
  BY <1>2 DEF sram_vars, SramInv, SramTypeOK, CallsFit, Moved, OneThread,
     SramHoldsWrites,
     BufferIsOwn, Payload
<1> QED BY <1>1, <1>2

\* The invariant of an open file of the SRAM function.  What it says of the
\* buffer holds for a file that one thread uses: nothing locks it.
THEOREM SramInvariant == SramSpec => []SramInv
<1>1. SramInit => SramInv
  BY SramInitIndInv
<1>2. SramInv /\ [SramNext]_sram_vars => SramInv'
  BY SramNextIndInv
<1> QED BY <1>1, <1>2, PTL DEF SramSpec

\* Position and calls of read(), write() and llseek() stay within the SRAM,
\* also when threads share the file.
THEOREM SramTypes == SramSpec => []SramTypeOK
<1>1. SramInv => SramTypeOK
  BY DEF SramInv
<1> QED BY <1>1, SramInvariant, PTL

\* ccat_sram_write() stores the bytes of the user at the position, and nothing
\* else ever changes the SRAM.
THEOREM WritesAreKept ==
  ASSUME OneThread
  PROVE  SramSpec => []SramHoldsWrites
<1>1. SramInv => SramHoldsWrites
  BY DEF SramInv
<1> QED BY <1>1, SramInvariant, PTL

\* __sram_read() returns the SRAM from the position on and moves the position
\* by as much.
THEOREM ReadsAreCorrect ==
  ASSUME OneThread
  PROVE  SramSpec => ReadReturns
<1> DEFINE A == \A t \in Threads :
                  ReadDone(t) /\ bytes'[t] # <<>> =>
                    /\ pos' <= IOSIZE
                    /\ bytes'[t] = Slice(sram, off[t], pos' - off[t])
<1>1. ASSUME SramInv, NEW t \in Threads, ReadDone(t), bytes'[t] # <<>>
      PROVE  /\ pos' <= IOSIZE
             /\ bytes'[t] = Slice(sram, off[t], pos' - off[t])
  <2>1. phase[t] = "read" /\ bytes'[t] = Payload(t) /\ pos' = off[t] + Len(bytes[t])
    BY <1>1 DEF ReadDone, Payload, Moved, SramInv, SramTypeOK
  <2>2. off[t] \in Nat /\ Len(bytes[t]) \in Nat /\ off[t] + Len(bytes[t]) <= IOSIZE
    BY <1>1, <2>1 DEF SramInv, SramTypeOK, CallsFit, Moved
  <2>3. pos' - off[t] = Len(bytes[t])
    BY <2>1, <2>2
  <2> QED BY <1>1, <2>1, <2>2, <2>3 DEF SramInv, BufferIsOwn
<1>2. SramInv /\ [SramNext]_sram_vars => [A]_sram_vars
  BY <1>1
<1> QED BY <1>2, SramInvariant, PTL DEF SramSpec, ReadReturns

(***************************************************************************)
(* The EtherCAT test application                                           *)
(***************************************************************************)

HIDE SramAssumption DEF SramAssumption

USE CyclicTaskAssumption DEF CyclicTaskAssumption

LEMMA CyclicInitIndInv ==
  ASSUME CyclicInit
  PROVE  CyclicInv
<1>1. cut \in BOOLEAN
  BY DEF CyclicInit
<1>2. CyclicTypeOK
  BY <1>1 DEF CyclicInit, CyclicTypeOK
<1>3. InStep
  BY DEF CyclicInit, InStep, Settled
<1> QED BY <1>2, <1>3 DEF CyclicInv

\* main() outside of cyclic_task(), the timer and the cable do not touch the
\* process data.
LEMMA OthersPreserve ==
  ASSUME CyclicInv,
         Pause \/ LoopEnd \/ Alarm \/ Cut
  PROVE  CyclicInv'
<1>1. UNCHANGED <<task, bus>>
  BY DEF Pause, LoopEnd, Alarm, Cut
<1>2. main_pc' \in {"loop", "paused", "test"} /\ pending' \in 0 .. MAX_PENDING + 1
  BY DEF Pause, LoopEnd, Alarm, Cut, Wake, CyclicInv, CyclicTypeOK
<1> cut' \in BOOLEAN
  <2>1. cut \in BOOLEAN /\ (cut' = cut \/ cut' = ~cut)
    BY DEF Pause, LoopEnd, Alarm, Cut, CyclicInv, CyclicTypeOK
  <2> QED BY <2>1
<1>3. CyclicTypeOK'
  BY <1>1, <1>2 DEF CyclicInv, CyclicTypeOK, task, bus
<1>4. InStep'
  BY <1>1 DEF CyclicInv, InStep, FewAsyncCycles, Settled, task, bus
<1> QED BY <1>3, <1>4 DEF CyclicInv

\* The frame that sets the outputs may carry old inputs; the next does not.
LEMMA BusPreserves ==
  ASSUME CyclicInv, Exchange \/ Lose
  PROVE  CyclicInv'
<1>1. UNCHANGED <<main_pc, pending, task, sent, cut>>
  BY DEF Exchange, Lose
<1>2. \/ answer' = wire /\ wire' = sent /\ flight' = "back"
      \/ flight' = "none" /\ UNCHANGED <<answer, wire>>
  BY DEF Exchange, Lose
<1>3. CyclicTypeOK'
  BY <1>1, <1>2 DEF CyclicInv, CyclicTypeOK, task
<1>4. Settled => Settled'
  BY <1>1, <1>2 DEF CyclicInv, InStep, Settled, task
<1>5. InStep'
  BY <1>1, <1>2, <1>4 DEF CyclicInv, InStep, FewAsyncCycles, task
<1> QED BY <1>3, <1>5 DEF CyclicInv

\* cyclic_task() keeps its counters and the outputs in their ranges.
LEMMA TaskTypes ==
  ASSUME CyclicInv, CyclicTask
  PROVE  CyclicTypeOK'
<1>1. Received \in 0 .. OUTPUTS - 1
  BY DEF Received, CyclicInv, CyclicTypeOK
<1>2. AsyncCycles \in 0 .. MAX_ASYNC /\ NextError \in 0 .. ERROR_MAX
  BY DEF AsyncCycles, NextError, CyclicInv, CyclicTypeOK
<1>3. NextOutput \in 0 .. OUTPUTS - 1
  BY DEF NextOutput, CyclicInv, CyclicTypeOK
<1>4. /\ counter' \in Nat /\ outputValue' \in 0 .. OUTPUTS - 1
      /\ pending' \in 0 .. MAX_PENDING + 1
  BY <1>3 DEF CyclicTask, CyclicInv, CyclicTypeOK
<1>5. missed' \in 0 .. MAX_ASYNC
  BY DEF CyclicTask, CyclicInv, CyclicTypeOK
<1> QED BY <1>1, <1>2, <1>4, <1>5 DEF CyclicTask, CyclicInv, CyclicTypeOK

\* A cycle whose inputs do not follow, with few frames missed: it cannot be
\* one that changes the outputs.
LEMMA AsyncTask ==
  ASSUME CyclicInv, CyclicTask, Async,
         missed' \in Nat, missed' < 2
  PROVE  /\ numAsyncCycles' <= 2
         /\ InStep'
<1>0. /\ missed \in Nat /\ counter \in Nat /\ numAsyncCycles \in Nat
  BY DEF CyclicInv, CyclicTypeOK
<1>1. missed' = IF flight = "back" THEN missed ELSE missed + 1
  BY <1>0 DEF CyclicTask, CyclicInv, CyclicTypeOK
<1>2. missed < 2
  BY <1>0, <1>1
<1>3. inputs # outputValue /\ FewAsyncCycles
  BY <1>0, <1>2 DEF CyclicInv, InStep, Async, Received, Settled
<1>4. counter > 0 /\ numAsyncCycles <= 2
  BY <1>0, <1>2, <1>3 DEF FewAsyncCycles
<1>5. /\ counter' = counter - 1 /\ UNCHANGED <<outputValue, wire>>
      /\ flight' = "sent" /\ sent' = outputValue /\ inputs' = Received
  BY <1>0, <1>4 DEF CyclicTask
<1>6. numAsyncCycles' = numAsyncCycles + 1
  BY <1>0, <1>4 DEF CyclicTask, AsyncCycles
<1>7. flight = "back" => numAsyncCycles <= missed /\ wire = outputValue
  BY <1>0, <1>3 DEF FewAsyncCycles, Settled, CyclicInv, InStep, Async,
     Received
<1>8. numAsyncCycles' <= missed' + 1
  BY <1>0, <1>1, <1>3, <1>6, <1>7 DEF FewAsyncCycles
<1>9. numAsyncCycles' = missed' + 1 => Settled'
  BY <1>0, <1>1, <1>3, <1>5, <1>6, <1>7 DEF FewAsyncCycles, Settled
<1>10. numAsyncCycles' = UPDATE_DELAY - counter'
  BY <1>0, <1>3, <1>5, <1>6 DEF FewAsyncCycles
<1>11. inputs' # outputValue'
  BY <1>5 DEF Async
<1>12. FewAsyncCycles'
  BY <1>8, <1>9, <1>10 DEF FewAsyncCycles
<1>13. InStep'
  BY <1>5, <1>11, <1>12 DEF InStep
<1>14. numAsyncCycles' <= 2
  <2>1. \A a, m \in Nat : m < 2 /\ a <= m + 1 => a <= 2
    OBVIOUS
  <2>2. numAsyncCycles' \in Nat
    BY <1>0, <1>6
  <2> QED BY <1>8, <2>1, <2>2, Zenon
<1> QED BY <1>13, <1>14

\* A cycle whose inputs follow: by then the outputs are set.
LEMMA SyncTask ==
  ASSUME CyclicInv, CyclicTask, ~Async,
         missed' \in Nat, missed' < 2
  PROVE  InStep'
<1>1. /\ numAsyncCycles' = 0 /\ flight' = "sent" /\ sent' = outputValue'
      /\ inputs' = outputValue /\ UNCHANGED wire
  BY DEF CyclicTask, AsyncCycles, Async
<1>2. wire = outputValue /\ missed' = 0
  BY DEF CyclicTask, CyclicInv, CyclicTypeOK, InStep, Settled, Async,
     Received
<1>3. CASE UNCHANGED outputValue
  BY <1>1, <1>2, <1>3 DEF InStep, Settled
<1>4. CASE counter' = UPDATE_DELAY /\ outputValue' = NextOutput
  <2>1. NextOutput # outputValue
    BY DEF NextOutput, CyclicInv, CyclicTypeOK
  <2> QED BY <1>1, <1>2, <1>4, <2>1 DEF InStep, FewAsyncCycles
<1> QED BY <1>3, <1>4 DEF CyclicTask

LEMMA TaskPreserves ==
  ASSUME CyclicInv, CyclicTask
  PROVE  CyclicInv'
<1>1. CyclicTypeOK'
  BY TaskTypes
<1>2. missed' \in Nat
  BY <1>1 DEF CyclicTypeOK
<1>3. CASE missed' < 2
  BY <1>1, <1>2, <1>3, AsyncTask, SyncTask DEF CyclicInv
<1>4. CASE missed' >= 2
  BY <1>1, <1>4 DEF CyclicInv, InStep, CyclicTask
<1> QED BY <1>2, <1>3, <1>4

LEMMA CyclicNextIndInv ==
  ASSUME CyclicInv, [CyclicNext]_cyclic_vars
  PROVE  CyclicInv'
<1>1. CASE CyclicNext
  BY <1>1, OthersPreserve, BusPreserves, TaskPreserves DEF CyclicNext, Main
<1>2. CASE UNCHANGED cyclic_vars
  BY <1>2 DEF cyclic_vars, CyclicInv, CyclicTypeOK, InStep, FewAsyncCycles, Settled
<1> QED BY <1>1, <1>2

\* The invariant of the test application: how far the inputs may be behind.
THEOREM CyclicInvariant == CyclicSpec => []CyclicInv
<1>1. CyclicInit => CyclicInv
  BY CyclicInitIndInv
<1>2. CyclicInv /\ [CyclicNext]_cyclic_vars => CyclicInv'
  BY CyclicNextIndInv
<1> QED BY <1>1, <1>2, PTL DEF CyclicSpec

\* No counter of cyclic_task() leaves its range, for any range of the outputs
\* and any delays.
THEOREM CyclicTypes == CyclicSpec => []CyclicTypeOK
<1>1. CyclicInv => CyclicTypeOK
  BY DEF CyclicInv
<1> QED BY <1>1, CyclicInvariant, PTL

\* cyclic_task() counts an error only if two cycles had no answer: a single
\* lost or late frame is tolerated, wherever it falls, if the outputs are held
\* for at least three cycles.
THEOREM ErrorsHaveCauses == CyclicSpec => ErrorHasCause
<1> DEFINE A == error' # error => error' = error + 1 /\ missed' >= 2
<1>1. ASSUME CyclicInv, [CyclicNext]_cyclic_vars, error' # error
      PROVE  error' = error + 1 /\ missed' >= 2
  <2>1. CyclicTask
    BY <1>1 DEF CyclicNext, Main, Pause, LoopEnd, Alarm, Exchange,
       Lose, Cut, task, cyclic_vars
  <2>2. Late /\ error' = error + 1
    BY <1>1, <2>1 DEF CyclicTask, NextError
  <2>3. Async /\ numAsyncCycles' > 2
    BY <2>1, <2>2 DEF CyclicTask, Late, AsyncCycles
  <2>4. missed' \in Nat /\ numAsyncCycles' \in Nat
    BY <1>1, <2>1, TaskTypes DEF CyclicTypeOK
  <2> QED BY <1>1, <2>1, <2>2, <2>3, <2>4, AsyncTask
<1>2. CyclicInv /\ [CyclicNext]_cyclic_vars => [A]_cyclic_vars
  BY <1>1
<1> QED BY <1>2, CyclicInvariant, PTL DEF CyclicSpec, ErrorHasCause
=============================================================================
