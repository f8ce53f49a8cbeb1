-------------------------------- MODULE Sram -------------------------------
(***************************************************************************)
(* The SRAM function (sram.c): an open file of /dev/ccat_sramN.            *)
(*                                                                         *)
(* read() and write() copy through buffer->data, from its start, one step  *)
(* for the copy on either side.  Threads that share the file share the     *)
(* buffer and the position; nothing locks them.                            *)
(***************************************************************************)
EXTENDS Integers, Sequences

CONSTANTS
  Threads,   \* that use the file
  IOSIZE,    \* ccdev->iosize
  Bytes,
  Zero       \* what kzalloc() leaves in the buffer

ASSUME SramAssumption ==
  /\ IOSIZE \in Nat \ {0}
  /\ Zero \notin Bytes

VARIABLES
  phase, \* "idle", "read" or "write": between the two copies
  pos,   \* f->f_pos
  off,   \* *off, the position at the start of a call
  data,  \* buffer->data
  bytes, \* the user's buffer: to write, or as read
  sram,  \* contents
  want   \* history: contents as the finished calls of write() left them

sram_vars == <<phase, pos, off, data, bytes, sram, want>>

Cells == 0 .. IOSIZE - 1

\* n cells of s from p on
Slice(s, p, n) == [i \in 1 .. n |-> s[p + i - 1]]

\* s with b stored from p on
Store(s, p, b) ==
  [c \in Cells |-> IF p <= c /\ c < p + Len(b) THEN b[c - p + 1] ELSE s[c]]

\* ccat_cdev_llseek()
Llseek(t, p) ==
  /\ phase[t] = "idle"
  /\ pos' = p
  /\ bytes' = [bytes EXCEPT ![t] = <<>>]
  /\ UNCHANGED <<phase, off, data, sram, want>>

\* a __sram_read() that always copies from the start of the SRAM
Source_Start == 0

\* __sram_read(): ioaddr + *off
Source == pos

\* ccat_sram_read(), up to memcpy_fromio()
Read(t, len) ==
  /\ phase[t] = "idle"
  /\ pos < IOSIZE
  /\ LET n == IF len < IOSIZE - pos THEN len ELSE IOSIZE - pos IN
     /\ data' = Store(data, 0, Slice(sram, Source, n))
     /\ bytes' = [bytes EXCEPT ![t] = [i \in 1 .. n |-> Zero]]
  /\ off' = [off EXCEPT ![t] = pos]
  /\ phase' = [phase EXCEPT ![t] = "read"]
  /\ UNCHANGED <<pos, sram, want>>

\* a call that adds the length to the new position
Moved_Twice(t) == off[t] + 2 * Len(bytes[t])

\* *off += len
Moved(t) == off[t] + Len(bytes[t])

\* __sram_read(): copy_to_user(), which may fail
ReadDone(t) ==
  /\ phase[t] = "read"
  /\ \/ /\ bytes' = [bytes EXCEPT ![t] = Slice(data, 0, Len(@))]
        /\ pos' = Moved(t)
     \/ /\ bytes' = [bytes EXCEPT ![t] = <<>>]
        /\ UNCHANGED pos
  /\ phase' = [phase EXCEPT ![t] = "idle"]
  /\ UNCHANGED <<off, data, sram, want>>

\* ccat_sram_write(), up to copy_from_user(), which may fail after k bytes
Write(t, b, k) ==
  /\ phase[t] = "idle"
  /\ pos + Len(b) <= IOSIZE
  /\ off' = [off EXCEPT ![t] = pos]
  /\ data' = Store(data, 0, [i \in 1 .. Len(b) |-> IF i <= k THEN b[i] ELSE Zero])
  /\ \/ /\ k = Len(b)
        /\ phase' = [phase EXCEPT ![t] = "write"]
        /\ bytes' = [bytes EXCEPT ![t] = b]
     \/ /\ k < Len(b)
        /\ bytes' = [bytes EXCEPT ![t] = <<>>]
        /\ UNCHANGED phase
  /\ UNCHANGED <<pos, sram, want>>

\* a ccat_sram_write() that takes the data from the position on
Payload_Offset(t) ==
  [i \in 1 .. Len(bytes[t]) |-> data[(off[t] + i - 1) % IOSIZE]]

\* ccat_sram_write(): the start of the buffer
Payload(t) == Slice(data, 0, Len(bytes[t]))

\* ccat_sram_write(): memcpy_toio()
WriteDone(t) ==
  /\ phase[t] = "write"
  /\ sram' = Store(sram, off[t], Payload(t))
  /\ want' = Store(want, off[t], bytes[t])
  /\ pos' = Moved(t)
  /\ bytes' = [bytes EXCEPT ![t] = <<>>]
  /\ phase' = [phase EXCEPT ![t] = "idle"]
  /\ UNCHANGED <<off, data>>

SramInit ==
  /\ phase = [t \in Threads |-> "idle"]
  /\ pos = 0
  /\ off = [t \in Threads |-> 0]
  /\ data = [c \in Cells |-> Zero]
  /\ bytes = [t \in Threads |-> <<>>]
  /\ sram = [c \in Cells |-> Zero]
  /\ want = sram

\* what is written in one call
Buffers == UNION {[1 .. n -> Bytes] : n \in 0 .. IOSIZE}

SramNext == \E t \in Threads :
  \/ \E p \in 0 .. IOSIZE : Llseek(t, p)
  \/ \E len \in 0 .. IOSIZE + 1 : Read(t, len)
  \/ ReadDone(t)
  \/ \E b \in Buffers : \E k \in 0 .. Len(b) : Write(t, b, k)
  \/ WriteDone(t)

SramSpec == SramInit /\ [][SramNext]_sram_vars

SramTypeOK ==
  /\ phase \in [Threads -> {"idle", "read", "write"}]
  /\ pos \in 0 .. IOSIZE
  /\ off \in [Threads -> 0 .. IOSIZE]
  /\ data \in [Cells -> Bytes \cup {Zero}]
  /\ bytes \in [Threads -> Seq(Bytes \cup {Zero})]
  /\ \A t \in Threads : Len(bytes[t]) <= IOSIZE
  /\ sram \in [Cells -> Bytes \cup {Zero}]
  /\ want \in [Cells -> Bytes \cup {Zero}]

\* The SRAM holds what was written, if one thread uses the file: write() stores
\* its own bytes at its position, one that fails and read() store nothing
\* (ccat_sram_write(), "@data: buffer used for write operations" of struct
\* cdev_buffer, which threads that share the file share as well).
SramHoldsWrites == sram = want

\* read() returns the contents from the position on and moves the position
\* by as much (__sram_read()).
ReadReturns ==
  [][\A t \in Threads :
       ReadDone(t) /\ bytes'[t] # <<>> =>
         /\ pos' <= IOSIZE
         /\ bytes'[t] = Slice(sram, off[t], pos' - off[t])]_sram_vars

\* A call in progress stays in the SRAM, whatever other threads do.
CallsFit == \A t \in Threads : phase[t] # "idle" => Moved(t) <= IOSIZE

\* One thread uses the file
OneThread == \A t, u \in Threads : t = u

\* Between its two copies a call finds its own bytes in the buffer.
BufferIsOwn ==
  \A t \in Threads :
    /\ phase[t] = "write" => Payload(t) = bytes[t]
    /\ phase[t] = "read" => Payload(t) = Slice(sram, off[t], Len(bytes[t]))

\* The inductive invariant: its second half needs OneThread
SramInv == SramTypeOK /\ CallsFit /\ (OneThread => SramHoldsWrites /\ BufferIsOwn)
=============================================================================
