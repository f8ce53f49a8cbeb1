---------------------------- MODULE FlashUpdate ----------------------------
(***************************************************************************)
(* The FPGA update function (update.c): one file of /dev/ccat_updateN and  *)
(* the configuration flash behind it.                                      *)
(*                                                                         *)
(* write() only fills a buffer; closing the file erases the flash and      *)
(* programs it block by block.  Opening is exclusive (module Cdev), so     *)
(* there is one file at a time.  Power may fail at any time.  Labels:      *)
(*   closed -> open (-> read)                                              *)
(*   open -> enable_erase -> erase -> erasing                              *)
(*        -> enable -> program -> programming -> enable | closed           *)
(*   any -> off -> closed, when power fails                                *)
(***************************************************************************)
EXTENDS Integers, Sequences

CONSTANTS
  FLASH_SIZE,        \* CCAT_FLASH_SIZE
  WRITE_BLOCK_SIZE,  \* CCAT_WRITE_BLOCK_SIZE
  DATA_BLOCK_SIZE,   \* CCAT_DATA_BLOCK_SIZE
  Bytes,             \* bytes the user writes
  Zero,              \* 0x00, what kzalloc() leaves in the buffer
  Erased,            \* 0xff, what BULK_ERASE leaves in the flash
  Unknown            \* no byte: contents nobody can tell

ASSUME FlashUpdateAssumption ==
  /\ FLASH_SIZE \in Nat \ {0}
  /\ WRITE_BLOCK_SIZE \in Nat \ {0}
  /\ DATA_BLOCK_SIZE \in Nat \ {0}
  /\ Zero # Erased
  /\ Unknown \notin Bytes \cup {Zero, Erased}

VARIABLES
  pc,      \* label of the process that has the file open
  data,    \* buffer->data
  size,    \* buffer->size
  pos,     \* *off, the file position
  off,     \* the offset in the loops of ccat_write_flash(), ccat_read_flash()
  len,     \* what these loops still have to do
  start,   \* start of ccat_read_flash()
  out,     \* bytes the latest read() delivered, until the next call
  flash,   \* contents of the flash
  chip,    \* what the flash is doing: "idle", "erase" or "program"
  block,   \* the cells a running "program" writes
  enabled, \* write enable latch of the flash
  image    \* history: the file as the calls of write() built it

file == <<data, size, pos>>
loop == <<off, len>>
user == <<start, out, image>>
prom == <<flash, chip, block, enabled>>
vars == <<pc, data, size, pos, off, len, start, out, image,
          flash, chip, block, enabled>>

Cells  == 0 .. FLASH_SIZE - 1
Values == Bytes \cup {Zero, Erased}

\* close() is at work
Closing == pc \notin {"off", "closed", "open", "read"}

\* the device this implements
Device == INSTANCE FlashDevice WITH
  Values   <- Values \cup {Unknown},
  state    <- IF pc \in {"off", "closed"} THEN pc
              ELSE IF Closing THEN "closing" ELSE "open",
  out      <- IF pc = "read" THEN <<>> ELSE out,
  contents <- IF Closing THEN Unknown ELSE flash

(***************************************************************************)
(* open(), write(), read()                                                 *)
(***************************************************************************)

\* the buffer is freed and the calls in progress are over
Forget ==
  /\ data' = [c \in Cells |-> Zero]
  /\ size' = 0
  /\ pos' = 0
  /\ off' = 0
  /\ len' = 0
  /\ start' = 0
  /\ out' = <<>>
  /\ image' = <<>>

\* ccat_cdev_open(): Forget has left a buffer of zeros
Open ==
  /\ pc = "closed"
  /\ pc' = "open"
  /\ UNCHANGED <<file, loop, user, prom>>

\* a ccat_update_write() that forgets the position
Fits_Anywhere(n) == n <= FLASH_SIZE

\* ccat_update_write(): *off + len > iosize is refused
Fits(n) == pos + n <= FLASH_SIZE

\* a ccat_update_write() that adds up what it was given
NewSize_Sum(n) == size + n

\* buffer->size after len bytes
NewSize(n) == pos + n

\* ccat_update_write(): nothing is taken if not everything fits
Write(n, b) ==
  /\ pc = "open"
  /\ Fits(n)
  /\ data' = [c \in Cells |-> IF pos <= c /\ c < pos + n THEN b ELSE data[c]]
  /\ pos' = pos + n
  /\ size' = NewSize(n)
  /\ image' = Device!Put(image, pos, n, b)
  /\ out' = <<>>
  /\ start' = 0
  /\ UNCHANGED <<pc, loop, prom>>

\* copy_from_user() fails after k bytes and clears the rest: -EFAULT
WriteFault(n, k, b) ==
  /\ pc = "open"
  /\ Fits(n)
  /\ data' = [c \in Cells |-> IF pos <= c /\ c < pos + k THEN b
                              ELSE IF pos + k <= c /\ c < pos + n THEN Zero
                              ELSE data[c]]
  /\ out' = <<>>
  /\ start' = 0
  /\ UNCHANGED <<pc, size, pos, loop, image, prom>>

\* ccat_update_read(): as much as is left
Read(n) ==
  /\ pc = "open"
  /\ pos < FLASH_SIZE
  /\ len' = IF n < FLASH_SIZE - pos THEN n ELSE FLASH_SIZE - pos
  /\ start' = pos
  /\ out' = <<>>
  /\ pc' = "read"
  /\ UNCHANGED <<file, off, image, prom>>

\* a ccat_read_flash() that reads every block from the same address
Block_Stuck(n) == [i \in 1 .. n |-> flash[start + i - 1]]

\* ccat_read_flash_block()
Block(n) == [i \in 1 .. n |-> flash[pos + i - 1]]

\* ccat_read_flash(): one block; the last one ends the call
ReadFlash ==
  /\ pc = "read"
  /\ LET n == IF len > DATA_BLOCK_SIZE THEN DATA_BLOCK_SIZE ELSE len IN
     /\ out' = out \o Block(n)
     /\ pos' = pos + n
     /\ len' = len - n
     /\ pc' = IF len > DATA_BLOCK_SIZE THEN "read" ELSE "open"
  /\ UNCHANGED <<data, size, off, start, image, prom>>

(***************************************************************************)
(* close(): ccat_update_release()                                          *)
(***************************************************************************)

\* a file nobody wrote to is just closed
Close ==
  /\ pc = "open"
  /\ \/ /\ size = 0
        /\ pc' = "closed"
        /\ Forget
     \/ /\ size > 0
        /\ pc' = "enable_erase"
        /\ start' = 0
        /\ out' = <<>>
        /\ UNCHANGED <<file, loop, image>>
  /\ UNCHANGED prom

\* The flash executes a command only if it is idle, and erases and programs
\* only if writing is enabled; that ends when it is done.
WriteEnable == enabled' = (enabled \/ chip = "idle")

Command(op) == chip' = IF chip = "idle" /\ enabled THEN op ELSE chip

EnableErase ==
  /\ pc = "enable_erase"
  /\ WriteEnable
  /\ pc' = "erase"
  /\ UNCHANGED <<file, loop, user, flash, chip, block>>

Erase ==
  /\ pc = "erase"
  /\ Command("erase")
  /\ pc' = "erasing"
  /\ UNCHANGED <<file, loop, user, flash, block, enabled>>

\* a ccat_wait_status_cleared() that looks at the wrong bit of the status
StatusCleared_WrongBit == chip = "idle" /\ enabled

\* ccat_wait_status_cleared(): bit 7 of the status
StatusCleared == chip = "idle"

\* ccat_wait_status_cleared(), then ccat_write_flash()
EraseWait ==
  /\ pc = "erasing"
  /\ StatusCleared
  /\ off' = 0
  /\ len' = size
  /\ pc' = "enable"
  /\ UNCHANGED <<file, user, prom>>

\* ccat_write_flash_block(): CCAT_WRITE_ENABLE
Enable ==
  /\ pc = "enable"
  /\ WriteEnable
  /\ pc' = "program"
  /\ UNCHANGED <<file, loop, user, flash, chip, block>>

\* how much the current turn of ccat_write_flash() programs
Turn == IF len > WRITE_BLOCK_SIZE THEN WRITE_BLOCK_SIZE ELSE len

\* ccat_write_flash_block(): CCAT_WRITE_FLASH
Program ==
  /\ pc = "program"
  /\ Command("program")
  /\ block' = off .. off + Turn - 1
  /\ pc' = "programming"
  /\ UNCHANGED <<file, loop, user, flash, enabled>>

\* ccat_write_flash(): where the next block goes
NextOff == off + WRITE_BLOCK_SIZE

\* ccat_wait_status_cleared() and the end of a turn of ccat_write_flash();
\* after the last one ccat_cdev_release()
ProgramWait ==
  /\ pc = "programming"
  /\ StatusCleared
  /\ UNCHANGED prom
  /\ \/ /\ len > WRITE_BLOCK_SIZE
        /\ off' = NextOff
        /\ len' = len - WRITE_BLOCK_SIZE
        /\ pc' = "enable"
        /\ UNCHANGED <<file, start, out, image>>
     \/ /\ len <= WRITE_BLOCK_SIZE
        /\ pc' = "closed"
        /\ Forget

Release ==
  \/ EnableErase \/ Erase \/ EraseWait \/ Enable \/ Program \/ ProgramWait

(***************************************************************************)
(* The flash                                                               *)
(***************************************************************************)

\* programming clears bits: what was not erased is spoilt
Programmed(c) == IF flash[c] = Erased THEN data[c] ELSE Unknown

\* the contents when the chip has dealt with the cells in S
After(S) == [c \in Cells |-> IF c \notin S THEN flash[c]
                             ELSE IF chip = "erase" THEN Erased
                             ELSE Programmed(c)]

Busy == IF chip = "erase" THEN Cells ELSE block

ChipDone ==
  /\ chip # "idle"
  /\ flash' = After(Busy)
  /\ chip' = "idle"
  /\ enabled' = FALSE
  /\ block' = {}
  /\ UNCHANGED <<pc, file, loop, user>>

\* Power fails: the host forgets everything, the flash keeps what it has and
\* a running command has reached some of the cells.
PowerFail ==
  /\ \/ chip = "idle" /\ UNCHANGED flash
     \/ chip # "idle" /\ \E S \in SUBSET Busy : flash' = After(S)
  /\ chip' = "idle"
  /\ enabled' = FALSE
  /\ pc' = "off"
  /\ block' = {}
  /\ Forget

PowerOn ==
  /\ pc = "off"
  /\ pc' = "closed"
  /\ UNCHANGED <<file, loop, user, prom>>

(***************************************************************************)
(* The specification                                                       *)
(***************************************************************************)

Init ==
  /\ pc = "closed"
  /\ data = [c \in Cells |-> Zero]
  /\ size = 0
  /\ pos = 0
  /\ off = 0
  /\ len = 0
  /\ start = 0
  /\ out = <<>>
  /\ image = <<>>
  /\ flash \in [Cells -> Values]
  /\ chip = "idle"
  /\ block = {}
  /\ enabled = FALSE

Next ==
  \/ Open
  \/ \E n \in 0 .. FLASH_SIZE, b \in Bytes : Write(n, b)
  \/ \E n \in 1 .. FLASH_SIZE, k \in 0 .. FLASH_SIZE - 1, b \in Bytes :
       k < n /\ WriteFault(n, k, b)
  \/ \E n \in 0 .. FLASH_SIZE : Read(n)
  \/ ReadFlash
  \/ Close
  \/ Release
  \/ ChipDone
  \/ PowerFail
  \/ PowerOn

\* system calls run, and the flash finishes what it does
Fairness == WF_vars(ReadFlash) /\ WF_vars(Release) /\ WF_vars(ChipDone)

Spec == Init /\ [][Next]_vars /\ Fairness

(***************************************************************************)
(* Properties                                                              *)
(***************************************************************************)

TypeOK ==
  /\ pc \in {"off", "closed", "open", "read", "enable_erase", "erase", "erasing",
             "enable", "program", "programming"}
  /\ data \in [Cells -> Bytes \cup {Zero}]
  /\ size \in 0 .. FLASH_SIZE
  /\ pos \in 0 .. FLASH_SIZE
  /\ off \in 0 .. FLASH_SIZE
  /\ len \in 0 .. FLASH_SIZE
  /\ start \in 0 .. FLASH_SIZE
  /\ image \in Seq(Bytes \cup {Unknown})
  /\ out \in Seq(Values \cup {Unknown})
  /\ flash \in [Cells -> Values \cup {Unknown}]
  /\ chip \in {"idle", "erase", "program"}
  /\ block \subseteq Cells
  /\ enabled \in BOOLEAN

\* read() delivers the contents of the flash from the position of the file
\* on, and moves the position by as much: the blocks of ccat_read_flash()
\* leave no gap and do not overlap.
ReadDelivers ==
  out # <<>> =>
    /\ pos = start + Len(out)
    /\ pos <= FLASH_SIZE
    /\ \A i \in 1 .. Len(out) : out[i] = flash[start + i - 1]

\* The buffer holds the image, apart from what nobody wrote, and the position
\* of the file is never in front of its end: there is no seek.
Buffered ==
  /\ Len(image) = size
  /\ size <= pos
  /\ \A c \in Cells : c < size => image[c + 1] \in {data[c], Unknown}

\* What ccat_read_flash() has done so far; a call of close() forgets it
Reading ==
  /\ pc \notin {"open", "read"} => out = <<>>
  /\ pc = "read" =>
       /\ pos = start + Len(out)
       /\ pos + len <= FLASH_SIZE
       /\ \A i \in 1 .. Len(out) : out[i] = flash[start + i - 1]

\* the flash holds the first k bytes of the buffer and nothing else
HoldsBuffer(k) == \A c \in Cells : flash[c] = IF c < k THEN data[c] ELSE Erased

\* What ccat_update_release() has done so far, and what the flash is doing
ReleaseProgress ==
  /\ pc \notin {"erasing", "programming"} => chip = "idle"
  /\ pc \in {"erase", "program"} => enabled
  /\ pc = "erasing" =>
       IF chip = "idle" THEN HoldsBuffer(0) ELSE chip = "erase"
  /\ pc \in {"enable", "program", "programming"} => off + len = size
  /\ pc \in {"enable", "program"} => HoldsBuffer(off)
  /\ pc = "programming" =>
       IF chip = "idle" THEN HoldsBuffer(off + Turn)
       ELSE chip = "program" /\ block = off .. off + Turn - 1 /\ HoldsBuffer(off)

\* The inductive invariant behind ReadDelivers and the device
IndInv == TypeOK /\ ReadDelivers /\ Buffered /\ Reading /\ ReleaseProgress

\* close() returns: every wait in it ends.
CloseReturns == (pc = "enable_erase") ~> (pc \in {"closed", "off"})

\* The driver implements the device of FlashDevice: when close() comes back the
\* flash holds exactly the bytes that were written, with 0xff behind them: no
\* block is skipped, repeated, truncated or programmed before it is erased.  A
\* file that was only read leaves the flash alone, read() delivers what is
\* there, and a loss of power spoils it only during close().
ImplementsDevice == Device!Spec
=============================================================================
