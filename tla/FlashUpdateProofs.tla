------------------------- MODULE FlashUpdateProofs -------------------------
(***************************************************************************)
(* Proofs about the update function, for a flash and blocks of any size    *)
(* and any bytes: what read() delivers, and that close() leaves what the   *)
(* file held in the flash (module FlashDevice), also when power fails.     *)
(***************************************************************************)
EXTENDS FlashUpdate, TLAPS

\* A closed file: the buffer is gone, and the flash is at rest.
LEMMA ForgetPreserves ==
  ASSUME Forget, pc' \in {"off", "closed"}, chip' = "idle", enabled' \in BOOLEAN,
         block' \subseteq Cells, flash' \in [Cells -> Values \cup {Unknown}]
  PROVE  IndInv'
<1> USE FlashUpdateAssumption DEF Forget
<1>1. out' = <<>> /\ image' = <<>> /\ Len(image') = 0
  OBVIOUS
<1>2. data' \in [Cells -> Bytes \cup {Zero}]
  OBVIOUS
<1>3. TypeOK'
  BY <1>1, <1>2 DEF TypeOK, Cells
<1>4. ReadDelivers' /\ Buffered' /\ Reading'
  BY <1>1 DEF ReadDelivers, Buffered, Reading, Cells
<1>5. ReleaseProgress'
  BY DEF ReleaseProgress
<1> QED BY <1>3, <1>4, <1>5 DEF IndInv

\* open() and the return of power change nothing but the label.
LEMMA OpenPreserves ==
  ASSUME IndInv, Open \/ PowerOn
  PROVE  IndInv'
<1>1. /\ pc \in {"closed", "off"} /\ pc' \in {"open", "closed"}
      /\ UNCHANGED <<file, loop, user, prom>>
  BY DEF Open, PowerOn
<1>2. TypeOK'
  BY <1>1 DEF IndInv, TypeOK, file, loop, user, prom, Cells, Values
<1>3. ReadDelivers' /\ Buffered' /\ Reading'
  BY <1>1 DEF IndInv, ReadDelivers, Buffered, Reading, file, user, prom, Cells
<1>4. ReleaseProgress'
  BY <1>1 DEF IndInv, ReleaseProgress, prom
<1> QED BY <1>2, <1>3, <1>4 DEF IndInv

\* The file after n bytes were written at the position.
LEMMA PutSize ==
  ASSUME IndInv, NEW n \in Nat, NEW b \in Bytes
  PROVE  /\ Device!Put(image, pos, n, b) \in Seq(Bytes \cup {Unknown})
         /\ Len(Device!Put(image, pos, n, b)) = pos + n
         /\ \A i \in 1 .. pos + n :
              Device!Put(image, pos, n, b)[i] =
                IF i > pos THEN b
                ELSE IF i <= Len(image) THEN image[i] ELSE Unknown
<1>1. pos \in Nat /\ pos + n \in Nat /\ image \in Seq(Bytes \cup {Unknown})
  BY FlashUpdateAssumption DEF IndInv, TypeOK
<1>2. \A i \in 1 .. pos + n :
        (IF i > pos THEN b ELSE IF i <= Len(image) THEN image[i] ELSE Unknown)
          \in Bytes \cup {Unknown}
  BY <1>1
<1> QED BY <1>1, <1>2 DEF Device!Put

\* ccat_update_write() appends to the image, as the position is behind it.
LEMMA WritePreserves ==
  ASSUME IndInv, NEW n \in 0 .. FLASH_SIZE, NEW b \in Bytes, Write(n, b)
  PROVE  IndInv'
<1> USE FlashUpdateAssumption
<1>1. /\ pc = "open" /\ pc' = "open" /\ UNCHANGED <<loop, prom>>
      /\ pos + n <= FLASH_SIZE /\ pos' = pos + n /\ size' = pos + n
      /\ out' = <<>> /\ start' = 0
      /\ image' = Device!Put(image, pos, n, b)
      /\ data' = [c \in Cells |-> IF pos <= c /\ c < pos + n THEN b ELSE data[c]]
  BY DEF Write, Fits, NewSize
<1>2. /\ pos \in Nat /\ size \in Nat /\ n \in Nat /\ size <= pos
      /\ Len(image) = size /\ image \in Seq(Bytes \cup {Unknown})
      /\ data \in [Cells -> Bytes \cup {Zero}]
  BY DEF IndInv, TypeOK, Buffered
<1>3. /\ image' \in Seq(Bytes \cup {Unknown}) /\ Len(image') = pos + n
      /\ \A i \in 1 .. pos + n :
           image'[i] = IF i > pos THEN b
                       ELSE IF i <= Len(image) THEN image[i] ELSE Unknown
  BY <1>1, <1>2, PutSize
<1>4. data' \in [Cells -> Bytes \cup {Zero}]
  BY <1>1, <1>2
<1>5. TypeOK'
  BY <1>1, <1>2, <1>3, <1>4 DEF IndInv, TypeOK, loop, prom
<1>6. ASSUME NEW c \in Cells, c < pos + n
      PROVE  image'[c + 1] \in {data'[c], Unknown}
  <2>1. c + 1 \in 1 .. pos + n /\ c \in Nat
    BY <1>2, <1>6 DEF Cells
  <2>2. CASE pos <= c
    BY <1>1, <1>2, <1>3, <1>6, <2>1, <2>2
  <2>3. CASE c < pos /\ c < size
    <3>1. image'[c + 1] = image[c + 1] /\ data'[c] = data[c]
      BY <1>1, <1>2, <1>3, <2>1, <2>3
    <3>2. image[c + 1] \in {data[c], Unknown}
      BY <2>3 DEF IndInv, Buffered
    <3> QED BY <3>1, <3>2
  <2>4. CASE c < pos /\ c >= size
    <3>1. ~(c + 1 > pos) /\ ~(c + 1 <= Len(image))
      BY <1>2, <2>1, <2>4
    <3> QED BY <1>3, <2>1, <3>1
  <2> QED BY <1>2, <2>1, <2>2, <2>3, <2>4
<1>7. ReadDelivers' /\ Buffered' /\ Reading'
  BY <1>1, <1>2, <1>3, <1>6 DEF ReadDelivers, Buffered, Reading
<1>8. ReleaseProgress'
  BY <1>1 DEF IndInv, ReleaseProgress, prom
<1> QED BY <1>5, <1>7, <1>8 DEF IndInv

\* A copy_from_user() that fails writes only behind the image.
LEMMA WriteFaultPreserves ==
  ASSUME IndInv, NEW n \in 1 .. FLASH_SIZE, NEW k \in 0 .. FLASH_SIZE - 1,
         NEW b \in Bytes, WriteFault(n, k, b)
  PROVE  IndInv'
<1> USE FlashUpdateAssumption
<1>1. /\ pc = "open" /\ pc' = "open" /\ UNCHANGED <<size, pos, loop, image, prom>>
      /\ out' = <<>> /\ start' = 0
      /\ data' = [c \in Cells |-> IF pos <= c /\ c < pos + k THEN b
                              ELSE IF pos + k <= c /\ c < pos + n THEN Zero
                              ELSE data[c]]
  BY DEF WriteFault
<1>2. /\ pos \in Nat /\ size \in Nat /\ size <= pos
      /\ data \in [Cells -> Bytes \cup {Zero}]
  BY DEF IndInv, TypeOK, Buffered
<1>3. data' \in [Cells -> Bytes \cup {Zero}]
  BY <1>1, <1>2
<1>4. \A c \in Cells : c < size => data'[c] = data[c]
  BY <1>1, <1>2 DEF Cells
<1>5. TypeOK'
  BY <1>1, <1>3 DEF IndInv, TypeOK, loop, prom
<1>6. ReadDelivers' /\ Buffered' /\ Reading'
  BY <1>1, <1>4 DEF IndInv, ReadDelivers, Buffered, Reading
<1>7. ReleaseProgress'
  BY <1>1 DEF IndInv, ReleaseProgress, prom
<1> QED BY <1>5, <1>6, <1>7 DEF IndInv

\* ccat_update_read() starts without anything delivered.
LEMMA ReadPreserves ==
  ASSUME IndInv, NEW n \in 0 .. FLASH_SIZE, Read(n)
  PROVE  IndInv'
<1> USE FlashUpdateAssumption
<1>1. /\ pc = "open" /\ pc' = "read" /\ UNCHANGED <<file, off, image, prom>>
      /\ out' = <<>> /\ Len(out') = 0 /\ start' = pos
      /\ len' = IF n < FLASH_SIZE - pos THEN n ELSE FLASH_SIZE - pos
      /\ pos \in 0 .. FLASH_SIZE
  BY DEF Read, IndInv, TypeOK
<1>2. len' \in 0 .. FLASH_SIZE /\ pos + len' <= FLASH_SIZE
  BY <1>1
<1>3. TypeOK'
  BY <1>1, <1>2 DEF IndInv, TypeOK, file, prom
<1>4. ReadDelivers' /\ Buffered'
  BY <1>1 DEF IndInv, ReadDelivers, Buffered, file
<1>5. Reading'
  BY <1>1, <1>2 DEF Reading, file
<1>6. ReleaseProgress'
  BY <1>1 DEF IndInv, ReleaseProgress, prom
<1> QED BY <1>3, <1>4, <1>5, <1>6 DEF IndInv

\* The bytes of two pieces, one behind the other.
LEMMA Joined ==
  ASSUME NEW S, NEW s \in Seq(S), NEW t \in Seq(S)
  PROVE  /\ s \o t \in Seq(S) /\ Len(s \o t) = Len(s) + Len(t)
         /\ \A i \in 1 .. Len(s) : (s \o t)[i] = s[i]
         /\ \A i \in 1 .. Len(t) : (s \o t)[Len(s) + i] = t[i]
OBVIOUS

\* One block of ccat_read_flash(): the bytes behind those it has delivered.
LEMMA ReadFlashDelivers ==
  ASSUME IndInv, ReadFlash
  PROVE  /\ pos' \in 0 .. FLASH_SIZE /\ len' \in 0 .. FLASH_SIZE
         /\ pos' = start + Len(out') /\ pos' + len' <= FLASH_SIZE
         /\ out' \in Seq(Values \cup {Unknown})
         /\ \A i \in 1 .. Len(out') : out'[i] = flash[start + i - 1]
<1> USE FlashUpdateAssumption
<1> DEFINE n == IF len > DATA_BLOCK_SIZE THEN DATA_BLOCK_SIZE ELSE len
<1>1. /\ pos \in 0 .. FLASH_SIZE /\ len \in 0 .. FLASH_SIZE /\ start \in 0 .. FLASH_SIZE
      /\ out \in Seq(Values \cup {Unknown}) /\ flash \in [Cells -> Values \cup {Unknown}]
      /\ pos = start + Len(out) /\ pos + len <= FLASH_SIZE
      /\ \A i \in 1 .. Len(out) : out[i] = flash[start + i - 1]
  BY DEF IndInv, TypeOK, Reading, ReadFlash
<1>2. n \in Nat /\ n <= len
  BY <1>1
<1>3. out' = out \o Block(n) /\ pos' = pos + n /\ len' = len - n
  BY DEF ReadFlash
<1> HIDE DEF n
<1>4. \A i \in 1 .. n : pos + i - 1 \in Cells
  BY <1>1, <1>2 DEF Cells
<1> DEFINE S == Values \cup {Unknown}
<1> \A i \in 1 .. n : flash[pos + i - 1] \in S
  BY <1>1, <1>4
<1> HIDE DEF S
<1>5. /\ Block(n) \in Seq(S) /\ Len(Block(n)) = n
      /\ \A i \in 1 .. n : Block(n)[i] = flash[pos + i - 1]
  BY <1>2 DEF Block
<1> out \in Seq(S)
  BY <1>1 DEF S
<1>6. /\ out' \in Seq(S) /\ Len(out') = Len(out) + n
      /\ \A i \in 1 .. Len(out) : out'[i] = out[i]
      /\ \A i \in 1 .. n : out'[Len(out) + i] = Block(n)[i]
  <2> DEFINE t == Block(n)
  <2> t \in Seq(S) /\ Len(t) = n /\ out' = out \o t
    BY <1>3, <1>5
  <2> HIDE DEF t
  <2>1. /\ out \o t \in Seq(S) /\ Len(out \o t) = Len(out) + Len(t)
        /\ \A i \in 1 .. Len(out) : (out \o t)[i] = out[i]
        /\ \A i \in 1 .. Len(t) : (out \o t)[Len(out) + i] = t[i]
    BY ONLY out \in Seq(S), t \in Seq(S), Joined
  <2> QED BY <2>1, Zenon DEF t
<1>7. ASSUME NEW i \in 1 .. Len(out')
      PROVE  out'[i] = flash[start + i - 1]
  <2>1. CASE i <= Len(out)
    <3>1. i \in 1 .. Len(out)
      BY <1>1, <2>1
    <3> QED BY <1>1, <1>6, <3>1
  <2>2. CASE i > Len(out)
    <3>1. i - Len(out) \in 1 .. n
      BY <1>1, <1>2, <1>6, <1>7, <2>2
    <3>2. Len(out) + (i - Len(out)) = i
      BY <1>1, <1>6, <1>7
    <3>3. pos + (i - Len(out)) - 1 = start + i - 1
      BY <1>1, <1>6, <1>7
    <3> QED BY <1>5, <1>6, <3>1, <3>2, <3>3
  <2> QED BY <1>1, <1>6, <1>7, <2>1, <2>2
<1>8. /\ pos' \in 0 .. FLASH_SIZE /\ len' \in 0 .. FLASH_SIZE
      /\ pos' = start + Len(out') /\ pos' + len' <= FLASH_SIZE
  BY <1>1, <1>2, <1>3, <1>6
<1> QED BY <1>6, <1>7, <1>8 DEF S

LEMMA ReadFlashPreserves ==
  ASSUME IndInv, ReadFlash
  PROVE  IndInv'
<1> USE FlashUpdateAssumption
<1>1. /\ pc = "read" /\ pc' \in {"read", "open"}
      /\ UNCHANGED <<data, size, off, start, image, prom>>
  BY DEF ReadFlash
<1>2. TypeOK'
  BY <1>1, ReadFlashDelivers DEF IndInv, TypeOK, prom
<1>3. ReadDelivers' /\ Reading'
  BY <1>1, ReadFlashDelivers DEF ReadDelivers, Reading, prom
<1>4. pos' >= pos
  BY DEF ReadFlash, IndInv, TypeOK
<1>5. size \in Nat /\ pos \in Nat /\ pos' \in Nat
  BY ReadFlashDelivers DEF IndInv, TypeOK
<1>6. Buffered'
  BY <1>1, <1>4, <1>5 DEF IndInv, Buffered
<1>7. ReleaseProgress'
  BY <1>1 DEF IndInv, ReleaseProgress, prom
<1> QED BY <1>2, <1>3, <1>6, <1>7 DEF IndInv

LEMMA ClosePreserves ==
  ASSUME IndInv, Close
  PROVE  IndInv'
<1>1. pc = "open" /\ UNCHANGED prom
  BY DEF Close
<1>2. CASE size = 0 /\ pc' = "closed" /\ Forget
  <2>1. /\ chip' = "idle" /\ enabled' \in BOOLEAN /\ block' \subseteq Cells
        /\ flash' \in [Cells -> Values \cup {Unknown}]
    BY <1>1 DEF IndInv, TypeOK, ReleaseProgress, prom
  <2> QED BY <1>2, <2>1, ForgetPreserves
<1>3. CASE /\ size > 0 /\ pc' = "enable_erase" /\ start' = 0 /\ out' = <<>>
           /\ UNCHANGED <<file, loop, image>>
  <2>1. TypeOK'
    BY FlashUpdateAssumption, <1>1, <1>3 DEF IndInv, TypeOK, file, loop, prom
  <2>2. ReadDelivers' /\ Buffered' /\ Reading'
    BY <1>3 DEF IndInv, ReadDelivers, Buffered, Reading, file
  <2>3. ReleaseProgress'
    BY <1>1, <1>3 DEF IndInv, ReleaseProgress, prom
  <2> QED BY <2>1, <2>2, <2>3 DEF IndInv
<1> QED BY <1>2, <1>3 DEF Close

(***************************************************************************)
(* close()                                                                 *)
(***************************************************************************)

\* The steps of close() touch neither the file nor what read() left.
LEMMA ReleaseFrame ==
  ASSUME IndInv, Closing, UNCHANGED <<file, user>>, pc' \notin {"open", "read"}
  PROVE  ReadDelivers' /\ Buffered' /\ Reading'
<1>1. out = <<>>
  BY DEF Closing, IndInv, Reading
<1> QED BY <1>1 DEF IndInv, ReadDelivers, Buffered, Reading, file, user

\* CCAT_WRITE_ENABLE reaches a flash that is idle.
LEMMA EnablePreserves ==
  ASSUME IndInv, EnableErase \/ Enable
  PROVE  IndInv'
<1>1. /\ \/ pc = "enable_erase" /\ pc' = "erase"
         \/ pc = "enable" /\ pc' = "program"
      /\ UNCHANGED <<file, loop, user, flash, chip, block>> /\ WriteEnable
  BY DEF EnableErase, Enable
<1>2. chip = "idle" /\ enabled' = TRUE
  BY <1>1 DEF IndInv, TypeOK, ReleaseProgress, WriteEnable
<1>3. TypeOK'
  BY <1>1, <1>2 DEF IndInv, TypeOK, file, loop, user
<1>4. ReadDelivers' /\ Buffered' /\ Reading'
  BY <1>1, ReleaseFrame DEF Closing
<1>5. ReleaseProgress'
  BY <1>1, <1>2 DEF IndInv, ReleaseProgress, HoldsBuffer, file, loop
<1> QED BY <1>3, <1>4, <1>5 DEF IndInv

\* BULK_ERASE starts: writing is enabled.
LEMMA ErasePreserves ==
  ASSUME IndInv, Erase
  PROVE  IndInv'
<1>1. /\ pc = "erase" /\ pc' = "erasing"
      /\ UNCHANGED <<file, loop, user, flash, block, enabled>> /\ Command("erase")
  BY DEF Erase
<1>2. chip' = "erase"
  BY <1>1 DEF IndInv, ReleaseProgress, Command
<1>3. TypeOK'
  BY <1>1, <1>2 DEF IndInv, TypeOK, file, loop, user
<1>4. ReadDelivers' /\ Buffered' /\ Reading'
  BY <1>1, ReleaseFrame DEF Closing
<1>5. ReleaseProgress'
  BY <1>1, <1>2 DEF ReleaseProgress
<1> QED BY <1>3, <1>4, <1>5 DEF IndInv

\* ccat_write_flash() starts on an erased flash.
LEMMA EraseWaitPreserves ==
  ASSUME IndInv, EraseWait
  PROVE  IndInv'
<1>1. /\ pc = "erasing" /\ pc' = "enable" /\ chip = "idle" /\ off' = 0 /\ len' = size
      /\ UNCHANGED <<file, user, prom>>
  BY DEF EraseWait, StatusCleared
<1>2. size \in 0 .. FLASH_SIZE /\ HoldsBuffer(0)
  BY <1>1 DEF IndInv, TypeOK, ReleaseProgress
<1>3. TypeOK'
  BY <1>1, <1>2, FlashUpdateAssumption DEF IndInv, TypeOK, file, user, prom
<1>4. ReadDelivers' /\ Buffered' /\ Reading'
  BY <1>1, ReleaseFrame DEF Closing
<1>5. ReleaseProgress'
  BY <1>1, <1>2 DEF ReleaseProgress, HoldsBuffer, file, prom
<1> QED BY <1>3, <1>4, <1>5 DEF IndInv

\* The cells of one turn of ccat_write_flash() are within the image.
LEMMA TurnFits ==
  ASSUME IndInv, off + len = size
  PROVE  /\ Turn \in Nat /\ off + Turn <= size /\ off \in Nat /\ size <= FLASH_SIZE
         /\ off .. off + Turn - 1 \subseteq Cells
BY FlashUpdateAssumption DEF IndInv, TypeOK, Turn, Cells

\* CCAT_WRITE_FLASH starts on the block of this turn.
LEMMA ProgramPreserves ==
  ASSUME IndInv, Program
  PROVE  IndInv'
<1>1. /\ pc = "program" /\ pc' = "programming" /\ block' = off .. off + Turn - 1
      /\ UNCHANGED <<file, loop, user, flash, enabled>> /\ Command("program")
  BY DEF Program
<1>2. chip' = "program" /\ off + len = size /\ HoldsBuffer(off)
  BY <1>1 DEF IndInv, ReleaseProgress, Command
<1>3. TypeOK'
  BY <1>1, <1>2, TurnFits DEF IndInv, TypeOK, file, loop, user
<1>4. ReadDelivers' /\ Buffered' /\ Reading'
  BY <1>1, ReleaseFrame DEF Closing
<1>5. ReleaseProgress'
  BY <1>1, <1>2 DEF ReleaseProgress, HoldsBuffer, Turn, file, loop
<1> QED BY <1>3, <1>4, <1>5 DEF IndInv

\* The next turn starts where the flash ends to hold the buffer; the last one
\* ends the call.
LEMMA ProgramWaitPreserves ==
  ASSUME IndInv, ProgramWait
  PROVE  IndInv'
<1> USE FlashUpdateAssumption
<1>1. pc = "programming" /\ chip = "idle" /\ UNCHANGED prom
  BY DEF ProgramWait, StatusCleared
<1>2. off + len = size /\ HoldsBuffer(off + Turn)
  BY <1>1 DEF IndInv, ReleaseProgress
<1>3. CASE /\ len > WRITE_BLOCK_SIZE /\ off' = NextOff /\ len' = len - WRITE_BLOCK_SIZE
           /\ pc' = "enable" /\ UNCHANGED <<file, start, out, image>>
  <2>1. off' = off + Turn /\ off' + len' = size
    BY <1>2, <1>3 DEF NextOff, Turn, IndInv, TypeOK
  <2>2. off' \in 0 .. FLASH_SIZE /\ len' \in 0 .. FLASH_SIZE
    BY <1>2, <1>3, <2>1, TurnFits DEF IndInv, TypeOK
  <2>3. TypeOK'
    BY <1>1, <1>3, <2>2 DEF IndInv, TypeOK, file, prom
  <2>4. ReadDelivers' /\ Buffered' /\ Reading'
    BY <1>1, <1>3, ReleaseFrame DEF Closing, user
  <2>5. ReleaseProgress'
    BY <1>1, <1>2, <1>3, <2>1 DEF ReleaseProgress, HoldsBuffer, file, prom
  <2> QED BY <2>3, <2>4, <2>5 DEF IndInv
<1>4. CASE len <= WRITE_BLOCK_SIZE /\ pc' = "closed" /\ Forget
  <2>1. /\ chip' = "idle" /\ enabled' \in BOOLEAN /\ block' \subseteq Cells
        /\ flash' \in [Cells -> Values \cup {Unknown}]
    BY <1>1 DEF IndInv, TypeOK, prom
  <2> QED BY <1>4, <2>1, ForgetPreserves
<1> QED BY <1>3, <1>4 DEF ProgramWait

(***************************************************************************)
(* The flash, and the loss of power                                        *)
(***************************************************************************)

\* Whatever part of a command the flash has done, it holds bytes.
LEMMA AfterType ==
  ASSUME IndInv, NEW S
  PROVE  After(S) \in [Cells -> Values \cup {Unknown}]
BY DEF IndInv, TypeOK, After, Programmed, Values

\* BULK_ERASE is done: nothing is left in the flash.
LEMMA ErasedAll ==
  ASSUME IndInv, ChipDone, pc = "erasing"
  PROVE  \A c \in Cells : flash'[c] = Erased
<1>1. chip = "erase" /\ flash' = After(Cells)
  BY DEF ChipDone, Busy, IndInv, ReleaseProgress
<1> QED BY <1>1 DEF After

\* CCAT_WRITE_FLASH is done: the block was erased, so it holds its part of
\* the buffer, and the flash outside is as it was.
LEMMA ProgrammedBlock ==
  ASSUME IndInv, ChipDone, pc = "programming", NEW c \in Cells
  PROVE  flash'[c] = IF c < off + Turn THEN data[c] ELSE Erased
<1>1. /\ chip = "program" /\ block = off .. off + Turn - 1 /\ HoldsBuffer(off)
      /\ off + len = size
  BY DEF ChipDone, IndInv, ReleaseProgress
<1>2. /\ Turn \in Nat /\ off \in Nat /\ c \in Int
  BY <1>1, TurnFits DEF Cells
<1>3. flash' = After(block)
  BY <1>1 DEF ChipDone, Busy
<1>4. flash[c] = IF c < off THEN data[c] ELSE Erased
  BY <1>1 DEF HoldsBuffer
<1>5. CASE c \in block
  <2>1. off <= c /\ c < off + Turn
    BY <1>1, <1>2, <1>5
  <2>2. flash'[c] = Programmed(c)
    BY <1>1, <1>3, <1>5 DEF After
  <2> QED BY <1>2, <1>4, <2>1, <2>2 DEF Programmed
<1>6. CASE c \notin block
  <2>1. c < off \/ off + Turn <= c
    BY <1>1, <1>2, <1>6
  <2>2. flash'[c] = flash[c]
    BY <1>3, <1>6 DEF After
  <2> QED BY <1>2, <1>4, <2>1, <2>2
<1> QED BY <1>5, <1>6

LEMMA ChipDonePreserves ==
  ASSUME IndInv, ChipDone
  PROVE  IndInv'
<1>1. /\ chip # "idle" /\ chip' = "idle" /\ enabled' = FALSE /\ block' = {}
      /\ UNCHANGED <<pc, file, loop, user>>
      /\ flash' \in [Cells -> Values \cup {Unknown}]
  BY AfterType DEF ChipDone
<1>2. pc \in {"erasing", "programming"}
  BY <1>1 DEF IndInv, ReleaseProgress
<1>3. TypeOK'
  BY <1>1 DEF IndInv, TypeOK, file, loop, user
<1>4. ReadDelivers' /\ Buffered' /\ Reading'
  BY <1>1, <1>2, ReleaseFrame DEF Closing
<1>5. CASE pc = "erasing"
  <2>1. HoldsBuffer(0)'
    BY <1>5, ErasedAll DEF HoldsBuffer, Cells
  <2>2. ReleaseProgress'
    BY <1>1, <1>5, <2>1 DEF ReleaseProgress
  <2> QED BY <1>3, <1>4, <2>2 DEF IndInv
<1>6. CASE pc = "programming"
  <2>1. HoldsBuffer(off + Turn)'
    BY <1>1, <1>6, ProgrammedBlock DEF HoldsBuffer, Turn, file, loop
  <2>2. ReleaseProgress'
    BY <1>1, <1>6, <2>1 DEF ReleaseProgress, IndInv, file, loop
  <2> QED BY <1>3, <1>4, <2>2 DEF IndInv
<1> QED BY <1>2, <1>5, <1>6

\* The driver forgets everything when power fails.
LEMMA PowerFailPreserves ==
  ASSUME IndInv, PowerFail
  PROVE  IndInv'
<1>1. flash' \in [Cells -> Values \cup {Unknown}]
  <2>1. CASE UNCHANGED flash
    BY <2>1 DEF IndInv, TypeOK
  <2>2. CASE \E S \in SUBSET Busy : flash' = After(S)
    BY <2>2, AfterType
  <2> QED BY <2>1, <2>2 DEF PowerFail
<1> QED BY <1>1, ForgetPreserves DEF PowerFail

LEMMA InitIndInv ==
  ASSUME Init
  PROVE  IndInv
<1> USE FlashUpdateAssumption
<1>1. Len(image) = 0 /\ data \in [Cells -> Bytes \cup {Zero}]
  BY DEF Init
<1>2. TypeOK
  BY <1>1 DEF Init, TypeOK, Cells
<1>3. ReadDelivers /\ Buffered /\ Reading
  BY <1>1 DEF Init, ReadDelivers, Buffered, Reading, Cells
<1>4. ReleaseProgress
  BY DEF Init, ReleaseProgress
<1> QED BY <1>2, <1>3, <1>4 DEF IndInv

LEMMA NextIndInv ==
  ASSUME IndInv, [Next]_vars
  PROVE  IndInv'
<1>1. CASE Open \/ PowerOn
  BY <1>1, OpenPreserves
<1>2. CASE \E n \in 0 .. FLASH_SIZE, b \in Bytes : Write(n, b)
  BY <1>2, WritePreserves
<1>3. CASE \E n \in 1 .. FLASH_SIZE, k \in 0 .. FLASH_SIZE - 1, b \in Bytes :
             k < n /\ WriteFault(n, k, b)
  BY <1>3, WriteFaultPreserves
<1>4. CASE \E n \in 0 .. FLASH_SIZE : Read(n)
  BY <1>4, ReadPreserves
<1>5. CASE ReadFlash \/ Close
  BY <1>5, ReadFlashPreserves, ClosePreserves
<1>6. CASE Release
  BY <1>6, EnablePreserves, ErasePreserves, EraseWaitPreserves, ProgramPreserves,
     ProgramWaitPreserves DEF Release
<1>7. CASE ChipDone \/ PowerFail
  BY <1>7, ChipDonePreserves, PowerFailPreserves
<1>8. CASE UNCHANGED vars
  <2>1. TypeOK'
    BY <1>8 DEF vars, IndInv, TypeOK
  <2>2. ReadDelivers' /\ Buffered' /\ Reading'
    BY <1>8 DEF vars, IndInv, ReadDelivers, Buffered, Reading
  <2>3. ReleaseProgress'
    BY <1>8 DEF vars, IndInv, ReleaseProgress, HoldsBuffer, Turn
  <2> QED BY <2>1, <2>2, <2>3 DEF IndInv
<1> QED BY <1>1, <1>2, <1>3, <1>4, <1>5, <1>6, <1>7, <1>8 DEF Next

\* The invariant of the update function: the buffer holds what was written,
\* ccat_read_flash() delivers from the position on, and each step of
\* ccat_update_release() finds the flash as the step before it promises.
THEOREM UpdateInvariant == Spec => []IndInv
<1>1. Init => IndInv
  BY InitIndInv
<1>2. IndInv /\ [Next]_vars => IndInv'
  BY NextIndInv
<1> QED BY <1>1, <1>2, PTL DEF Spec

\* No offset, position, size or block of update.c leaves the flash or the
\* buffer.
THEOREM UpdateTypes == Spec => []TypeOK
<1>1. IndInv => TypeOK
  BY DEF IndInv
<1> QED BY <1>1, UpdateInvariant, PTL

\* The blocks ccat_read_flash() delivers leave no gap and do not overlap,
\* however many calls of read() a process makes and wherever they end.
THEOREM ReadCorrect == Spec => []ReadDelivers
<1>1. IndInv => ReadDelivers
  BY DEF IndInv
<1> QED BY <1>1, UpdateInvariant, PTL

(***************************************************************************)
(* The device of FlashDevice                                               *)
(***************************************************************************)

LEMMA InitDevice ==
  ASSUME Init
  PROVE  Device!Init
BY DEF Init, Device!Init, Device!Cells, Cells, Closing, Values

\* A step between two labels of close(), also one of the flash, is not seen.
LEMMA ClosingStutters ==
  ASSUME IndInv, Closing, Closing', UNCHANGED user
  PROVE  UNCHANGED Device!device
BY DEF Closing, user, Device!device

LEMMA OpenDevice ==
  ASSUME IndInv, Open \/ PowerOn
  PROVE  Device!Open \/ Device!PowerOn
<1>1. CASE Open
  BY <1>1 DEF Open, user, prom, Closing, Device!Open
<1>2. CASE PowerOn
  BY <1>2 DEF PowerOn, user, prom, Closing, Device!PowerOn
<1> QED BY <1>1, <1>2

LEMMA WriteDevice ==
  ASSUME IndInv, NEW n \in 0 .. FLASH_SIZE, NEW b \in Bytes, Write(n, b)
  PROVE  Device!Next
<1>1. Device!Write(pos, n, b)
  BY DEF Write, Fits, prom, Closing, Device!Write
<1>2. pos \in 0 .. FLASH_SIZE /\ b \in Values \cup {Unknown}
  BY DEF IndInv, TypeOK, Values
<1> QED BY <1>1, <1>2 DEF Device!Next

\* A failing write(), and a read() that begins, deliver nothing.
LEMMA NothingDevice ==
  ASSUME \/ \E n \in 1 .. FLASH_SIZE, k \in 0 .. FLASH_SIZE - 1, b \in Bytes :
              WriteFault(n, k, b)
         \/ \E n \in 0 .. FLASH_SIZE : Read(n)
  PROVE  Device!Nothing
<1>1. /\ pc = "open" /\ pc' \in {"open", "read"} /\ out' = <<>>
      /\ UNCHANGED <<image, flash>>
  BY DEF WriteFault, Read, prom
<1> QED BY <1>1 DEF Closing, Device!Nothing

\* The last block of ccat_read_flash() completes what read() delivers.
LEMMA ReadFlashDevice ==
  ASSUME IndInv, ReadFlash
  PROVE  [Device!Next]_(Device!device)
<1>1. pc = "read" /\ UNCHANGED <<start, image, flash>>
  BY DEF ReadFlash, prom
<1>2. CASE pc' = "read"
  BY <1>1, <1>2 DEF Closing, Device!device
<1>3. CASE pc' = "open"
  <2>1. /\ pos' \in 0 .. FLASH_SIZE /\ pos' = start + Len(out')
        /\ out' \in Seq(Values \cup {Unknown}) /\ start \in 0 .. FLASH_SIZE
        /\ \A i \in 1 .. Len(out') : out'[i] = flash[start + i - 1]
    BY ReadFlashDelivers DEF IndInv, TypeOK
  <2>2. start + Len(out') <= FLASH_SIZE /\ Len(out') \in 0 .. FLASH_SIZE
    BY <2>1, FlashUpdateAssumption
  <2>3. out' = [i \in 1 .. Len(out') |-> flash[start + i - 1]]
    BY <2>1
  <2>4. Device!Read(start, Len(out'))
    BY <1>1, <1>3, <2>2, <2>3 DEF Closing, Device!Read
  <2> QED BY <2>1, <2>2, <2>4 DEF Device!Next
<1> QED BY <1>2, <1>3 DEF ReadFlash

LEMMA CloseDevice ==
  ASSUME IndInv, Close
  PROVE  Device!Close
<1>1. /\ pc = "open" /\ UNCHANGED flash /\ image \in Seq(Bytes \cup {Unknown})
      /\ Len(image) = size
  BY DEF Close, prom, IndInv, TypeOK, Buffered
<1>2. CASE size = 0 /\ pc' = "closed" /\ Forget
  <2>1. image = <<>> /\ image' = <<>> /\ out' = <<>>
    BY <1>1, <1>2 DEF Forget
  <2> QED BY <1>1, <1>2, <2>1 DEF Closing, Device!Close
<1>3. CASE /\ size > 0 /\ pc' = "enable_erase" /\ out' = <<>> /\ UNCHANGED image
  <2>1. image # <<>>
    BY <1>1, <1>3
  <2> QED BY <1>1, <1>3, <2>1 DEF Closing, Device!Close
<1> QED BY <1>2, <1>3 DEF Close

\* When ccat_update_release() returns the flash holds the image: it holds all
\* of the buffer, and the buffer holds the image.
LEMMA ProgramWaitDevice ==
  ASSUME IndInv, ProgramWait
  PROVE  [Device!Next]_(Device!device)
<1>1. /\ pc = "programming" /\ chip = "idle" /\ UNCHANGED flash /\ out = <<>>
  BY DEF ProgramWait, StatusCleared, prom, IndInv, Reading
<1>2. CASE pc' = "enable" /\ UNCHANGED <<start, out, image>>
  BY <1>1, <1>2, ClosingStutters DEF Closing, user
<1>3. CASE len <= WRITE_BLOCK_SIZE /\ pc' = "closed" /\ Forget
  <2>1. /\ off + len = size /\ HoldsBuffer(off + Turn) /\ len \in Nat
    BY <1>1 DEF IndInv, ReleaseProgress, TypeOK
  <2>2. off + Turn = size
    BY <1>3, <2>1, FlashUpdateAssumption DEF Turn
  <2>3. Device!Holds(flash, image)
    <3>1. Len(image) = size
      BY DEF IndInv, Buffered
    <3>2. \A c \in Cells : c < size => image[c + 1] \in {data[c], Unknown}
      BY DEF IndInv, Buffered
    <3>3. \A c \in Cells : flash[c] = IF c < size THEN data[c] ELSE Erased
      BY <2>1, <2>2 DEF HoldsBuffer
    <3> QED BY <3>1, <3>2, <3>3 DEF Device!Holds, Device!Cells, Cells
  <2>4. flash \in [Device!Cells -> Values \cup {Unknown}]
    BY DEF IndInv, TypeOK, Device!Cells, Cells
  <2>5. Device!Programmed
    BY <1>1, <1>3, <2>3, <2>4 DEF Forget, Closing, Device!Programmed
  <2> QED BY <2>5 DEF Device!Next
<1> QED BY <1>2, <1>3 DEF ProgramWait

\* The other steps of close(), and the flash at work
LEMMA ReleaseDevice ==
  ASSUME IndInv, EnableErase \/ Erase \/ EraseWait \/ Enable \/ Program \/ ChipDone
  PROVE  UNCHANGED Device!device
<1>1. Closing /\ Closing' /\ UNCHANGED user
  BY DEF EnableErase, Erase, EraseWait, Enable, Program, ChipDone, Closing,
     IndInv, ReleaseProgress
<1> QED BY <1>1, ClosingStutters

\* Only close() has the flash at work: else power may fail without loss.
LEMMA PowerFailDevice ==
  ASSUME IndInv, PowerFail
  PROVE  Device!PowerFail
<1>1. pc' = "off" /\ image' = <<>> /\ out' = <<>>
  BY DEF PowerFail, Forget
<1>2. CASE Closing
  <2>1. flash' \in [Device!Cells -> Values \cup {Unknown}]
    BY PowerFailPreserves DEF IndInv, TypeOK, Device!Cells, Cells
  <2> QED BY <1>1, <1>2, <2>1 DEF Closing, Device!PowerFail
<1>3. CASE ~Closing
  <2>1. chip = "idle" /\ UNCHANGED flash
    BY <1>3 DEF PowerFail, Closing, IndInv, ReleaseProgress
  <2> QED BY <1>1, <1>3, <2>1 DEF Closing, Device!PowerFail
<1> QED BY <1>2, <1>3

LEMMA NextDevice ==
  ASSUME IndInv, [Next]_vars
  PROVE  [Device!Next]_(Device!device)
<1>1. CASE Open \/ PowerOn
  BY <1>1, OpenDevice DEF Device!Next
<1>2. CASE \E n \in 0 .. FLASH_SIZE, b \in Bytes : Write(n, b)
  BY <1>2, WriteDevice
<1>3. CASE \/ \E n \in 1 .. FLASH_SIZE, k \in 0 .. FLASH_SIZE - 1, b \in Bytes :
                k < n /\ WriteFault(n, k, b)
           \/ \E n \in 0 .. FLASH_SIZE : Read(n)
  BY <1>3, NothingDevice DEF Device!Next
<1>4. CASE ReadFlash \/ Close
  BY <1>4, ReadFlashDevice, CloseDevice DEF Device!Next
<1>5. CASE Release \/ ChipDone
  BY <1>5, ReleaseDevice, ProgramWaitDevice DEF Release
<1>6. CASE PowerFail
  BY <1>6, PowerFailDevice DEF Device!Next
<1>7. CASE UNCHANGED vars
  BY <1>7 DEF vars, Closing, Device!device
<1> QED BY <1>1, <1>2, <1>3, <1>4, <1>5, <1>6, <1>7 DEF Next

\* The safety part of ImplementsDevice: when close() comes back the flash
\* holds exactly what was written, with 0xff behind it; read() delivers what
\* the flash holds; power that fails outside close() spoils nothing.
THEOREM UpdateImplementsDevice == Spec => Device!Safety
<1>1. Init => Device!Init
  BY InitDevice
<1>2. IndInv /\ [Next]_vars => [Device!Next]_(Device!device)
  BY NextDevice
<1> QED BY <1>1, <1>2, UpdateInvariant, PTL DEF Spec, Device!Safety
=============================================================================
