---------------------------- MODULE EthRxProofs ----------------------------
(***************************************************************************)
(* Proofs about the receive path, for a ring of any length, either set of  *)
(* fifo operations, any poll budget of two or more and any frames.         *)
(***************************************************************************)
EXTENDS EthRx, TLAPS

\* The labels at which poll_rx() and ccat_eth_link_up() have no frame in hand
Plain == {"idle", "poll_link", "hw_reset", "carrier_on", "poll_rx", "copy",
          "ready"}

\* The sizes and the cursors of the ring.
LEMMA RingSize ==
  ASSUME IndInv
  PROVE  /\ Length \in Nat \ {0} /\ Length <= FIFO_LENGTH
         /\ Len(hw) \in Nat
         /\ Oldest \in Slots
         /\ Waiting \in Nat
         /\ Waiting + Len(hw) <= Length
<1> USE EthRxAssumption DEF IndInv, TypeOK
<1>1. Length \in Nat \ {0} /\ Length <= FIFO_LENGTH
  BY DEF Length
<1>2. Len(hw) \in Nat /\ next \in 0 .. Length - 1
  BY DEF Slots
<1>3. Oldest \in Slots
  BY <1>1, <1>2 DEF Oldest, After, Slots
<1>4. Waiting \in Nat /\ Waiting + Len(hw) <= Length
  BY <1>1, <1>2 DEF RingPartition, Waiting, Owned
<1> QED BY <1>1, <1>2, <1>3, <1>4

\* Going round the ring by less than its length meets no slot twice.
LEMMA AfterInjective ==
  ASSUME Length \in Nat \ {0}, NEW s \in Slots,
         NEW k \in 0 .. Length - 1, NEW l \in 0 .. Length - 1
  PROVE  /\ After(s, k) \in Slots
         /\ After(s, k) = After(s, l) => k = l
BY DEF After, Slots

\* A frame that has arrived is not one the CCAT may write.
LEMMA ReceivedIsWaiting ==
  ASSUME IndInv, pc \in Plain, received[next]
  PROVE  Waiting > 0
<1> SUFFICES ASSUME Waiting = 0 PROVE FALSE
  BY RingSize
<1>1. /\ Length \in Nat \ {0} /\ Len(hw) = Length
      /\ Oldest = next /\ next \in 0 .. Length - 1
  <2>1. Length \in Nat \ {0} /\ Len(hw) \in Nat
    BY RingSize
  <2>2. Waiting = Length - Len(hw) /\ Oldest = next
    BY <2>1 DEF Plain, Waiting, Oldest, Owned
  <2> QED BY <2>1, <2>2 DEF IndInv, TypeOK, Slots
<1>2. hw[1] = After(next, 0) /\ ~received[hw[1]]
  <2>1. 1 \in 1 .. Len(hw) /\ Waiting + 1 - 1 = 0
    BY <1>1
  <2> QED BY <1>1, <2>1 DEF IndInv, RingPartition
<1>3. After(next, 0) = next
  BY <1>1 DEF After
<1> QED BY <1>2, <1>3

\* How the ring of the next state is shown to be a partition.
LEMMA PartitionNext ==
  ASSUME ops' = ops, NEW o, NEW w \in Nat, Oldest' = o, Waiting' = w,
         \A k \in 0 .. w - 1 : received'[After(o, k)],
         \A i \in 1 .. Len(hw') :
           hw'[i] = After(o, w + i - 1) /\ ~received'[hw'[i]]
  PROVE  RingPartition'
<1>1. Length' = Length
  BY DEF Length
<1> QED BY <1>1 DEF RingPartition, After

\* The steps that leave the ring alone.
LEMMA QuietStepPreserves ==
  ASSUME IndInv,
         UNCHANGED <<ops, fifo, hw>>,
         pc' = pc \/ (pc \in Plain /\ pc' \in Plain),
         TypeOK', PollProgress'
  PROVE  IndInv' /\ Oldest' = Oldest /\ Waiting' = Waiting
<1> USE DEF IndInv, fifo
<1>1. Length' = Length
  BY DEF Length
<1>2. Oldest' = Oldest /\ Waiting' = Waiting
  BY <1>1 DEF Oldest, Waiting, Owned, After, Plain
<1>3. RingPartition'
  BY <1>1, <1>2 DEF RingPartition, After
<1> QED BY <1>2, <1>3

\* The timer callback outside the loops, the calls of the stack and the link.
Quiet == TimerFire \/ PollLink \/ CarrierOn \/ PollRx \/ PollRxAgain
         \/ Open \/ Stop \/ LinkChange \/ UNCHANGED vars

\* They keep the ring, the waiting frames and the invariant.
LEMMA QuietPreserves ==
  ASSUME IndInv, Quiet
  PROVE  /\ IndInv' /\ UNCHANGED <<ops, fifo, hw, passed>>
         /\ Oldest' = Oldest /\ Waiting' = Waiting
<1> USE EthRxAssumption DEF Quiet
<1>1. UNCHANGED <<ops, fifo, hw, passed>> /\ Length' = Length
  BY DEF TimerFire, PollLink, CarrierOn, PollRx, PollRxAgain, Open, Stop,
         LinkChange, vars, env, fifo, Length
<1>2. pc' = pc \/ (pc \in Plain /\ pc' \in Plain)
  BY DEF TimerFire, PollLink, CarrierOn, PollRx, PollRxAgain, Open, Stop,
         LinkChange, vars, Plain
<1>3. rx_per_poll' \in 0 .. RX_PER_POLL
  BY DEF TimerFire, PollLink, CarrierOn, PollRx, PollRxAgain, Open, Stop,
         LinkChange, vars, IndInv, TypeOK, PollProgress, Budget, env
<1>4. /\ pc' \in {"idle", "poll_link", "hw_reset", "reset", "carrier_on",
                  "poll_rx", "copy", "clear", "add", "inc", "ready"}
      /\ carrier' \in BOOLEAN /\ running' \in BOOLEAN /\ link' \in BOOLEAN
  BY DEF TimerFire, PollLink, CarrierOn, PollRx, PollRxAgain, Open, Stop,
         LinkChange, vars, env, IndInv, TypeOK
<1>5. TypeOK'
  BY <1>1, <1>3, <1>4 DEF IndInv, TypeOK, fifo, Slots
<1>6. PollProgress'
  BY <1>1, <1>3, <1>5 DEF TimerFire, PollLink, CarrierOn, PollRx, PollRxAgain,
     Open, Stop, LinkChange, vars, env, fifo, IndInv, TypeOK, PollProgress,
     Budget, Ready
<1> QED BY <1>1, <1>2, <1>5, <1>6, QuietStepPreserves
\* ccat_eth_receive() takes the oldest waiting frame.
LEMMA ReceivePreserves ==
  ASSUME IndInv, Receive
  PROVE  /\ IndInv'
         /\ UNCHANGED <<ops, fifo, hw>>
         /\ Waiting > 0 /\ Oldest = next
         /\ Waiting' = Waiting - 1 /\ Oldest' = After(Oldest, 1)
<1> USE EthRxAssumption
<1>1. /\ pc = "copy" /\ pc' = "clear" /\ UNCHANGED <<ops, fifo, hw>>
      /\ UNCHANGED <<rx_per_poll, carrier, running, link>>
      /\ Length' = Length /\ Slots' = Slots
  BY DEF Receive, env, Length, Slots
<1>2. Waiting > 0
  BY <1>1, ReceivedIsWaiting DEF Plain, IndInv, PollProgress
<1>3. Length \in Nat \ {0} /\ Len(hw) \in Nat /\ Waiting \in Nat
  BY RingSize
<1>4. Oldest = next /\ Waiting = Length - Len(hw)
  BY <1>1, <1>3 DEF Oldest, Waiting, Owned
<1>5. Waiting' = Waiting - 1 /\ Oldest' = After(next, 1)
  BY <1>1, <1>3, <1>4 DEF Oldest, Waiting, Owned, fifo, After
<1>6. next \in 0 .. Length - 1
  BY DEF IndInv, TypeOK, Slots
<1>7. TypeOK'
  BY <1>1 DEF Receive, IndInv, TypeOK, fifo
<1>8. PollProgress'
  BY <1>1 DEF IndInv, PollProgress
<1>9. \A k \in 0 .. Length - 2 : After(After(next, 1), k) = After(next, k + 1)
  BY <1>3, <1>6 DEF After
<1>10. ASSUME NEW k \in 0 .. Waiting - 2
       PROVE  received'[After(After(next, 1), k)]
  <2>1. k + 1 \in 0 .. Waiting - 1 /\ k \in 0 .. Length - 2
    BY <1>3, <1>4
  <2>2. received[After(next, k + 1)]
    BY <1>4, <2>1 DEF IndInv, RingPartition
  <2> QED BY <1>1, <1>9, <2>1, <2>2 DEF fifo
<1>11. ASSUME NEW i \in 1 .. Len(hw')
       PROVE  /\ hw'[i] = After(After(next, 1), Waiting - 1 + i - 1)
              /\ ~received'[hw'[i]]
  <2>1. /\ i \in 1 .. Len(hw) /\ Waiting - 1 + i - 1 \in 0 .. Length - 2
        /\ (Waiting - 1 + i - 1) + 1 = Waiting + i - 1
    BY <1>1, <1>2, <1>3, <1>4
  <2>2. hw[i] = After(next, Waiting + i - 1) /\ ~received[hw[i]]
    BY <1>4, <2>1 DEF IndInv, RingPartition
  <2>3. hw[i] = After(After(next, 1), Waiting - 1 + i - 1)
    BY <1>9, <2>1, <2>2
  <2> QED BY <1>1, <2>2, <2>3 DEF fifo
<1>12. Waiting - 1 \in Nat /\ (Waiting - 1) - 1 = Waiting - 2
  BY <1>2, <1>3
<1>13. RingPartition'
  BY <1>1, <1>5, <1>10, <1>11, <1>12, PartitionNext
<1> QED BY <1>1, <1>2, <1>4, <1>5, <1>7, <1>8, <1>13 DEF IndInv
\* ops->add() resets one frame and no other.
LEMMA ClearedOne ==
  ASSUME TypeOK
  PROVE  /\ Cleared \in [Slots -> BOOLEAN]
         /\ \A s \in Slots : Cleared[s] <=> s # next /\ received[s]
BY Zenon DEF Cleared, TypeOK

\* ops->add() resets the state of the frame in hand.
LEMMA RxClearPreserves ==
  ASSUME IndInv, RxClear
  PROVE  /\ IndInv' /\ UNCHANGED <<data, passed>>
         /\ Waiting' = Waiting /\ Oldest' = Oldest
<1> USE EthRxAssumption
<1>1. /\ pc = "clear" /\ pc' = (IF ops = "eim" THEN "inc" ELSE "add")
      /\ UNCHANGED <<ops, next, data, rx_per_poll, carrier, running, link>>
      /\ UNCHANGED passed
      /\ Length' = Length /\ Slots' = Slots
  BY DEF RxClear, env, Length, Slots
<1>2. Length \in Nat \ {0} /\ Len(hw) \in Nat /\ Waiting \in Nat
  BY RingSize
<1>3. next \in 0 .. Length - 1 /\ hw \in Seq(Slots) /\ next \in Slots
  BY DEF IndInv, TypeOK, Slots
<1>4. Oldest = After(next, 1) /\ Waiting = Length - Len(hw) - 1
  BY <1>1, <1>2 DEF Oldest, Waiting, Owned
<1>5. received' \in [Slots -> BOOLEAN] /\ received' = Cleared
  BY ClearedOne DEF RxClear, IndInv
<1>6. ~received'[next]
  BY <1>3, <1>5, ClearedOne DEF IndInv
<1>7. PollProgress'
  BY <1>1, <1>6 DEF IndInv, TypeOK, PollProgress
<1>8. CASE ops = "eim"
  <2>1. Length = 1 /\ Len(hw) = 0 /\ Waiting = 0 /\ next = 0
    BY <1>2, <1>3, <1>4, <1>8 DEF Length
  <2>2. hw' = Append(hw, next) /\ pc' = "inc"
    BY <1>1, <1>8 DEF RxClear, GiveToHw
  <2>3. hw' \in Seq(Slots) /\ Len(hw') = 1 /\ hw'[1] = next
    BY <1>3, <2>1, <2>2
  <2>4. Waiting' = 0
    <3>1. Length' = 1 /\ ~Owned' /\ pc' # "reset"
      BY <1>1, <2>1, <2>2 DEF Owned
    <3>2. Waiting' = Length' - Len(hw') - 0
      BY <3>1 DEF Waiting
    <3> QED BY <2>3, <3>1, <3>2
  <2>5. Oldest' = Oldest
    BY <1>1, <1>4, <2>2 DEF Oldest, After
  <2>6. After(Oldest, 0 + 1 - 1) = next
    BY <1>4, <2>1 DEF After
  <2>7. RingPartition'
    BY <1>1, <1>6, <2>3, <2>4, <2>5, <2>6, PartitionNext
  <2>8. TypeOK'
    BY <1>1, <1>5, <2>2, <2>3 DEF IndInv, TypeOK
  <2> QED BY <1>1, <1>7, <2>1, <2>4, <2>5, <2>7, <2>8 DEF IndInv
<1>9. CASE ops = "dma"
  <2>1. hw' = hw /\ pc' = "add"
    BY <1>1, <1>9 DEF RxClear
  <2>2. Waiting' = Waiting
    BY <1>1, <1>2, <1>4, <2>1 DEF Waiting, Owned
  <2>3. Oldest' = Oldest
    BY <1>1, <1>4, <2>1 DEF Oldest, After
  <2>4. ASSUME NEW k \in 0 .. Waiting - 1
        PROVE  received'[After(Oldest, k)]
    <3>1. After(Oldest, k) \in Slots /\ After(Oldest, k) # next
      BY <1>2, <1>3, <1>4 DEF After, Slots
    <3>2. received[After(Oldest, k)]
      BY DEF IndInv, RingPartition
    <3> QED BY <1>5, <3>1, <3>2, ClearedOne DEF IndInv
  <2>5. ASSUME NEW i \in 1 .. Len(hw')
        PROVE  hw'[i] = After(Oldest, Waiting + i - 1) /\ ~received'[hw'[i]]
    <3>1. hw[i] \in Slots /\ hw[i] = After(Oldest, Waiting + i - 1) /\ ~received[hw[i]]
      BY <1>3, <2>1 DEF IndInv, RingPartition
    <3> QED BY <1>5, <2>1, <3>1, ClearedOne DEF IndInv
  <2>6. RingPartition'
    BY <1>1, <1>2, <2>2, <2>3, <2>4, <2>5, PartitionNext
  <2>7. TypeOK'
    BY <1>1, <1>5, <2>1 DEF IndInv, TypeOK
  <2> QED BY <1>1, <1>7, <2>2, <2>3, <2>6, <2>7 DEF IndInv
<1> QED BY <1>8, <1>9 DEF IndInv, TypeOK

\* A descriptor that is appended comes after those the CCAT has.
LEMMA GiveToHwAppends ==
  ASSUME IndInv, GiveToHw(next)
  PROVE  /\ hw' \in Seq(Slots)
         /\ Len(hw') = Len(hw) + 1
         /\ \A i \in 1 .. Len(hw) : hw'[i] = hw[i] /\ hw[i] \in Slots
         /\ hw'[Len(hw) + 1] = next
BY DEF GiveToHw, IndInv, TypeOK

\* ccat_eth_rx_fifo_dma_add() hands the frame in hand back as the last one.
LEMMA RxAddPreserves ==
  ASSUME IndInv, RxAdd
  PROVE  /\ IndInv' /\ UNCHANGED <<data, passed>>
         /\ Waiting' = Waiting /\ Oldest' = Oldest
<1> USE EthRxAssumption
<1>1. /\ pc = "add" /\ pc' = "inc"
      /\ UNCHANGED <<ops, fifo, rx_per_poll, passed, carrier, running, link>>
      /\ Length' = Length /\ Slots' = Slots
  BY DEF RxAdd, env, Length, Slots
<1>2. Length \in Nat \ {0} /\ Len(hw) \in Nat /\ Waiting \in Nat
  BY RingSize
<1>3. next \in 0 .. Length - 1
  BY DEF IndInv, TypeOK, Slots
<1>4. Oldest = After(next, 1) /\ Waiting = Length - Len(hw) - 1
  BY <1>1, <1>2 DEF Oldest, Waiting, Owned
<1>5. /\ hw' \in Seq(Slots) /\ Len(hw') = Len(hw) + 1
      /\ \A i \in 1 .. Len(hw) : hw'[i] = hw[i]
      /\ hw'[Len(hw) + 1] = next
  BY GiveToHwAppends DEF RxAdd
<1>6. Waiting' = Waiting
  BY <1>1, <1>2, <1>4, <1>5 DEF Waiting, Owned
<1>7. Oldest' = Oldest
  BY <1>1, <1>4 DEF Oldest, After, fifo
<1>8. \A k \in 0 .. Waiting - 1 : received'[After(Oldest, k)]
  BY <1>1 DEF IndInv, RingPartition, fifo
<1>9. ASSUME NEW i \in 1 .. Len(hw')
      PROVE  hw'[i] = After(Oldest, Waiting + i - 1) /\ ~received'[hw'[i]]
  <2>1. CASE i \in 1 .. Len(hw)
    BY <1>1, <1>5, <2>1 DEF IndInv, RingPartition, fifo
  <2>2. CASE i = Len(hw) + 1
    <3>1. After(Oldest, Waiting + i - 1) = next
      BY <1>2, <1>3, <1>4, <2>2 DEF After
    <3> QED BY <1>1, <1>5, <2>2, <3>1 DEF IndInv, PollProgress, fifo
  <2> QED BY <1>2, <1>5, <2>1, <2>2
<1>10. RingPartition'
  BY <1>1, <1>2, <1>6, <1>7, <1>8, <1>9, PartitionNext
<1>11. TypeOK' /\ PollProgress'
  BY <1>1, <1>5 DEF IndInv, TypeOK, PollProgress, fifo
<1> QED BY <1>1, <1>6, <1>7, <1>10, <1>11 DEF IndInv, fifo

\* ccat_eth_fifo_inc() counts the frame that was handed back.
LEMMA RxIncPreserves ==
  ASSUME IndInv, RxInc
  PROVE  /\ IndInv' /\ UNCHANGED <<data, passed>>
         /\ Waiting' = Waiting /\ Oldest' = Oldest
<1> USE EthRxAssumption
<1>1. /\ pc = "inc" /\ pc' = "ready" /\ next' = Inc(next)
      /\ UNCHANGED <<ops, received, data, hw, rx_per_poll, passed>>
      /\ UNCHANGED <<carrier, running, link>>
      /\ Length' = Length /\ Slots' = Slots
  BY DEF RxInc, env, Length, Slots
<1>2. Length \in Nat \ {0} /\ Len(hw) \in Nat /\ Waiting \in Nat
  BY RingSize
<1>3. next' = After(next, 1) /\ next' \in Slots
  BY <1>1, <1>2 DEF IndInv, TypeOK, Inc, End, After, Slots
<1>4. Waiting' = Waiting
  BY <1>1 DEF Waiting, Owned
<1>5. Oldest' = Oldest
  BY <1>1, <1>3 DEF Oldest
<1>6. RingPartition'
  BY <1>1, <1>2, <1>4, <1>5, PartitionNext DEF IndInv, RingPartition
<1>7. TypeOK' /\ PollProgress'
  BY <1>1, <1>3 DEF IndInv, TypeOK, PollProgress
<1> QED BY <1>1, <1>4, <1>5, <1>6, <1>7 DEF IndInv

\* ccat_eth_fifo_hw_reset() leaves no descriptor in the CCAT.
LEMMA FifoHwResetPreserves ==
  ASSUME IndInv, FifoHwReset
  PROVE  IndInv' /\ UNCHANGED passed /\ Waiting' = 0 /\ pc = "hw_reset" /\ pc' = "reset"
<1> USE EthRxAssumption
<1>1. /\ pc = "hw_reset" /\ pc' = "reset" /\ next' = 0 /\ hw' = <<>>
      /\ UNCHANGED <<ops, received, data, rx_per_poll, passed>>
      /\ UNCHANGED <<carrier, running, link>>
      /\ Length' = Length /\ Slots' = Slots
  BY DEF FifoHwReset, Emptied, env, Length, Slots
<1>2. hw' \in Seq(Slots) /\ Len(hw') = 0 /\ next' \in Slots
  BY <1>1, RingSize DEF Slots
<1>3. Waiting' = 0 /\ Oldest' = 0
  <2>1. Waiting' = next' - Len(hw') /\ Oldest' = 0
    BY <1>1 DEF Waiting, Oldest
  <2> QED BY <1>1, <1>2, <2>1
<1>4. RingPartition'
  BY <1>1, <1>2, <1>3, PartitionNext
<1>5. TypeOK' /\ PollProgress'
  BY <1>1, <1>2 DEF IndInv, TypeOK, PollProgress
<1> QED BY <1>1, <1>3, <1>4, <1>5 DEF IndInv

\* A turn of the loop of ccat_eth_fifo_reset() adds the next frame, while the
\* CCAT may already be filling the earlier ones.
LEMMA FifoResetAddPreserves ==
  ASSUME IndInv, FifoResetAdd
  PROVE  /\ IndInv' /\ UNCHANGED <<data, passed>>
         /\ Waiting' = Waiting /\ Oldest' = Oldest
<1> USE EthRxAssumption
<1>1. /\ pc = "reset" /\ pc' \in {"reset", "carrier_on"}
      /\ next' = Inc(next)
      /\ pc' = "reset" <=> next' # 0
      /\ UNCHANGED <<ops, data, rx_per_poll, passed, carrier, running, link>>
      /\ Length' = Length /\ Slots' = Slots
  BY DEF FifoResetAdd, env, Length, Slots
<1>2. /\ Length \in Nat \ {0} /\ Len(hw) \in Nat /\ Waiting \in Nat
      /\ Oldest = 0 /\ Waiting = next - Len(hw)
  BY <1>1, RingSize DEF Oldest, Waiting
<1>3. next \in 0 .. Length - 1
  BY DEF IndInv, TypeOK, Slots
<1>4. /\ hw' \in Seq(Slots) /\ Len(hw') = Len(hw) + 1
      /\ \A i \in 1 .. Len(hw) : hw'[i] = hw[i] /\ hw[i] \in Slots
      /\ hw'[Len(hw) + 1] = next
  BY GiveToHwAppends DEF FifoResetAdd
<1>5. next' \in Slots /\ next' = (IF next = Length - 1 THEN 0 ELSE next + 1)
  BY <1>1, <1>2, <1>3 DEF Inc, End, Slots
<1>6. Waiting' = Waiting /\ Oldest' = Oldest
  <2>1. CASE next = Length - 1
    <3>1. next' = 0 /\ pc' = "carrier_on" /\ ~Owned'
      BY <1>1, <1>5, <2>1 DEF Owned
    <3>2. Oldest' = 0
      BY <3>1 DEF Oldest
    <3> QED BY <1>1, <1>2, <1>3, <1>4, <2>1, <3>1, <3>2 DEF Waiting
  <2>2. CASE next # Length - 1
    <3>1. next' = next + 1 /\ pc' = "reset"
      BY <1>1, <1>3, <1>5, <2>2
    <3> QED BY <1>2, <1>3, <1>4, <3>1 DEF Oldest, Waiting
  <2> QED BY <2>1, <2>2
<1>7. received' \in [Slots -> BOOLEAN] /\ received' = Cleared
  BY ClearedOne DEF FifoResetAdd, IndInv
<1>8. ASSUME NEW k \in 0 .. Waiting - 1
      PROVE  received'[After(Oldest, k)]
  <2>1. After(Oldest, k) \in Slots /\ After(Oldest, k) # next
    BY <1>2, <1>3 DEF After, Slots
  <2>2. received[After(Oldest, k)]
    BY DEF IndInv, RingPartition
  <2> QED BY <1>7, <2>1, <2>2, ClearedOne DEF IndInv
<1>9. ASSUME NEW i \in 1 .. Len(hw')
      PROVE  hw'[i] = After(Oldest, Waiting + i - 1) /\ ~received'[hw'[i]]
  <2>1. CASE i \in 1 .. Len(hw)
    <3>1. hw[i] = After(Oldest, Waiting + i - 1) /\ ~received[hw[i]]
      BY <2>1 DEF IndInv, RingPartition
    <3> QED BY <1>4, <1>7, <2>1, <3>1, ClearedOne DEF IndInv
  <2>2. CASE i = Len(hw) + 1
    <3>1. After(Oldest, Waiting + i - 1) = next
      BY <1>2, <1>3, <2>2 DEF After
    <3>2. ~received'[next]
      BY <1>7, ClearedOne DEF IndInv, TypeOK
    <3> QED BY <1>4, <2>2, <3>1, <3>2
  <2> QED BY <1>2, <1>4, <2>1, <2>2
<1>10. RingPartition'
  BY <1>1, <1>2, <1>6, <1>8, <1>9, PartitionNext
<1>11. TypeOK' /\ PollProgress'
  BY <1>1, <1>4, <1>5, <1>7 DEF IndInv, TypeOK, PollProgress
<1> QED BY <1>1, <1>6, <1>10, <1>11 DEF IndInv

\* The CCAT stores a frame behind the waiting ones, at any moment.
LEMMA HwReceivePreserves ==
  ASSUME IndInv, NEW f \in Frames, HwReceive(f)
  PROVE  /\ IndInv'
         /\ UNCHANGED <<pc, passed>>
         /\ Oldest' = Oldest /\ Waiting' = Waiting + 1 /\ Waiting < Length
         /\ \A k \in 0 .. Waiting - 1 :
              data'[After(Oldest, k)] = data[After(Oldest, k)]
         /\ data'[After(Oldest, Waiting)] = f
<1> USE EthRxAssumption
<1>1. /\ UNCHANGED <<ops, pc, next, rx_per_poll, passed, carrier, running, link>>
      /\ Length' = Length /\ Slots' = Slots
  BY DEF HwReceive, env, Length, Slots
<1>2. /\ Length \in Nat \ {0} /\ Len(hw) \in Nat /\ Waiting \in Nat
      /\ Oldest \in Slots /\ Waiting + Len(hw) <= Length
  BY RingSize
<1>3. /\ hw \in Seq(Slots) /\ hw # <<>> /\ hw' = Tail(hw) /\ Len(hw) > 0
      /\ data' = [data EXCEPT ![Head(hw)] = f]
      /\ received' = [received EXCEPT ![Head(hw)] = TRUE]
      /\ received \in [Slots -> BOOLEAN]
      /\ data \in [Slots -> Frames \cup {NoFrame}]
  BY DEF HwReceive, IndInv, TypeOK
<1>4. /\ hw' \in Seq(Slots) /\ Len(hw') = Len(hw) - 1
      /\ \A i \in 1 .. Len(hw') : hw'[i] = hw[i + 1]
  BY <1>3
<1>5. PICK h \in Slots : h = Head(hw) /\ h = hw[1]
  BY <1>3
<1>6. h = After(Oldest, Waiting) /\ ~received[h]
  <2>1. 1 \in 1 .. Len(hw) /\ Waiting + 1 - 1 = Waiting
    BY <1>2, <1>3
  <2> QED BY <1>5, <2>1 DEF IndInv, RingPartition
<1>7. Oldest' = Oldest
  BY <1>1 DEF Oldest, After
<1>8. Waiting' = Waiting + 1 /\ Waiting < Length
  <2>1. CASE pc = "reset"
    <3>1. Waiting' = next - Len(hw') /\ Waiting = next - Len(hw) /\ next \in Int
      BY <1>1, <2>1 DEF Waiting, IndInv, TypeOK, Slots
    <3> QED BY <1>2, <1>3, <1>4, <3>1
  <2>2. CASE pc # "reset"
    <3>1. PICK o \in {0, 1} : Waiting' = Length - Len(hw') - o
                            /\ Waiting = Length - Len(hw) - o
      BY <1>1, <2>2 DEF Waiting, Owned
    <3> QED BY <1>2, <1>3, <1>4, <3>1
  <2> QED BY <2>1, <2>2
<1>9. received'[h] /\ \A s \in Slots : s # h => received'[s] = received[s]
  BY <1>3, <1>5
<1>10. \A k \in 0 .. Waiting - 1 :
         received[After(Oldest, k)] /\ After(Oldest, k) \in Slots
  BY <1>2, AfterInjective DEF IndInv, RingPartition
<1>11. ASSUME NEW k \in 0 .. Waiting + 1 - 1
       PROVE  received'[After(Oldest, k)]
  <2>1. CASE k = Waiting
    BY <1>6, <1>9, <2>1
  <2>2. CASE k \in 0 .. Waiting - 1
    BY <1>6, <1>9, <1>10, <2>2
  <2> QED BY <1>2, <2>1, <2>2
<1>12. ASSUME NEW i \in 1 .. Len(hw')
       PROVE  hw'[i] = After(Oldest, Waiting + 1 + i - 1) /\ ~received'[hw'[i]]
  <2>1. /\ i + 1 \in 1 .. Len(hw) /\ Waiting + (i + 1) - 1 = Waiting + 1 + i - 1
        /\ Waiting + 1 + i - 1 \in 0 .. Length - 1 /\ Waiting \in 0 .. Length - 1
        /\ Waiting + 1 + i - 1 # Waiting
    BY <1>2, <1>3, <1>4
  <2>2. hw[i + 1] = After(Oldest, Waiting + 1 + i - 1) /\ ~received[hw[i + 1]]
    BY <2>1 DEF IndInv, RingPartition
  <2>3. hw[i + 1] # h /\ hw[i + 1] \in Slots
    BY <1>2, <1>6, <2>1, <2>2, AfterInjective
  <2> QED BY <1>4, <1>9, <2>2, <2>3
<1>13. RingPartition'
  <2>1. PICK w \in Nat : w = Waiting + 1
    BY <1>2
  <2>2. \A k \in 0 .. w - 1 : received'[After(Oldest, k)]
    <3>1. 0 .. w - 1 = 0 .. Waiting + 1 - 1
      BY <1>2, <2>1
    <3> QED BY <1>11, <3>1
  <2>3. \A i \in 1 .. Len(hw') :
          hw'[i] = After(Oldest, w + i - 1) /\ ~received'[hw'[i]]
    BY <1>12, <2>1
  <2>4. Waiting' = w
    BY <1>8, <2>1
  <2> QED BY <1>1, <1>7, <2>2, <2>3, <2>4, PartitionNext
<1>14. TypeOK' /\ PollProgress'
  <2>1. /\ received' \in [Slots -> BOOLEAN]
        /\ data' \in [Slots -> Frames \cup {NoFrame}]
    BY <1>3, <1>5
  <2>2. received[next] => received'[next]
    BY <1>6, <1>9 DEF IndInv, TypeOK
  <2>3. pc = "add" => next # h
    <3> SUFFICES ASSUME pc = "add" PROVE next # h
      OBVIOUS
    <3>1. Oldest = After(next, 1) /\ Waiting = Length - Len(hw) - 1
      BY DEF Oldest, Waiting, Owned
    <3> QED BY <1>2, <1>3, <1>6, <3>1 DEF IndInv, TypeOK, Slots, After
  <2>4. PollProgress'
    BY <1>1, <1>9, <2>2, <2>3 DEF IndInv, TypeOK, PollProgress
  <2>5. TypeOK'
    BY <1>1, <1>4, <2>1 DEF IndInv, TypeOK
  <2> QED BY <2>4, <2>5
<1>15. \A k \in 0 .. Waiting - 1 :
         data'[After(Oldest, k)] = data[After(Oldest, k)]
  BY <1>3, <1>5, <1>6, <1>10
<1>16. data'[After(Oldest, Waiting)] = f
  BY <1>3, <1>5, <1>6
<1> QED BY <1>1, <1>7, <1>8, <1>13, <1>14, <1>15, <1>16 DEF IndInv

(***************************************************************************)
(* The theorems                                                            *)
(***************************************************************************)

\* The ring as ccat_eth_fifo_reset() leaves it in the probe.
LEMMA InitIndInv == Init => IndInv
<1> SUFFICES ASSUME Init PROVE IndInv
  OBVIOUS
<1> USE EthRxAssumption DEF Init
<1>1. Length \in Nat \ {0}
  BY DEF Length
<1>2. hw \in Seq(Slots) /\ Len(hw) = Length /\ \A i \in 1 .. Length : hw[i] = i - 1
  BY <1>1 DEF Slots
<1>3. received \in [Slots -> BOOLEAN] /\ \A s \in Slots : ~received[s]
  BY Zenon
<1>4. TypeOK
  <2>1. next \in Slots /\ data \in [Slots -> Frames \cup {NoFrame}]
    BY <1>1 DEF Slots
  <2>2. passed \in [frame : Frames \cup {NoFrame}, bit : {0, 1}]
    OBVIOUS
  <2>3. rx_per_poll \in 0 .. RX_PER_POLL
    OBVIOUS
  <2> QED BY <1>2, <1>3, <2>1, <2>2, <2>3 DEF TypeOK
<1>5. Waiting = 0 /\ Oldest = 0
  BY <1>1, <1>2 DEF Waiting, Oldest, Owned
<1>6. RingPartition
  <2>1. ASSUME NEW i \in 1 .. Len(hw)
        PROVE  hw[i] = After(Oldest, Waiting + i - 1) /\ ~received[hw[i]]
    <3>1. hw[i] = i - 1 /\ i - 1 \in Slots /\ After(0, 0 + i - 1) = i - 1
      BY <1>1, <1>2 DEF After, Slots
    <3> QED BY <1>3, <1>5, <3>1
  <2>2. 0 .. Waiting - 1 = {} /\ Waiting >= 0
    BY <1>5
  <2> QED BY <2>1, <2>2 DEF RingPartition
<1>7. PollProgress
  BY DEF PollProgress
<1> QED BY <1>4, <1>6, <1>7 DEF IndInv

\* Every step preserves the invariant.
LEMMA NextIndInv ==
  ASSUME IndInv, [Next]_vars
  PROVE  IndInv'
<1>1. CASE Quiet
  BY <1>1, QuietPreserves
<1>2. CASE Receive
  BY <1>2, ReceivePreserves
<1>3. CASE RxClear
  BY <1>3, RxClearPreserves
<1>4. CASE RxAdd
  BY <1>4, RxAddPreserves
<1>5. CASE RxInc
  BY <1>5, RxIncPreserves
<1>6. CASE FifoHwReset
  BY <1>6, FifoHwResetPreserves
<1>7. CASE FifoResetAdd
  BY <1>7, FifoResetAddPreserves
<1>8. ASSUME NEW f \in Frames, HwReceive(f) PROVE IndInv'
  BY <1>8, HwReceivePreserves
<1> QED BY <1>1, <1>2, <1>3, <1>4, <1>5, <1>6, <1>7, <1>8 DEF Next, Timer, Quiet

\* The inductive invariant holds in every reachable state.
THEOREM ReceiveInvariant == Spec => []IndInv
<1>1. IndInv /\ [Next]_vars => IndInv'
  BY NextIndInv
<1> QED BY <1>1, InitIndInv, PTL DEF Spec

\* The variables of the receive path keep their types: in particular
\* fifo->next stays in the ring and rx_per_poll never goes below zero.
THEOREM ReceiveTypes == Spec => []TypeOK
<1>1. IndInv => TypeOK
  BY DEF IndInv
<1> QED BY <1>1, ReceiveInvariant, PTL

\* At any moment every frame of the RX ring has exactly one owner, and the
\* waiting, the free and the frame in hand follow each other in the ring: for
\* every FIFO_LENGTH and both sets of fifo operations, also during the reset
\* on link up.
THEOREM PartitionCorrect == Spec => []RingPartition
<1>1. IndInv => RingPartition
  BY DEF IndInv
<1> QED BY <1>1, ReceiveInvariant, PTL

(***************************************************************************)
(* The refinement of RxChannel                                             *)
(***************************************************************************)

\* The waiting frames, oldest first: what the channel calls stored
Stored == IF pc = "hw_reset" THEN <<>>
          ELSE [i \in 1 .. Waiting |-> data[After(Oldest, i - 1)]]

\* The waiting frames are a queue of frames.
IsQueue == /\ pc # "hw_reset" => Len(Stored) = Waiting
           /\ Stored \in Seq(Frames \cup {NoFrame})

\* The ring holds no more waiting frames than it counts.
LEMMA StoredIsQueue == ASSUME IndInv PROVE IsQueue
<1>1. /\ Length \in Nat \ {0} /\ Waiting \in Nat /\ Waiting <= Length
      /\ Oldest \in Slots
  BY RingSize
<1>2. ASSUME NEW i \in 1 .. Waiting
      PROVE  data[After(Oldest, i - 1)] \in Frames \cup {NoFrame}
  <2>1. i - 1 \in 0 .. Length - 1
    BY <1>1
  <2> QED BY <1>1, <2>1, AfterInjective DEF IndInv, TypeOK
<1> QED BY <1>1, <1>2 DEF IsQueue, Stored

\* The same in the next state.
LEMMA StoredIsQueueNext == IndInv' => IsQueue'
<1>1. IndInv => IsQueue
  BY StoredIsQueue
<1> QED BY <1>1, PTL

\* A step that changes neither the waiting frames nor what was passed.
LEMMA StoredUntouched ==
  ASSUME ops' = ops, data' = data, Oldest' = Oldest, Waiting' = Waiting,
         pc # "hw_reset", pc' # "hw_reset"
  PROVE  Stored' = Stored
BY DEF Stored, After, Length

\* The ring of a driver with no frames waiting is the empty channel.
LEMMA InitChannel == Init => Channel!Init
<1> SUFFICES ASSUME Init PROVE Channel!Init
  OBVIOUS
<1>1. IndInv
  BY InitIndInv
<1>2. Waiting = 0 /\ pc # "hw_reset"
  BY <1>1, RingSize DEF Init, Waiting, Owned
<1> QED BY <1>2 DEF Channel!Init

\* Every step of the receive path is a step of the channel or none.
LEMMA NextChannel ==
  ASSUME IndInv, IndInv', [Next]_vars
  PROVE  [Channel!Next]_(Channel!vars)
<1>s. /\ UNCHANGED Channel!vars <=> Stored' = Stored /\ passed' = passed
      /\ Channel!Flush <=> Stored' = <<>> /\ passed' = passed
      /\ Channel!Drop <=>
           Stored # <<>> /\ Stored' = Tail(Stored) /\ passed' = passed
      /\ Channel!Pass <=>
           /\ Stored # <<>> /\ Stored' = Tail(Stored)
           /\ passed' = [frame |-> Head(Stored), bit |-> 1 - passed.bit]
  BY Zenon DEF Stored, Channel!vars, Channel!Flush, Channel!Drop, Channel!Pass
<1>1. ASSUME Quiet PROVE [Channel!Next]_(Channel!vars)
  <2>1. UNCHANGED <<ops, data, passed>> /\ Oldest' = Oldest /\ Waiting' = Waiting
    BY <1>1, QuietPreserves DEF fifo
  <2>2. CASE pc' = "hw_reset"
    <3>1. Channel!Flush
      BY <1>s, <2>1, <2>2 DEF Stored
    <3> QED BY <3>1 DEF Channel!Next
  <2>3. CASE pc' # "hw_reset"
    <3>1. pc # "hw_reset"
      BY <1>1, <2>3 DEF Quiet, TimerFire, PollLink, CarrierOn, PollRx,
         PollRxAgain, Open, Stop, LinkChange, vars
    <3> QED BY <1>s, <2>1, <2>3, <3>1, StoredUntouched
  <2> QED BY <2>2, <2>3
<1>2. ASSUME Receive PROVE [Channel!Next]_(Channel!vars)
  <2>1. /\ UNCHANGED <<ops, data>> /\ Length' = Length
        /\ Waiting > 0 /\ Oldest = next
        /\ Waiting' = Waiting - 1 /\ Oldest' = After(Oldest, 1)
    BY <1>2, ReceivePreserves DEF fifo, Length
  <2>2. /\ Length \in Nat \ {0} /\ Waiting \in Nat /\ Waiting <= Length
        /\ Oldest \in 0 .. Length - 1
    BY RingSize DEF Slots
  <2>3. pc # "hw_reset" /\ pc' # "hw_reset"
    BY <1>2 DEF Receive
  <2>4. /\ Stored \in Seq(Frames \cup {NoFrame}) /\ Len(Stored) = Waiting
        /\ Stored' \in Seq(Frames \cup {NoFrame}) /\ Len(Stored') = Waiting - 1
    BY <2>1, <2>3, StoredIsQueue, StoredIsQueueNext DEF IsQueue
  <2>5. Stored # <<>> /\ Head(Stored) = data[next]
    <3>1. Stored[1] = data[After(Oldest, 1 - 1)] /\ After(Oldest, 1 - 1) = Oldest
      BY <2>1, <2>2, <2>3 DEF Stored, After
    <3> QED BY <2>1, <2>4, <3>1
  <2>6. ASSUME NEW i \in 1 .. Waiting - 1
        PROVE  Stored'[i] = Stored[i + 1]
    <3>1. Stored'[i] = data[After(Oldest, 1 + (i - 1))]
      <4>1. After(After(Oldest, 1), i - 1) = After(Oldest, 1 + (i - 1))
        BY <2>2 DEF After
      <4>2. Stored'[i] = data'[After(Oldest, i - 1)']
        BY <2>1, <2>3 DEF Stored
      <4>3. After(Oldest, i - 1)' = After(After(Oldest, 1), i - 1)
        BY <2>1 DEF After
      <4> QED BY <2>1, <4>1, <4>2, <4>3
    <3>2. Stored[i + 1] = data[After(Oldest, (i + 1) - 1)]
      BY <2>2, <2>3 DEF Stored
    <3>3. 1 + (i - 1) = (i + 1) - 1
      OBVIOUS
    <3> QED BY <3>1, <3>2, <3>3
  <2>7. Stored' = Tail(Stored)
    BY <2>1, <2>2, <2>4, <2>6
  <2>8. Channel!Pass \/ Channel!Drop
    BY <1>2, <1>s, <2>5, <2>7 DEF Receive
  <2> QED BY <2>8 DEF Channel!Next
<1>3. ASSUME RxClear \/ RxAdd \/ RxInc \/ FifoResetAdd
      PROVE  UNCHANGED Channel!vars
  <2>1. ops' = ops /\ pc # "hw_reset" /\ pc' # "hw_reset"
    BY <1>3 DEF RxClear, RxAdd, RxInc, FifoResetAdd, env
  <2>2. UNCHANGED <<data, passed>> /\ Waiting' = Waiting /\ Oldest' = Oldest
    BY <1>3, RxClearPreserves, RxAddPreserves, RxIncPreserves,
       FifoResetAddPreserves
  <2> QED BY <1>s, <2>1, <2>2, StoredUntouched
<1>4. ASSUME FifoHwReset PROVE UNCHANGED Channel!vars
  <2>1. /\ pc = "hw_reset" /\ pc' # "hw_reset" /\ passed' = passed
        /\ Waiting' = 0
    BY <1>4, FifoHwResetPreserves
  <2>2. Stored = <<>> /\ Stored' = <<>>
    BY <2>1 DEF Stored
  <2> QED BY <1>s, <2>1, <2>2
<1>5. ASSUME NEW f \in Frames, HwReceive(f)
      PROVE  [Channel!Next]_(Channel!vars)
  <2>1. /\ UNCHANGED <<ops, pc, passed>> /\ Length' = Length
        /\ Oldest' = Oldest /\ Waiting' = Waiting + 1 /\ Waiting < Length
        /\ \A k \in 0 .. Waiting - 1 :
             data'[After(Oldest, k)] = data[After(Oldest, k)]
        /\ data'[After(Oldest, Waiting)] = f
    BY <1>5, HwReceivePreserves DEF Length, HwReceive, env
  <2>2. /\ Length \in Nat \ {0} /\ Length <= FIFO_LENGTH /\ Waiting \in Nat
    BY RingSize
  <2>3. CASE pc = "hw_reset"
    BY <1>s, <2>1, <2>3 DEF Stored
  <2>4. CASE pc # "hw_reset"
    <3>1. /\ Stored \in Seq(Frames \cup {NoFrame}) /\ Len(Stored) = Waiting
          /\ Stored' \in Seq(Frames \cup {NoFrame}) /\ Len(Stored') = Waiting + 1
      BY <2>1, <2>4, StoredIsQueue, StoredIsQueueNext DEF IsQueue
    <3>2. \A k \in 0 .. Waiting : After(Oldest, k)' = After(Oldest, k)
      BY <2>1 DEF After
    <3>3. ASSUME NEW i \in 1 .. Waiting PROVE Stored'[i] = Stored[i]
      <4>1. i - 1 \in 0 .. Waiting - 1 /\ i \in 1 .. Waiting + 1
        BY <2>2
      <4>2. Stored'[i] = data'[After(Oldest, i - 1)']
        BY <2>1, <2>4, <4>1 DEF Stored
      <4>3. Stored[i] = data[After(Oldest, i - 1)]
        BY <2>4 DEF Stored
      <4> QED BY <2>1, <2>2, <3>2, <4>1, <4>2, <4>3
    <3>4. Stored'[Waiting + 1] = f
      <4>1. PICK w \in Nat : w = Waiting
        BY <2>2
      <4>2. w + 1 \in 1 .. w + 1 /\ w + 1 - 1 = w /\ w \in 0 .. Waiting
        BY <4>1
      <4>3. Stored'[w + 1] = data'[After(Oldest, w + 1 - 1)']
        BY <2>1, <2>4, <4>1, <4>2 DEF Stored
      <4>4. After(Oldest, w)' = After(Oldest, Waiting)
        BY <3>2, <4>1, <4>2
      <4> QED BY <2>1, <4>1, <4>2, <4>3, <4>4
    <3>5. Stored' = Append(Stored, f)
      BY <2>2, <3>1, <3>3, <3>4
    <3>6. Channel!Store(f)
      <4>1. Len(Stored) < FIFO_LENGTH
        BY <2>1, <2>2, <3>1, EthRxAssumption
      <4> QED BY <2>1, <3>5, <4>1, Zenon DEF Channel!Store, Stored
    <3> QED BY <3>6 DEF Channel!Next
  <2> QED BY <2>3, <2>4
<1> QED BY <1>1, <1>2, <1>3, <1>4, <1>5 DEF Next, Timer, Quiet

\* The receive path implements the channel: the stack gets the frames the
\* CCAT stored, once each, unchanged and in order, and a frame is lost only
\* without a socket buffer or in the reset on link up.
THEOREM ReceiveImplementsChannel == Spec => ImplementsChannel
<1>1. IndInv /\ IndInv' /\ [Next]_vars => [Channel!Next]_(Channel!vars)
  BY NextChannel
<1> QED BY <1>1, InitChannel, ReceiveInvariant, PTL
        DEF Spec, ImplementsChannel, Channel!Spec
=============================================================================
