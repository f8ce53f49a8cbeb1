---------------------------- MODULE EthTxProofs ----------------------------
(***************************************************************************)
(* Proofs about the transmit path, for a ring of any length, either set of *)
(* fifo operations and any frames, when the loss of a link is handled      *)
(* before it comes back (SettledLink).                                     *)
(***************************************************************************)
EXTENDS EthTx, TLAPS

\* Without a lock, at most one context is inside ccat_eth_start_xmit().
LEMMA XmitExclusive ==
  ASSUME IndInv, NEW c \in Contexts, NEW d \in Contexts,
         pc[c] \in XmitLabels, pc[d] \in XmitLabels
  PROVE  c = d
BY DEF IndInv, TypeOK, Exclusion, Contexts, XmitLabels, LinkUpLabels

\* A context in ccat_eth_start_xmit() finds fifo->next in the ring and the
\* timer out of ccat_eth_fifo_reset(), until it wraps the cursor itself.
LEMMA CursorInRing ==
  ASSUME IndInv, NEW ctx \in Contexts, pc[ctx] \in XmitLabels \ {"wrap"}
  PROVE  /\ next \in Slots
         /\ pc["timer"] # "reset"
<1>1. \A c \in Contexts : pc[c] # "wrap"
  BY XmitExclusive DEF XmitLabels
<1>2. next \in Slots
  BY <1>1, EthTxAssumption DEF IndInv, TypeOK, XmitProgress, Slots, End
<1>3. pc["timer"] # "reset"
  BY DEF IndInv, Exclusion, Contexts, XmitLabels, LinkUpLabels
<1> QED BY <1>2, <1>3

\* fifo_eim_tx_ready() masks the level; a level of one survives the mask.
LEMMA OneIsNotReady ==
  ASSUME NEW n \in 0 .. 1, n % 64 = 0
  PROVE  n = 0
OBVIOUS

\* The labels the ring invariants tell apart.
Tracked == {"check", "fill", "kick", "load", "store", "wrap", "reset", "raw"}

RingInv == /\ XmitProgress /\ ResetProgress /\ EimFlags
           /\ RingSegment /\ ReadyMeansFree /\ BusyMeansOwned

\* A step that touches neither ring nor CCAT and moves no context to or from
\* a tracked label preserves the invariants of the ring.
LEMMA RingUntouched ==
  ASSUME IndInv, UNCHANGED <<ops, skb, frame, next, tx_flags, data, hw>>,
         \A c \in Contexts : pc[c] \in Tracked \/ pc'[c] \in Tracked
                               => pc'[c] = pc[c]
  PROVE  RingInv'
<1> USE DEF IndInv, Tracked, Contexts
<1>1. NewestEnd' = NewestEnd
  BY DEF NewestEnd, Inc, End
<1>2. XmitProgress'
  BY DEF XmitProgress, InHw, End
<1>3. ResetProgress' /\ EimFlags'
  BY DEF ResetProgress, EimFlags, Slots
<1>4. RingSegment'
  BY <1>1 DEF RingSegment, Before
<1>5. ReadyMeansFree' /\ BusyMeansOwned'
  BY DEF ReadyMeansFree, BusyMeansOwned, InHw, Slots
<1> QED BY <1>2, <1>3, <1>4, <1>5 DEF RingInv

(***************************************************************************)
(* Steps that only move a context or change the state of the interface     *)
(***************************************************************************)

QuietStep ==
  \/ \E ctx \in Contexts : XmitBusy(ctx) \/ XmitFull(ctx) \/ XmitStop(ctx)
  \/ TimerFire \/ PollLink \/ LinkDown \/ CarrierOff \/ CarrierOn \/ StartQueue
  \/ PollTx \/ WakeQueue
  \/ Linkwatch \/ Open \/ Deactivate \/ StopQueue \/ CancelTimer
  \/ LinkFall \/ LinkRise

\* The steps of QuietStep touch neither the ring nor the CCAT's descriptors.
LEMMA QuietStepPreserves ==
  ASSUME IndInv, SettledLink, QuietStep
  PROVE  IndInv'
<1> USE DEF IndInv, TypeOK, Contexts, XmitLabels, TimerLabels, LinkUpLabels,
            Goto, fifo, local, netif, env
<1> DEFINE Quiet ==
      /\ TypeOK'
      /\ Exclusion'
      /\ UNCHANGED <<ops, skb, frame, next, tx_flags, data, hw>>
      /\ \A c \in Contexts : pc[c] \in Tracked \/ pc'[c] \in Tracked
                               => pc'[c] = pc[c]
<1>1. ASSUME NEW ctx \in Contexts, XmitBusy(ctx) PROVE Quiet
  BY <1>1 DEF XmitBusy, Return, Exclusion, Tracked
<1>2. ASSUME NEW ctx \in Contexts, XmitFull(ctx) PROVE Quiet
  BY <1>2 DEF XmitFull, Return, Exclusion, Tracked
<1>3. ASSUME NEW ctx \in Contexts, XmitStop(ctx) PROVE Quiet
  BY <1>3 DEF XmitStop, Return, Exclusion, Tracked
<1>4. ASSUME TimerFire PROVE Quiet
  BY <1>4 DEF TimerFire, Exclusion, Tracked
<1>5. ASSUME PollLink PROVE Quiet
  BY <1>5 DEF PollLink, Exclusion, Tracked
<1>6. ASSUME LinkDown PROVE Quiet
  BY <1>6 DEF LinkDown, Exclusion, Tracked
<1>7. ASSUME CarrierOff PROVE Quiet
  BY <1>7 DEF CarrierOff, Exclusion, Tracked
<1>8. ASSUME CarrierOn PROVE Quiet
  BY <1>8 DEF CarrierOn, Exclusion, Tracked
<1>9. ASSUME StartQueue PROVE Quiet
  BY <1>9 DEF StartQueue, Exclusion, Tracked
<1>10. ASSUME PollTx PROVE Quiet
  BY <1>10 DEF PollTx, Exclusion, Tracked
<1>11. ASSUME WakeQueue PROVE Quiet
  BY <1>11 DEF WakeQueue, Exclusion, Tracked
<1>12. ASSUME Linkwatch PROVE Quiet
  BY <1>12 DEF Linkwatch, Exclusion, Tracked
<1>13. ASSUME Open PROVE Quiet
  BY <1>13 DEF Open, Exclusion, Tracked
<1>14. ASSUME Deactivate PROVE Quiet
  BY <1>14 DEF Deactivate, Exclusion, Tracked
<1>15. ASSUME StopQueue PROVE Quiet
  BY <1>15 DEF StopQueue, Exclusion, Tracked
<1>16. ASSUME CancelTimer PROVE Quiet
  BY <1>16 DEF CancelTimer, Exclusion, Tracked
<1>17. ASSUME LinkFall PROVE Quiet
  BY <1>17 DEF LinkFall, Exclusion, Tracked
<1>18. ASSUME LinkRise PROVE Quiet
  BY <1>18 DEF LinkRise, Exclusion, Tracked, LossHandled
<1>19. Quiet
  BY <1>1, <1>2, <1>3, <1>4, <1>5, <1>6, <1>7, <1>8, <1>9, <1>10, <1>11, <1>12,
     <1>13, <1>14, <1>15, <1>16, <1>17, <1>18 DEF QuietStep
<1> QED
  BY <1>19, RingUntouched DEF RingInv

(***************************************************************************)
(* Steps that touch the ring                                               *)
(***************************************************************************)

\* The tests at the start of ccat_eth_start_xmit() change nothing.
LEMMA XmitCheckPreserves ==
  ASSUME IndInv, NEW ctx \in Contexts, XmitCheck(ctx)
  PROVE  IndInv'
<1> USE DEF IndInv, TypeOK, Contexts, XmitLabels, TimerLabels, LinkUpLabels,
            XmitCheck, Return, Goto, fifo, local, netif, env
<1>1. next \in Slots /\ pc["timer"] # "reset"
  BY CursorInRing
<1>2. TypeOK' /\ Exclusion'
  BY DEF Exclusion
<1>3. NewestEnd' = NewestEnd
  BY DEF NewestEnd, Inc, End
<1>4. ASSUME pc'[ctx] = "fill"
      PROVE  IF ops = "dma" THEN tx_flags[next] ELSE hw = <<>>
  <2>1. CASE ops = "dma"
    BY <1>1, <1>4, <2>1 DEF Ready, DmaTxReady
  <2>2. CASE ops = "eim"
    <3>1. Len(hw) \in 0 .. 1 /\ Len(hw) % 64 = 0
      BY <1>4, <2>2 DEF Ready, EimTxReady, EimFlags
    <3>2. Len(hw) = 0
      BY <3>1, OneIsNotReady
    <3>3. hw = <<>>
      BY <3>2
    <3> QED BY <2>2, <3>3
  <2> QED BY <2>1, <2>2, EthTxAssumption
<1>8. XmitProgress'
  BY <1>1, <1>4 DEF XmitProgress, InHw, End
<1>5. ResetProgress' /\ EimFlags'
  BY DEF ResetProgress, EimFlags, Slots
<1>6. RingSegment'
  BY <1>3 DEF RingSegment, Before
<1>7. ReadyMeansFree' /\ BusyMeansOwned'
  BY DEF ReadyMeansFree, BusyMeansOwned, InHw, Slots
<1> QED BY <1>2, <1>5, <1>6, <1>7, <1>8

\* The frame that is filled was free: it loses its mark before it is queued.
LEMMA XmitFillPreserves ==
  ASSUME IndInv, NEW ctx \in Contexts, XmitFill(ctx)
  PROVE  IndInv'
<1> USE EthTxAssumption
    DEF IndInv, TypeOK, Contexts, XmitLabels, TimerLabels, LinkUpLabels,
        XmitFill, Goto, fifo, local, netif, env
<1>1. next \in Slots /\ pc["timer"] # "reset"
  BY CursorInRing
<1>2. \A c \in Contexts : c # ctx => pc[c] \notin XmitLabels
  BY XmitExclusive
<1>3. ~InHw(next)
  BY <1>1 DEF XmitProgress, ReadyMeansFree, InHw
<1>4. TypeOK' /\ Exclusion'
  BY <1>1 DEF Exclusion, Slots
<1>5. NewestEnd' = NewestEnd
  BY DEF NewestEnd, Inc, End
<1>6. XmitProgress'
  BY <1>1, <1>2, <1>3 DEF XmitProgress, InHw, End, Slots
<1>7. ResetProgress' /\ EimFlags'
  BY DEF ResetProgress, EimFlags, Slots
<1>8. RingSegment'
  BY <1>5 DEF RingSegment, Before
<1>9. ReadyMeansFree' /\ BusyMeansOwned'
  BY <1>1, <1>2 DEF ReadyMeansFree, BusyMeansOwned, InHw, EimFlags, Slots
<1> QED BY <1>4, <1>6, <1>7, <1>8, <1>9

\* The frame under fifo->next is not in the CCAT, so the ring segment the CCAT
\* holds is shorter than the ring, and the TX FIFO has room for a descriptor.
LEMMA XmitKickQueues ==
  ASSUME IndInv, NEW ctx \in Contexts, XmitKick(ctx)
  PROVE  Len(hw) < FIFO_LENGTH /\ hw' = Append(hw, next)
<1> USE EthTxAssumption
    DEF IndInv, TypeOK, Contexts, XmitLabels, XmitKick
<1>1. next \in Slots /\ pc["timer"] # "reset"
  BY CursorInRing
<1>2. \A c \in Contexts : c # ctx => pc[c] \notin XmitLabels
  BY XmitExclusive
<1>3. frame[ctx] = next /\ ~InHw(next)
  BY DEF XmitProgress
<1>4. NewestEnd = next
  BY <1>1, <1>2 DEF NewestEnd, End, Slots
<1>5. Len(hw) < FIFO_LENGTH
  <2> SUFFICES ASSUME Len(hw) = FIFO_LENGTH PROVE FALSE
    BY DEF RingSegment
  <2>1. hw[1] = Before(next, FIFO_LENGTH)
    BY <1>4 DEF RingSegment
  <2>2. hw[1] = next
    BY <1>1, <2>1 DEF Before, Slots
  <2> QED BY <1>3, <2>2 DEF InHw
<1> QED BY <1>3, <1>5 DEF HwPush

\* The new descriptor extends the ring segment by one slot.
LEMMA XmitKickPreserves ==
  ASSUME IndInv, NEW ctx \in Contexts, XmitKick(ctx)
  PROVE  IndInv'
<1> USE EthTxAssumption
    DEF IndInv, TypeOK, Contexts, XmitLabels, TimerLabels, LinkUpLabels,
        XmitKick, Goto, fifo, local, netif, env
<1>1. next \in Slots /\ pc["timer"] # "reset"
  BY CursorInRing
<1>2. \A c \in Contexts : c # ctx => pc[c] \notin XmitLabels
  BY XmitExclusive
<1>3. frame[ctx] = next /\ ~InHw(next) /\ (ops = "eim" => hw = <<>>)
  BY DEF XmitProgress
<1>4. NewestEnd = next
  BY <1>1, <1>2 DEF NewestEnd, End, Slots
<1>6. Len(hw) < FIFO_LENGTH /\ hw' = Append(hw, next)
  BY XmitKickQueues
<1>7. /\ hw' \in Seq(Slots)
      /\ Len(hw') = Len(hw) + 1
      /\ hw'[Len(hw')] = next
      /\ \A i \in 1 .. Len(hw) : hw'[i] = hw[i]
  BY <1>1, <1>6
<1>8. \A s \in Slots : InHw(s)' <=> InHw(s) \/ s = next
  <2>1. Len(hw) \in Nat
    OBVIOUS
  <2>2. Len(hw') \in 1 .. Len(hw')
    BY <1>7, <2>1
  <2>3. \A i \in 1 .. Len(hw') : i \in 1 .. Len(hw) \/ i = Len(hw')
    BY <1>7, <2>1
  <2>4. \A i \in 1 .. Len(hw) : i \in 1 .. Len(hw')
    BY <1>7, <2>1
  <2> QED BY <1>7, <2>2, <2>3, <2>4 DEF InHw
<1>9. TypeOK' /\ Exclusion'
  BY <1>7 DEF Exclusion
<1>10. XmitProgress'
  BY <1>1, <1>2 DEF XmitProgress, End, Slots
<1>11. ResetProgress'
  BY <1>2 DEF ResetProgress, Exclusion
<1>12. EimFlags'
  <2>1. ops = "eim" => Len(hw) = 0
    BY <1>3
  <2> QED BY <1>7, <2>1 DEF EimFlags
<1>13. RingSegment'
  <2>1. NewestEnd' = Inc(next)
    BY DEF NewestEnd, Inc, End
  <2> Len(hw) \in Nat
    OBVIOUS
  <2>2. ASSUME NEW i \in 1 .. Len(hw)
        PROVE  hw'[i] = Before(NewestEnd', Len(hw') - i + 1)
    <3>1. hw[i] = Before(next, Len(hw) - i + 1)
      BY <1>4 DEF RingSegment
    <3>2. hw'[i] = hw[i]
      BY <1>7
    <3>3. ASSUME NEW k \in 1 .. FIFO_LENGTH - 1
          PROVE  Before(Inc(next), k + 1) = Before(next, k)
      BY <1>1 DEF Before, Inc, End, Slots
    <3>4. /\ Len(hw) - i + 1 \in 1 .. FIFO_LENGTH - 1
          /\ Len(hw') - i + 1 = (Len(hw) - i + 1) + 1
      BY <1>6, <1>7
    <3> QED BY <2>1, <3>1, <3>2, <3>3, <3>4
  <2>3. hw'[Len(hw')] = Before(NewestEnd', 1)
    BY <1>1, <1>7, <2>1 DEF Before, Inc, End, Slots
  <2>4. ASSUME NEW i \in 1 .. Len(hw')
        PROVE  hw'[i] = Before(NewestEnd', Len(hw') - i + 1)
    <3>1. CASE i = Len(hw')
      <4> Len(hw') - i + 1 = 1
        BY <1>7, <3>1
      <4> QED BY <2>3, <3>1
    <3>2. CASE i \in 1 .. Len(hw)
      BY <2>2, <3>2
    <3> QED BY <1>7, <3>1, <3>2
  <2>5. Len(hw') <= FIFO_LENGTH
    BY <1>6, <1>7
  <2> QED BY <2>4, <2>5 DEF RingSegment, Before
<1>14. ReadyMeansFree'
  BY <1>2, <1>3, <1>8 DEF ReadyMeansFree, Slots
<1>15. BusyMeansOwned'
  BY <1>2, <1>3, <1>8 DEF BusyMeansOwned, Slots
<1> QED BY <1>9, <1>10, <1>11, <1>12, <1>13, <1>14, <1>15

\* Reading fifo->next into a register changes nothing.
LEMMA XmitLoadPreserves ==
  ASSUME IndInv, NEW ctx \in Contexts, XmitLoad(ctx)
  PROVE  IndInv'
<1> USE EthTxAssumption
    DEF IndInv, TypeOK, Contexts, XmitLabels, TimerLabels, LinkUpLabels,
        XmitLoad, Goto, fifo, local, netif, env
<1>1. next \in Slots /\ pc["timer"] # "reset"
  BY CursorInRing
<1>2. \A c \in Contexts : c # ctx => pc[c] \notin XmitLabels
  BY XmitExclusive
<1>3. TypeOK' /\ Exclusion'
  BY <1>1 DEF Exclusion, Slots
<1>4. NewestEnd' = NewestEnd
  BY DEF NewestEnd, Inc, End
<1>5. XmitProgress'
  BY <1>1, <1>2 DEF XmitProgress, InHw, End, Slots
<1>6. ResetProgress' /\ EimFlags'
  BY DEF ResetProgress, EimFlags, Slots
<1>7. RingSegment'
  BY <1>4 DEF RingSegment, Before
<1>8. ReadyMeansFree' /\ BusyMeansOwned'
  BY <1>2 DEF ReadyMeansFree, BusyMeansOwned, InHw, Slots
<1> QED BY <1>3, <1>5, <1>6, <1>7, <1>8

\* The incremented cursor may be behind the end until it is wrapped.
LEMMA XmitStorePreserves ==
  ASSUME IndInv, NEW ctx \in Contexts, XmitStore(ctx)
  PROVE  IndInv'
<1> USE EthTxAssumption
    DEF IndInv, TypeOK, Contexts, XmitLabels, TimerLabels, LinkUpLabels,
        XmitStore, Goto, fifo, local, netif, env
<1>1. next \in Slots /\ pc["timer"] # "reset"
  BY CursorInRing
<1>2. \A c \in Contexts : c # ctx => pc[c] \notin XmitLabels
  BY XmitExclusive
<1>3. frame[ctx] = next + 1
  BY DEF XmitProgress
<1>4. TypeOK' /\ Exclusion'
  BY <1>1, <1>3 DEF Exclusion, Slots, End
<1>5. NewestEnd' = NewestEnd
  BY <1>1, <1>2, <1>3 DEF NewestEnd, Inc, End, Slots
<1>6. XmitProgress'
  BY <1>1, <1>2, <1>3 DEF XmitProgress, InHw, End, Slots
<1>7. ResetProgress' /\ EimFlags'
  BY <1>1 DEF ResetProgress, EimFlags, Slots
<1>8. RingSegment'
  BY <1>5 DEF RingSegment, Before
<1>9. ReadyMeansFree' /\ BusyMeansOwned'
  BY DEF ReadyMeansFree, BusyMeansOwned, InHw, Slots
<1> QED BY <1>4, <1>6, <1>7, <1>8, <1>9

\* The wrap brings the cursor back into the ring.
LEMMA XmitWrapPreserves ==
  ASSUME IndInv, NEW ctx \in Contexts, XmitWrap(ctx)
  PROVE  IndInv'
<1> USE EthTxAssumption
    DEF IndInv, TypeOK, Contexts, XmitLabels, TimerLabels, LinkUpLabels,
        XmitWrap, Goto, fifo, local, netif, env
<1>1. \A c \in Contexts : c # ctx => pc[c] \notin XmitLabels
  BY XmitExclusive
<1>2. pc["timer"] # "reset"
  BY DEF Exclusion
<1>3. TypeOK' /\ Exclusion'
  BY DEF Exclusion
<1>4. XmitProgress'
  BY <1>1 DEF XmitProgress, InHw, End
<1>5. ResetProgress' /\ EimFlags'
  BY <1>2 DEF ResetProgress, EimFlags, Slots
<1>6. NewestEnd = 0 /\ NewestEnd' = 0
  BY <1>1 DEF NewestEnd, XmitProgress, End
<1>7. RingSegment'
  BY <1>6 DEF RingSegment, Before
<1>8. ReadyMeansFree' /\ BusyMeansOwned'
  BY DEF ReadyMeansFree, BusyMeansOwned, InHw, Slots
<1> QED BY <1>3, <1>4, <1>5, <1>7, <1>8

\* The reset takes all descriptors from the CCAT.
LEMMA FifoHwResetPreserves ==
  ASSUME IndInv, FifoHwReset
  PROVE  IndInv'
<1> USE EthTxAssumption
    DEF IndInv, TypeOK, Contexts, XmitLabels, TimerLabels, LinkUpLabels,
        FifoHwReset, Goto, fifo, local, netif, env
<1>1. pc["stack"] = "idle"
  BY DEF Exclusion
<1>2. hw' \in Seq(Slots) /\ Len(hw') = 0
  OBVIOUS
<1>3. TypeOK'
  <2>1. next' \in 0 .. FIFO_LENGTH
    OBVIOUS
  <2> QED BY <1>2, <2>1
<1>6. Exclusion'
  BY DEF Exclusion
<1>4. XmitProgress' /\ ResetProgress' /\ EimFlags'
  BY <1>1, <1>2 DEF XmitProgress, ResetProgress, EimFlags, End, Slots
<1>5. RingSegment' /\ ReadyMeansFree' /\ BusyMeansOwned'
  BY <1>1, <1>2 DEF RingSegment, ReadyMeansFree, BusyMeansOwned, InHw, Slots
<1> QED BY <1>3, <1>4, <1>5, <1>6

\* The loop of ccat_eth_fifo_reset() ends when fifo->next is back at the
\* start, and then every frame is marked.
LEMMA FifoResetAddPreserves ==
  ASSUME IndInv, FifoResetAdd
  PROVE  IndInv'
<1> USE EthTxAssumption
    DEF IndInv, TypeOK, Contexts, XmitLabels, TimerLabels, LinkUpLabels,
        Goto, fifo, local, netif, env
<1>1. pc["stack"] = "idle" /\ pc["timer"] = "reset"
  BY DEF Exclusion, FifoResetAdd
<1>2. hw = <<>> /\ hw' = <<>> /\ Len(hw') = 0 /\ next \in Slots
  BY <1>1 DEF ResetProgress, FifoResetAdd
<1>3. next' = IF next + 1 > FIFO_LENGTH - 1 THEN 0 ELSE next + 1
  BY DEF FifoResetAdd, Inc, End
<1>4. next' \in Slots
  BY <1>2, <1>3 DEF Slots
<1>5. TypeOK' /\ Exclusion'
  BY <1>2, <1>4 DEF FifoResetAdd, Exclusion, Slots
<1>6. XmitProgress'
  BY <1>1, <1>4 DEF FifoResetAdd, XmitProgress, End, Slots
<1>7. ASSUME ops = "dma", NEW s \in Slots, s < next' \/ next' = 0
      PROVE  tx_flags'[s]
  <2>1. s < next \/ s = next
    BY <1>2, <1>3, <1>7 DEF Slots
  <2>2. s < next => tx_flags[s]
    BY <1>1, <1>7 DEF ResetProgress
  <2> QED BY <1>7, <2>1, <2>2 DEF FifoResetAdd
<1>8. ResetProgress'
  BY <1>1, <1>2, <1>4, <1>7 DEF FifoResetAdd, ResetProgress, Slots
<1>9. EimFlags'
  BY <1>2 DEF FifoResetAdd, EimFlags, Slots
<1>10. RingSegment' /\ ReadyMeansFree'
  BY <1>1, <1>2 DEF FifoResetAdd, RingSegment, ReadyMeansFree, InHw, Slots
<1>11. BusyMeansOwned'
  <2>1. pc'["timer"] # "reset" => next' = 0
    BY <1>1 DEF FifoResetAdd
  <2>2. ops' = ops
    BY DEF FifoResetAdd
  <2> QED BY <1>7, <2>1, <2>2 DEF BusyMeansOwned, Slots
<1> QED BY <1>5, <1>6, <1>8, <1>9, <1>10, <1>11

\* ccat_eth_xmit_raw() enters ccat_eth_start_xmit() with the ring reset.
LEMMA XmitRawPreserves ==
  ASSUME IndInv, XmitRaw
  PROVE  IndInv'
<1> USE EthTxAssumption
    DEF IndInv, TypeOK, Contexts, XmitLabels, TimerLabels, LinkUpLabels,
        XmitRaw, Goto, fifo, local, netif, env
<1>1. TypeOK' /\ Exclusion'
  BY DEF Exclusion, Frames
<1>2. NewestEnd' = NewestEnd
  BY DEF NewestEnd, Inc, End
<1>3. XmitProgress' /\ ResetProgress' /\ EimFlags'
  BY DEF XmitProgress, ResetProgress, EimFlags, InHw, End, Slots, Exclusion
<1>4. RingSegment'
  BY <1>2 DEF RingSegment, Before
<1>5. ReadyMeansFree' /\ BusyMeansOwned'
  BY DEF ReadyMeansFree, BusyMeansOwned, InHw, Slots
<1> QED BY <1>1, <1>3, <1>4, <1>5

\* The stack enters ccat_eth_start_xmit() only with the carrier on.
LEMMA StackXmitPreserves ==
  ASSUME IndInv, NEW f \in Payload, StackXmit(f)
  PROVE  IndInv'
<1> USE EthTxAssumption
    DEF IndInv, TypeOK, Contexts, XmitLabels, TimerLabels, LinkUpLabels,
        StackXmit, Goto, fifo, local, netif, env
<1>1. TypeOK' /\ Exclusion'
  BY DEF Exclusion, Frames
<1>2. NewestEnd' = NewestEnd
  BY DEF NewestEnd, Inc, End
<1>3. XmitProgress' /\ ResetProgress' /\ EimFlags'
  BY DEF XmitProgress, ResetProgress, EimFlags, InHw, End, Slots, Exclusion
<1>4. RingSegment'
  BY <1>2 DEF RingSegment, Before
<1>5. ReadyMeansFree' /\ BusyMeansOwned'
  BY DEF ReadyMeansFree, BusyMeansOwned, InHw, Slots
<1> QED BY <1>1, <1>3, <1>4, <1>5

\* The CCAT sends the oldest frame at any time: the segment loses its first
\* slot, and exactly that frame is marked.
LEMMA HwSendPreserves ==
  ASSUME IndInv, HwSend
  PROVE  IndInv'
<1> USE EthTxAssumption
    DEF IndInv, TypeOK, Contexts, XmitLabels, TimerLabels, LinkUpLabels,
        HwSend, Goto, fifo, local, netif, env
<1>1. Len(hw) \in Nat /\ Len(hw) > 0
  OBVIOUS
<1>2. /\ hw' \in Seq(Slots)
      /\ Len(hw') = Len(hw) - 1
      /\ \A i \in 1 .. Len(hw') : hw'[i] = hw[i + 1]
  BY <1>1
<1>0. PICK h \in Slots : h = hw[1] /\ h = Head(hw)
  BY <1>1
<1>3. ASSUME NEW s \in Slots
      PROVE  InHw(s) <=> InHw(s)' \/ s = h
  <2>1. ASSUME NEW i \in 1 .. Len(hw), hw[i] = s
        PROVE  InHw(s)' \/ s = h
    <3>1. CASE i = 1
      BY <1>0, <2>1, <3>1
    <3>2. CASE i # 1
      <4>1. i - 1 \in 1 .. Len(hw') /\ (i - 1) + 1 = i
        BY <1>1, <1>2, <3>2
      <4>2. hw'[i - 1] = s
        BY <1>2, <2>1, <4>1
      <4> QED BY <4>1, <4>2 DEF InHw
    <3> QED BY <3>1, <3>2
  <2>2. ASSUME NEW i \in 1 .. Len(hw'), hw'[i] = s
        PROVE  InHw(s)
    <3>1. i + 1 \in 1 .. Len(hw) /\ hw[i + 1] = s
      BY <1>1, <1>2, <2>2
    <3> QED BY <3>1 DEF InHw
  <2>3. s = h => InHw(s)
    BY <1>0, <1>1 DEF InHw
  <2> QED BY <2>1, <2>2, <2>3 DEF InHw
<1>4. NewestEnd' = NewestEnd
  BY DEF NewestEnd, Inc, End
<1>5. RingSegment'
  <2>1. Len(hw') <= FIFO_LENGTH
    BY <1>1, <1>2 DEF RingSegment
  <2>2. ASSUME NEW i \in 1 .. Len(hw')
        PROVE  hw'[i] = Before(NewestEnd', Len(hw') - i + 1)
    <3>1. i + 1 \in 1 .. Len(hw) /\ Len(hw) - (i + 1) + 1 = Len(hw') - i + 1
      BY <1>1, <1>2
    <3> QED BY <1>2, <1>4, <3>1 DEF RingSegment
  <2> QED BY <2>1, <2>2 DEF RingSegment, Before
<1>6. ~InHw(h)'
  <2> SUFFICES ASSUME NEW i \in 1 .. Len(hw'), hw'[i] = hw[1] PROVE FALSE
    BY <1>0 DEF InHw
  <2>1. i + 1 \in 1 .. Len(hw) /\ 1 \in 1 .. Len(hw) /\ Len(hw) <= FIFO_LENGTH
    BY <1>1, <1>2 DEF RingSegment
  <2>2. /\ hw[1] = Before(NewestEnd, Len(hw) - 1 + 1)
        /\ hw[i + 1] = Before(NewestEnd, Len(hw) - (i + 1) + 1)
    BY <2>1 DEF RingSegment
  <2>3. NewestEnd \in Slots
    BY DEF NewestEnd, Inc, End, Slots
  <2> QED BY <1>1, <1>2, <2>1, <2>2, <2>3 DEF Before, Slots
<1>7. \A c \in Contexts : pc[c] = "kick" => frame[c] = next /\ next # h
  BY <1>0, <1>1 DEF XmitProgress, InHw
<1>8. TypeOK' /\ Exclusion'
  BY <1>2 DEF Exclusion
<1>9. XmitProgress'
  <2>1. ASSUME NEW c \in Contexts, pc[c] = "kick"
        PROVE  ~InHw(next)' /\ (ops = "eim" => hw' = <<>>)
    <3>1. next \in Slots /\ ~InHw(next) /\ ops # "eim"
      BY <1>1, <2>1, CursorInRing DEF XmitProgress
    <3>2. ~InHw(next)' BY <1>2, <3>1 DEF InHw
    <3> QED BY <3>1, <3>2
  <2>2. \A c \in Contexts : pc[c] = "fill" => ops = "dma" /\ next \in Slots
    BY <1>1, CursorInRing DEF XmitProgress
  <2> QED BY <2>1, <2>2 DEF XmitProgress, Slots
<1>10. ResetProgress' /\ EimFlags'
  BY <1>1, <1>2 DEF ResetProgress, EimFlags, Slots
<1>11. ReadyMeansFree'
  BY <1>0, <1>3, <1>6, <1>7 DEF ReadyMeansFree, Slots
<1>12. BusyMeansOwned'
  BY <1>0, <1>3 DEF BusyMeansOwned, Slots
<1> QED BY <1>5, <1>8, <1>9, <1>10, <1>11, <1>12

(***************************************************************************)
(* The theorems                                                            *)
(***************************************************************************)

\* The ring as ccat_eth_fifo_reset() leaves it in the probe.
LEMMA InitIndInv == Init => IndInv
<1> SUFFICES ASSUME Init PROVE IndInv
  OBVIOUS
<1> USE EthTxAssumption DEF Init, Contexts, Slots, XmitLabels, TimerLabels
<1>0. /\ \A s \in Slots : tx_flags[s] <=> ops = "dma"
      /\ tx_flags \in [Slots -> BOOLEAN]
  BY Zenon
<1>1. TypeOK
  <2>1. hw \in Seq(Slots)
    OBVIOUS
  <2>2. data \in [Slots -> Frames \cup {NoFrame}]
    OBVIOUS
  <2>3. tx_flags \in [Slots -> BOOLEAN]
    BY <1>0
  <2>4. /\ pc \in [Contexts -> {"idle"} \cup XmitLabels \cup TimerLabels]
        /\ skb \in [Contexts -> Frames \cup {NoFrame}]
        /\ frame \in [Contexts -> 0 .. FIFO_LENGTH]
        /\ next \in 0 .. FIFO_LENGTH
    OBVIOUS
  <2> QED BY <2>1, <2>2, <2>3, <2>4, Zenon DEF TypeOK
<1>2. Exclusion
  BY DEF Exclusion, LinkUpLabels
<1>3. XmitProgress /\ ResetProgress /\ EimFlags
  <2> HIDE DEF Slots
  <2>1. \A s \in Slots : tx_flags[s] <=> ops = "dma"
    BY <1>0
  <2> QED BY <2>1 DEF XmitProgress, ResetProgress, EimFlags, End
<1>4. RingSegment /\ ReadyMeansFree /\ BusyMeansOwned
  BY <1>0 DEF RingSegment, ReadyMeansFree, BusyMeansOwned, InHw
<1> QED BY <1>1, <1>2, <1>3, <1>4 DEF IndInv

\* Every step preserves the invariant.
LEMMA NextIndInv ==
  ASSUME SettledLink, IndInv, [Next]_vars
  PROVE  IndInv'
<1>1. ASSUME NEW ctx \in Contexts, Xmit(ctx)
      PROVE  IndInv'
  <2>1. CASE XmitCheck(ctx)
    BY <2>1, XmitCheckPreserves
  <2>2. CASE XmitFill(ctx)
    BY <2>2, XmitFillPreserves
  <2>3. CASE XmitKick(ctx)
    BY <2>3, XmitKickPreserves
  <2>4. CASE XmitLoad(ctx)
    BY <2>4, XmitLoadPreserves
  <2>5. CASE XmitStore(ctx)
    BY <2>5, XmitStorePreserves
  <2>6. CASE XmitWrap(ctx)
    BY <2>6, XmitWrapPreserves
  <2>7. CASE XmitBusy(ctx) \/ XmitFull(ctx) \/ XmitStop(ctx)
    BY <2>7, QuietStepPreserves DEF QuietStep
  <2> QED
    BY <1>1, <2>1, <2>2, <2>3, <2>4, <2>5, <2>6, <2>7 DEF Xmit
<1>2. CASE FifoHwReset
  BY <1>2, FifoHwResetPreserves
<1>3. CASE FifoResetAdd
  BY <1>3, FifoResetAddPreserves
<1>4. CASE XmitRaw
  BY <1>4, XmitRawPreserves
<1>5. ASSUME NEW f \in Payload, StackXmit(f)
      PROVE  IndInv'
  BY <1>5, StackXmitPreserves
<1>6. CASE HwSend
  BY <1>6, HwSendPreserves
<1>7. CASE QuietStep
  BY <1>7, QuietStepPreserves
<1>8. CASE UNCHANGED vars
  <2>1. RingInv'
    BY <1>8, RingUntouched DEF vars
  <2>2. TypeOK' /\ Exclusion'
    BY <1>8 DEF IndInv, TypeOK, Exclusion, vars
  <2> QED BY <2>1, <2>2 DEF IndInv, RingInv
<1> QED
  BY <1>1, <1>2, <1>3, <1>4, <1>5, <1>6, <1>7, <1>8
  DEF Next, Stack, Timer, QuietStep, Contexts

\* The inductive invariant holds in every reachable state.
THEOREM RingInvariant ==
  ASSUME SettledLink
  PROVE  Spec => []IndInv
<1>1. Init => IndInv
  BY InitIndInv
<1>2. IndInv /\ [Next]_vars => IndInv'
  BY NextIndInv
<1> QED BY <1>1, <1>2, PTL DEF Spec

\* The descriptors in the CCAT are always the ring segment that ends at
\* fifo->next, for every FIFO_LENGTH and for both sets of fifo operations.
THEOREM SegmentCorrect ==
  ASSUME SettledLink
  PROVE  Spec => []RingSegment
<1>1. IndInv => RingSegment
  BY DEF IndInv
<1> QED BY <1>1, RingInvariant, PTL

\* CCAT_FRAME_SENT tells the owner of a frame: a frame marked ready is free,
\* neither in the CCAT nor being filled by a context.
THEOREM ReadyFramesFree ==
  ASSUME SettledLink
  PROVE  Spec => []ReadyMeansFree
<1>1. IndInv => ReadyMeansFree
  BY DEF IndInv
<1> QED BY <1>1, RingInvariant, PTL

\* A frame not marked has an owner that will mark it, outside of the loop of
\* ccat_eth_fifo_reset(): no frame of the ring is ever lost.
THEOREM BusyFramesOwned ==
  ASSUME SettledLink
  PROVE  Spec => []BusyMeansOwned
<1>1. IndInv => BusyMeansOwned
  BY DEF IndInv
<1> QED BY <1>1, RingInvariant, PTL

\* Every step keeps the forwarding frame first.
LEMMA NextForwardFirst ==
  ASSUME IndInv, IndInv', ForwardFirst, [Next]_vars
  PROVE  ForwardFirst'
<1> USE EthTxAssumption
    DEF IndInv, TypeOK, Contexts, XmitLabels, TimerLabels, LinkUpLabels,
        ForwardFirst, Goto, fifo, local, netif, env
<1>1. ASSUME NEW ctx \in Contexts, XmitCheck(ctx) PROVE ForwardFirst'
  <2>1. CASE ctx = "timer"
    <3>1. next \in Slots /\ skb[ctx] \notin Unsupported
      BY <1>1, <2>1, CursorInRing DEF XmitCheck
    <3>2. hw = <<>> /\ Len(hw) = 0 /\ pc["stack"] = "idle"
      BY <1>1, <2>1 DEF XmitCheck, ResetProgress, Exclusion
    <3>3. \A r \in Ready : r
      <4>1. CASE ops = "dma"
        <5>1. tx_flags[next]
          BY <1>1, <2>1, <3>1, <3>2, <4>1 DEF XmitCheck, BusyMeansOwned, InHw
        <5> QED BY <3>1, <4>1, <5>1 DEF Ready, DmaTxReady
      <4>2. CASE ops = "eim"
        <5>1. 0 % 64 = 0
          OBVIOUS
        <5>2. Len(hw) % 64 = 0
          BY <3>2, <5>1
        <5> QED BY <4>2, <5>2, Zenon DEF Ready, EimTxReady
      <4> QED BY <4>1, <4>2
    <3>4. pc'["timer"] = "fill"
      BY <1>1, <2>1, <3>1, <3>3 DEF XmitCheck
    <3> QED BY <1>1, <2>1, <3>4 DEF XmitCheck
  <2>2. CASE ctx = "stack"
    BY <1>1, <2>2 DEF XmitCheck, Return
  <2> QED BY <2>1, <2>2
<1>2. ASSUME NEW ctx \in Contexts, XmitBusy(ctx) PROVE ForwardFirst'
  BY <1>2 DEF XmitBusy, Return, Exclusion
<1>3. ASSUME NEW ctx \in Contexts, XmitFill(ctx) PROVE ForwardFirst'
  BY <1>3 DEF XmitFill, Return, Exclusion
<1>4. ASSUME NEW ctx \in Contexts, XmitKick(ctx) PROVE ForwardFirst'
  BY <1>4 DEF XmitKick, Return, Exclusion
<1>5. ASSUME NEW ctx \in Contexts, XmitLoad(ctx) PROVE ForwardFirst'
  BY <1>5 DEF XmitLoad, Return, Exclusion
<1>6. ASSUME NEW ctx \in Contexts, XmitStore(ctx) PROVE ForwardFirst'
  BY <1>6 DEF XmitStore, Return, Exclusion
<1>7. ASSUME NEW ctx \in Contexts, XmitWrap(ctx) PROVE ForwardFirst'
  BY <1>7 DEF XmitWrap, Return, Exclusion
<1>8. ASSUME NEW ctx \in Contexts, XmitFull(ctx) PROVE ForwardFirst'
  BY <1>8 DEF XmitFull, Return, Exclusion
<1>9. ASSUME NEW ctx \in Contexts, XmitStop(ctx) PROVE ForwardFirst'
  BY <1>9 DEF XmitStop, Return, Exclusion
<1>10. ASSUME NEW f \in Payload, StackXmit(f) PROVE ForwardFirst'
  BY <1>10 DEF StackXmit, Exclusion
<1>11. CASE TimerFire
  BY <1>11 DEF TimerFire, Exclusion
<1>12. CASE PollLink
  BY <1>12 DEF PollLink, Exclusion
<1>13. CASE LinkDown
  BY <1>13 DEF LinkDown, Exclusion
<1>14. CASE CarrierOff
  BY <1>14 DEF CarrierOff, Exclusion
<1>15. CASE FifoHwReset
  BY <1>15 DEF FifoHwReset, Exclusion
<1>16. CASE FifoResetAdd
  BY <1>16 DEF FifoResetAdd, Exclusion
<1>17. CASE XmitRaw
  BY <1>17 DEF XmitRaw, Exclusion
<1>18. CASE CarrierOn
  BY <1>18 DEF CarrierOn, Exclusion
<1>19. CASE StartQueue
  BY <1>19 DEF StartQueue, Exclusion
<1>20. CASE PollTx
  BY <1>20 DEF PollTx, Exclusion
<1>21. CASE WakeQueue
  BY <1>21 DEF WakeQueue, Exclusion
<1>22. CASE Linkwatch
  BY <1>22 DEF Linkwatch, Exclusion
<1>23. CASE Open
  BY <1>23 DEF Open, Exclusion
<1>24. CASE Deactivate
  BY <1>24 DEF Deactivate, Exclusion
<1>25. CASE StopQueue
  BY <1>25 DEF StopQueue, Exclusion
<1>26. CASE CancelTimer
  BY <1>26 DEF CancelTimer, Exclusion
<1>27. CASE HwSend
  BY <1>27 DEF HwSend, Exclusion
<1>28. CASE LinkFall
  BY <1>28 DEF LinkFall, Exclusion
<1>29. CASE LinkRise
  BY <1>29 DEF LinkRise, Exclusion
<1>30. CASE UNCHANGED vars
  BY <1>30 DEF vars
<1> QED
  BY <1>1, <1>2, <1>3, <1>4, <1>5, <1>6, <1>7, <1>8, <1>9
    , <1>10, <1>11, <1>12, <1>13, <1>14, <1>15, <1>16, <1>17, <1>18
    , <1>19, <1>20, <1>21, <1>22, <1>23, <1>24, <1>25, <1>26, <1>27
    , <1>28, <1>29, <1>30
  DEF Next, Stack, Timer, Xmit

\* No frame of the stack overtakes the forwarding frame: the CCAT gets it
\* before netif_carrier_on() and before the stack is attached.
THEOREM ForwardingFirst ==
  ASSUME SettledLink
  PROVE  Spec => []ForwardFirst
<1>1. Init => ForwardFirst
  BY DEF Init, ForwardFirst, Contexts, XmitLabels
<1>2. IndInv /\ IndInv' /\ ForwardFirst /\ [Next]_vars => ForwardFirst'
  BY NextForwardFirst
<1> QED BY <1>1, <1>2, RingInvariant, PTL DEF Spec

(***************************************************************************)
(* The refinement of TxChannel                                             *)
(***************************************************************************)

\* The labels at which a context has a frame that is not queued yet
Offering == {"check", "busy", "fill", "kick"}

\* What the channel calls offered
Offered == [c \in Contexts |-> IF pc[c] \in {"check", "busy", "fill", "kick"}
                               THEN skb[c] ELSE NoFrame]

\* What the channel calls wire: the frames behind the descriptors in the CCAT
Wire == [i \in 1 .. Len(hw) |-> data[hw[i]]]

\* The actions of the channel, in terms of the ring.
LEMMA ChannelSteps ==
  /\ Offered' = Offered /\ Wire' = Wire /\ forwarded' = forwarded
       => UNCHANGED Channel!vars
  /\ Wire # <<>> /\ Wire' = Tail(Wire) /\ Offered' = Offered
       /\ forwarded' = forwarded => Channel!Send
  /\ Wire' = <<>> /\ forwarded' = FALSE /\ Offered' = Offered => Channel!Flush
BY Zenon DEF Offered, Wire, Channel!vars, Channel!Send, Channel!Flush

\* The actions of a context on the channel, in terms of ccat_eth_start_xmit().
LEMMA ContextSteps ==
  ASSUME NEW c \in Contexts
  PROVE  /\ Offered[c] # NoFrame /\ Wire' = Wire /\ forwarded' = forwarded
              /\ Offered' = [Offered EXCEPT ![c] = NoFrame] => Channel!Reject(c)
         /\ Offered[c] \in Frames \ Unsupported
              /\ (forwarded \/ Offered[c] = Forward)
              /\ Len(Wire) < FIFO_LENGTH
              /\ Wire' = Append(Wire, Offered[c]) /\ forwarded' = TRUE
              /\ Offered' = [Offered EXCEPT ![c] = NoFrame] => Channel!Accept(c)
         /\ \A f \in Frames :
              Offered[c] = NoFrame /\ Wire' = Wire /\ forwarded' = forwarded
              /\ Offered' = [Offered EXCEPT ![c] = f] => Channel!Offer(c, f)
BY Zenon DEF Offered, Wire, Channel!Reject, Channel!Accept, Channel!Offer

\* A step that moves no context in or out of the labels of Offering.
LEMMA OfferedUntouched ==
  ASSUME skb' = skb,
         \A c \in Contexts : pc'[c] \in Offering <=> pc[c] \in Offering
  PROVE  Offered' = Offered
BY DEF Offered, Offering

\* A context that leaves them gives up its frame.
LEMMA OfferedGivenUp ==
  ASSUME TypeOK, skb' = skb, NEW ctx \in Contexts, NEW l, l \notin Offering,
         Goto(ctx, l)
  PROVE  Offered' = [Offered EXCEPT ![ctx] = NoFrame]
BY DEF Offered, Offering, Goto, TypeOK, Contexts

\* A context that enters ccat_eth_start_xmit() offers its frame.
LEMMA OfferedGained ==
  ASSUME TypeOK, NEW ctx \in Contexts, NEW f, Goto(ctx, "check"),
         skb' = [skb EXCEPT ![ctx] = f]
  PROVE  Offered' = [Offered EXCEPT ![ctx] = f]
BY DEF Offered, Goto, TypeOK, Contexts

\* The frames in the CCAT stay while nobody writes the ring or the CCAT.
LEMMA WireUntouched ==
  ASSUME hw' = hw, data' = data
  PROVE  Wire' = Wire
BY DEF Wire

\* The initial ring is the empty channel.
LEMMA InitChannel == Init => Channel!Init
BY DEF Init, Channel!Init, Contexts

\* The steps that neither queue nor send nor flush a frame.
LEMMA OtherStepsChannel ==
  ASSUME IndInv,
         \/ QuietStep \/ FifoResetAdd \/ UNCHANGED vars
         \/ \E c \in Contexts : XmitLoad(c) \/ XmitStore(c) \/ XmitWrap(c)
  PROVE  (\E c \in Contexts : Channel!Reject(c)) \/ UNCHANGED Channel!vars
<1> USE DEF IndInv, TypeOK, Contexts, XmitLabels, TimerLabels,
            Goto, fifo, local, netif, env
<1>1. UNCHANGED <<skb, data, hw, forwarded>>
  BY DEF QuietStep, XmitBusy, XmitFull, XmitStop, TimerFire, PollLink, LinkDown,
         CarrierOff, CarrierOn, StartQueue, PollTx, WakeQueue, Linkwatch, Open,
         Deactivate, StopQueue, CancelTimer, LinkFall, LinkRise, FifoResetAdd,
         XmitLoad, XmitStore, XmitWrap, vars
<1>2. Wire' = Wire
  BY <1>1, WireUntouched
<1>3. CASE \E c \in Contexts : XmitBusy(c)
  <2>1. PICK c \in Contexts : XmitBusy(c)
    BY <1>3
  <2>2. Offered' = [Offered EXCEPT ![c] = NoFrame]
    <3>1. Return(c) \notin Offering
      BY DEF Return, Offering
    <3> QED BY <1>1, <2>1, <3>1, OfferedGivenUp DEF XmitBusy
  <2>3. CASE Offered[c] # NoFrame
    BY <1>1, <1>2, <2>2, <2>3, ContextSteps
  <2>4. CASE Offered[c] = NoFrame
    <3>1. Offered' = Offered
      BY <2>2, <2>4 DEF Offered
    <3> QED BY <1>1, <1>2, <3>1, ChannelSteps
  <2> QED BY <2>3, <2>4
<1>4. CASE ~ \E c \in Contexts : XmitBusy(c)
  <2>1. \A c \in Contexts : pc'[c] \in Offering <=> pc[c] \in Offering
    BY <1>4 DEF QuietStep, XmitFull, XmitStop, TimerFire, PollLink, LinkDown,
       CarrierOff, CarrierOn, StartQueue, PollTx, WakeQueue, Linkwatch, Open,
       Deactivate, StopQueue, CancelTimer, LinkFall, LinkRise, FifoResetAdd,
       XmitLoad, XmitStore, XmitWrap, vars, Offering, Return
  <2>2. Offered' = Offered
    BY <1>1, <2>1, OfferedUntouched
  <2> QED BY <1>1, <1>2, <2>2, ChannelSteps
<1> QED BY <1>3, <1>4

\* Filling the frame under fifo->next changes no frame the CCAT has.
LEMMA XmitFillChannel ==
  ASSUME IndInv, NEW ctx \in Contexts, XmitFill(ctx)
  PROVE  UNCHANGED Channel!vars
<1> USE DEF IndInv, TypeOK, netif, env
<1>1. next \in Slots
  BY CursorInRing DEF XmitFill, XmitLabels
<1>2. ~InHw(next)
  <2>1. CASE ops = "dma"
    BY <1>1, <2>1 DEF XmitFill, XmitProgress, ReadyMeansFree
  <2>2. CASE ops = "eim"
    BY <2>2 DEF XmitFill, XmitProgress, InHw
  <2> QED BY <2>1, <2>2
<1>3. UNCHANGED <<skb, hw, forwarded>> /\ pc[ctx] = "fill" /\ Goto(ctx, "kick")
  BY DEF XmitFill
<1>4. \A i \in 1 .. Len(hw) : data'[hw[i]] = data[hw[i]]
  BY <1>2 DEF XmitFill, InHw
<1>5. Wire' = Wire
  BY <1>3, <1>4 DEF Wire
<1>6. Offered' = Offered
  BY <1>3, OfferedUntouched DEF Goto, Offering
<1> QED BY <1>3, <1>5, <1>6, ChannelSteps

\* The write of the descriptor is what the channel calls accepting.
LEMMA XmitKickChannel ==
  ASSUME IndInv, IndInv', ForwardFirst, NEW ctx \in Contexts, XmitKick(ctx)
  PROVE  Channel!Accept(ctx)
<1> USE EthTxAssumption DEF IndInv, TypeOK, local, fifo, netif, env
<1>1. next \in Slots
  BY CursorInRing DEF XmitKick, XmitLabels
<1>2. /\ pc[ctx] = "kick" /\ UNCHANGED <<skb, data>> /\ Goto(ctx, "load")
      /\ frame[ctx] = next /\ data[next] = skb[ctx] /\ skb[ctx] # NoFrame
      /\ skb[ctx] \notin Unsupported
  BY DEF XmitKick, XmitProgress
<1>3. Offered[ctx] = skb[ctx] /\ skb[ctx] \in Frames \ Unsupported
  BY <1>2 DEF Offered
<1>4. forwarded \/ skb[ctx] = Forward
  BY <1>2 DEF ForwardFirst, Exclusion, Contexts, XmitLabels
<1>5. forwarded' = TRUE
  BY <1>4 DEF XmitKick
<1>6. Len(hw) < FIFO_LENGTH /\ hw' = Append(hw, next) /\ Len(hw) \in Nat
  BY <1>1, <1>2, XmitKickQueues
<1>7. Wire' = Append(Wire, skb[ctx]) /\ Len(Wire) < FIFO_LENGTH
  <2>1. Len(hw') = Len(hw) + 1 /\ \A i \in 1 .. Len(hw) : hw'[i] = hw[i]
    BY <1>1, <1>6
  <2>2. hw'[Len(hw) + 1] = next
    BY <1>1, <1>6
  <2>3. \A i \in 1 .. Len(hw) : Wire'[i] = Wire[i]
    BY <1>2, <1>6, <2>1 DEF Wire
  <2>4. Wire'[Len(hw) + 1] = skb[ctx]
    BY <1>2, <1>6, <2>1, <2>2 DEF Wire
  <2>5. /\ Wire \in Seq(Frames \cup {NoFrame}) /\ Len(Wire) = Len(hw)
        /\ Wire' \in Seq(Frames \cup {NoFrame}) /\ Len(Wire') = Len(hw) + 1
    BY <1>6, <2>1 DEF Wire
  <2> QED BY <1>6, <2>3, <2>4, <2>5
<1>8. Offered' = [Offered EXCEPT ![ctx] = NoFrame]
  <2>1. "load" \notin Offering
    BY DEF Offering
  <2> QED BY <1>2, <2>1, OfferedGivenUp
<1> QED BY <1>3, <1>4, <1>5, <1>7, <1>8, ContextSteps

\* A sequence whose elements have moved up by one place.
LEMMA ShiftedIsTail ==
  ASSUME NEW S, NEW s \in Seq(S), NEW t \in Seq(S), Len(s) > 0,
         Len(t) = Len(s) - 1, \A i \in 1 .. Len(s) - 1 : t[i] = s[i + 1]
  PROVE  t = Tail(s) /\ s # <<>>
OBVIOUS

\* The CCAT sends the oldest frame.
LEMMA HwSendChannel ==
  ASSUME IndInv, HwSend
  PROVE  Channel!Send
<1> USE DEF IndInv, TypeOK, local, netif, env, HwSend
<1>1. UNCHANGED <<pc, skb, data, forwarded>> /\ hw' = Tail(hw) /\ hw # <<>>
  OBVIOUS
<1>2. /\ hw' \in Seq(Slots) /\ Len(hw') = Len(hw) - 1 /\ Len(hw) > 0
      /\ Len(hw) \in Nat
      /\ \A i \in 1 .. Len(hw') : hw'[i] = hw[i + 1]
  BY <1>1
<1>3. /\ Wire \in Seq(Frames \cup {NoFrame}) /\ Len(Wire) = Len(hw)
      /\ Wire' \in Seq(Frames \cup {NoFrame}) /\ Len(Wire') = Len(hw) - 1
  BY <1>1, <1>2 DEF Wire
<1>4. \A i \in 1 .. Len(hw) - 1 : Wire'[i] = Wire[i + 1]
  BY <1>1, <1>2 DEF Wire
<1>5. Wire' = Tail(Wire) /\ Wire # <<>>
  <2> HIDE DEF IndInv, TypeOK, HwSend
  <2>1. /\ Len(Wire) > 0 /\ Len(Wire') = Len(Wire) - 1
        /\ \A i \in 1 .. Len(Wire) - 1 : Wire'[i] = Wire[i + 1]
    BY <1>2, <1>3, <1>4
  <2> QED BY <1>3, <2>1, ShiftedIsTail
<1>6. Offered' = Offered
  BY <1>1, OfferedUntouched
<1> QED BY <1>1, <1>5, <1>6, ChannelSteps

\* Every step of the transmit path is a step of the channel or none.
LEMMA NextChannel ==
  ASSUME IndInv, IndInv', ForwardFirst, [Next]_vars
  PROVE  [Channel!Next]_(Channel!vars)
<1> USE EthTxAssumption DEF IndInv, TypeOK, local, fifo, netif, env
<1>1. ASSUME NEW c \in Contexts, XmitCheck(c)
      PROVE  [Channel!Next]_(Channel!vars)
  <2>1. UNCHANGED <<skb, data, hw, forwarded>> /\ Wire' = Wire
    BY <1>1, WireUntouched DEF XmitCheck
  <2>2. CASE skb[c] \in Unsupported
    <3>1. Offered[c] # NoFrame
      BY <1>1 DEF XmitCheck, XmitProgress, Offered
    <3>2. Return(c) \notin Offering /\ Goto(c, Return(c))
      BY <1>1, <2>2 DEF XmitCheck, Return, Offering
    <3>3. Channel!Reject(c)
      BY <2>1, <3>1, <3>2, OfferedGivenUp, ContextSteps
    <3> QED BY <3>3 DEF Channel!Next
  <2>3. CASE skb[c] \notin Unsupported
    <3>1. Offered' = Offered
      BY <1>1, <2>1, <2>3, OfferedUntouched DEF XmitCheck, Goto, Offering
    <3> QED BY <2>1, <3>1, ChannelSteps
  <2> QED BY <2>2, <2>3
<1>2. ASSUME NEW c \in Contexts, XmitFill(c) PROVE UNCHANGED Channel!vars
  BY <1>2, XmitFillChannel
<1>3. ASSUME NEW c \in Contexts, XmitKick(c)
      PROVE  [Channel!Next]_(Channel!vars)
  <2>1. Channel!Accept(c)
    BY <1>3, XmitKickChannel
  <2> QED BY <2>1 DEF Channel!Next
<1>4. ASSUME \/ XmitRaw
             \/ \E f \in Payload : StackXmit(f)
      PROVE  [Channel!Next]_(Channel!vars)
  <2>1. PICK c \in Contexts, f \in Frames :
          /\ pc[c] \notin Offering /\ Goto(c, "check")
          /\ skb' = [skb EXCEPT ![c] = f]
    BY <1>4 DEF XmitRaw, StackXmit, Contexts, Offering, Frames
  <2>2. UNCHANGED <<data, hw, forwarded>> /\ Wire' = Wire
    BY <1>4, WireUntouched DEF XmitRaw, StackXmit
  <2>3. Offered[c] = NoFrame
    BY <2>1 DEF Offered, Offering
  <2>4. Channel!Offer(c, f)
    BY <2>1, <2>2, <2>3, OfferedGained, ContextSteps
  <2> QED BY <2>4 DEF Channel!Next
<1>5. ASSUME FifoHwReset PROVE [Channel!Next]_(Channel!vars)
  <2>1. Wire' = <<>>
    BY <1>5 DEF FifoHwReset, Wire
  <2>2. Offered' = Offered /\ forwarded' = FALSE
    BY <1>5, OfferedUntouched DEF FifoHwReset, Goto, Contexts, Offering
  <2>3. Channel!Flush
    BY <2>1, <2>2, ChannelSteps
  <2> QED BY <2>3 DEF Channel!Next
<1>6. ASSUME HwSend PROVE [Channel!Next]_(Channel!vars)
  <2>1. Channel!Send
    BY <1>6, HwSendChannel
  <2> QED BY <2>1 DEF Channel!Next
<1>7. ASSUME \/ QuietStep \/ FifoResetAdd \/ UNCHANGED vars
             \/ \E c \in Contexts : XmitLoad(c) \/ XmitStore(c) \/ XmitWrap(c)
      PROVE  [Channel!Next]_(Channel!vars)
  <2>1. (\E c \in Contexts : Channel!Reject(c)) \/ UNCHANGED Channel!vars
    BY <1>7, OtherStepsChannel
  <2> QED BY <2>1 DEF Channel!Next
<1> HIDE DEF IndInv, TypeOK
<1> QED
  BY <1>1, <1>2, <1>3, <1>4, <1>5, <1>6, <1>7
  DEF Next, Stack, Timer, Xmit, QuietStep, Contexts

\* The transmit path implements the channel, for every ring that the TX FIFO
\* of the CCAT can hold: a frame that reaches queue.skb() goes to the wire
\* once, unchanged and in order, and after a reset of the ring the forwarding
\* frame is the first.
THEOREM TransmitImplementsChannel ==
  ASSUME SettledLink
  PROVE  Spec => ImplementsChannel
<1>1. IndInv /\ IndInv' /\ ForwardFirst /\ [Next]_vars
        => [Channel!Next]_(Channel!vars)
  BY NextChannel
<1> QED BY <1>1, InitChannel, RingInvariant, ForwardingFirst, PTL
        DEF Spec, ImplementsChannel, Channel!Spec
=============================================================================
