------------------------------- MODULE EthRx -------------------------------
(***************************************************************************)
(* The receive path of the CCAT Ethernet function (netdev.c).              *)
(*                                                                         *)
(* The CCAT takes descriptors of free frames from its RX FIFO and stores   *)
(* incoming Ethernet frames there; poll_rx(), called by the poll timer,    *)
(* copies them to socket buffers and hands the frames back.  The timer     *)
(* callback is the only code that touches the ring, and it runs at the     *)
(* same time as the CCAT.  Its labels are                                  *)
(*   poll_link (-> hw_reset -> reset -> carrier_on) -> poll_rx             *)
(*   poll_rx -> copy -> clear -> add -> inc -> ready -> copy | idle        *)
(***************************************************************************)
EXTENDS Integers, Sequences

CONSTANTS
  FIFO_LENGTH,  \* number of frames in the DMA ring
  RX_PER_POLL,  \* initial value of rx_per_poll
  Frames,       \* frames that arrive
  Runts,        \* those whose length is not more than the overhead
  NoFrame       \* content of a frame buffer nobody wrote yet

ASSUME EthRxAssumption ==
  /\ FIFO_LENGTH \in Nat \ {0}
  /\ RX_PER_POLL \in Nat \ {0, 1}
  /\ Runts \subseteq Frames
  /\ NoFrame \notin Frames

VARIABLES
  ops,          \* fifo->ops: "dma" or "eim", never changed
  pc,           \* label of the timer callback
  next,         \* fifo->mem.next, as a slot number
  received,     \* has the frame arrived?  DMA: CCAT_FRAME_RECEIVED, EIM: length
  data,         \* the frame in each slot
  hw,           \* free frames the CCAT knows of, in the order it uses them
  rx_per_poll,  \* the local variable of poll_rx()
  passed,       \* the frame given to netif_rx() last, with an alternating bit
  carrier,      \* netif_carrier_ok()
  running,      \* is the poll timer started?
  link          \* the link bit of the CCAT

fifo == <<next, received, data>>
env  == <<ops, running, link>>
vars == <<ops, pc, next, received, data, hw, rx_per_poll, passed, carrier,
          running, link>>

\* fifo_set_end(): all of the DMA memory, or the one frame the EIM shows
Length == IF ops = "eim" THEN 1 ELSE FIFO_LENGTH

Slots == 0 .. Length - 1

\* fifo_set_end() without the "- sizeof(struct ccat_eth_frame)"
End_NoFrameSize == Length

\* fifo_set_end(): the last slot of the ring
End == Length - 1

\* ccat_eth_fifo_inc(); nobody else reads the cursor of the RX ring
Inc(n) == IF n + 1 > End THEN 0 ELSE n + 1

\* ops->ready(): a length without overhead, zero for "nothing to receive"
Ready == received[next] /\ data[next] \notin Runts

\* iowrite32(addr_and_length, fifo->reg) / iowrite16(0, frame)
GiveToHw(s) == hw' = Append(hw, s)

(***************************************************************************)
(* poll_timer_callback()                                                   *)
(***************************************************************************)

TimerFire ==
  /\ running
  /\ pc = "idle"
  /\ pc' = "poll_link"
  /\ UNCHANGED <<fifo, hw, rx_per_poll, passed, carrier, env>>

PollLink ==
  /\ pc = "poll_link"
  /\ \/ link = carrier   /\ pc' = "poll_rx"  /\ UNCHANGED carrier
     \/ link /\ ~carrier /\ pc' = "hw_reset" /\ UNCHANGED carrier
     \/ ~link /\ carrier /\ pc' = "poll_rx"  /\ carrier' = FALSE
  /\ UNCHANGED <<fifo, hw, rx_per_poll, passed, env>>

\* a reset that leaves the descriptors in the CCAT
Emptied_Not == hw

\* ccat_eth_fifo_hw_reset(): the RX FIFO of the CCAT afterwards
Emptied == <<>>

\* ccat_eth_link_up(), ccat_eth_fifo_reset(): empty the CCAT RX FIFO
FifoHwReset ==
  /\ pc = "hw_reset"
  /\ hw' = Emptied
  /\ next' = 0
  /\ pc' = "reset"
  /\ UNCHANGED <<received, data, rx_per_poll, passed, carrier, env>>

\* ops->add() that does not reset the state of the frame
Cleared_Not == received

\* ops->add(): rx_flags = 0, or the length for the EIM
Cleared == [s \in Slots |-> s # next /\ received[s]]

\* ccat_eth_fifo_reset(): one turn of the loop, ops->add() and the increment
FifoResetAdd ==
  /\ pc = "reset"
  /\ received' = Cleared
  /\ GiveToHw(next)
  /\ next' = Inc(next)
  /\ pc' = IF next' # 0 THEN "reset" ELSE "carrier_on"
  /\ UNCHANGED <<data, rx_per_poll, passed, carrier, env>>

\* the rest of ccat_eth_link_up(), which is about the TX ring
CarrierOn ==
  /\ pc = "carrier_on"
  /\ carrier' = TRUE
  /\ pc' = "poll_rx"
  /\ UNCHANGED <<fifo, hw, rx_per_poll, passed, env>>

\* a poll_rx() whose budget is a single frame: "--rx_per_poll" ends it at once
Budget_One == 1

\* poll_rx(): FIFO_LENGTH / 2
Budget == RX_PER_POLL

\* poll_rx(): the first test of "len && --rx_per_poll"
PollRx ==
  /\ pc = "poll_rx"
  /\ rx_per_poll' = IF Ready THEN Budget - 1 ELSE Budget
  /\ pc' = IF Ready /\ rx_per_poll' # 0 THEN "copy" ELSE "idle"
  /\ UNCHANGED <<fifo, hw, passed, carrier, env>>

\* ccat_eth_receive(): copy to a socket buffer and netif_rx(), or count a
\* dropped frame if there is no memory
Receive ==
  /\ pc = "copy"
  /\ \/ passed' = [frame |-> data[next], bit |-> 1 - passed.bit]
     \/ UNCHANGED passed
  /\ pc' = "clear"
  /\ UNCHANGED <<fifo, hw, rx_per_poll, carrier, env>>

\* ops->add(): reset the state of the frame.  For the EIM the length is the
\* state, and resetting it hands the frame to the CCAT.
RxClear ==
  /\ pc = "clear"
  /\ received' = Cleared
  /\ IF ops = "eim" THEN GiveToHw(next) /\ pc' = "inc"
                    ELSE UNCHANGED hw /\ pc' = "add"
  /\ UNCHANGED <<next, data, rx_per_poll, passed, carrier, env>>

\* ccat_eth_rx_fifo_dma_add(): hand the descriptor to the CCAT
RxAdd ==
  /\ pc = "add"
  /\ GiveToHw(next)
  /\ pc' = "inc"
  /\ UNCHANGED <<fifo, rx_per_poll, passed, carrier, env>>

RxInc ==
  /\ pc = "inc"
  /\ next' = Inc(next)
  /\ pc' = "ready"
  /\ UNCHANGED <<received, data, hw, rx_per_poll, passed, carrier, env>>

\* poll_rx(): the test at the end of a turn; then poll_tx()
PollRxAgain ==
  /\ pc = "ready"
  /\ rx_per_poll' = IF Ready THEN rx_per_poll - 1 ELSE rx_per_poll
  /\ pc' = IF Ready /\ rx_per_poll' # 0 THEN "copy" ELSE "idle"
  /\ UNCHANGED <<fifo, hw, passed, carrier, env>>

Timer ==
  \/ PollLink \/ FifoHwReset \/ FifoResetAdd \/ CarrierOn \/ PollRx
  \/ Receive \/ RxClear \/ RxAdd \/ RxInc \/ PollRxAgain

\* ccat_eth_open()
Open ==
  /\ ~running
  /\ running' = TRUE
  /\ UNCHANGED <<ops, pc, fifo, hw, rx_per_poll, passed, carrier, link>>

\* ccat_eth_stop(): hrtimer_cancel() waits for the callback.  The CCAT is not
\* told to stop.
Stop ==
  /\ running
  /\ pc = "idle"
  /\ running' = FALSE
  /\ UNCHANGED <<ops, pc, fifo, hw, rx_per_poll, passed, carrier, link>>

(***************************************************************************)
(* The CCAT                                                                *)
(***************************************************************************)

\* a frame arrives; without a free frame it is lost (rx_mem_full)
HwReceive(f) ==
  /\ hw # <<>>
  /\ data' = [data EXCEPT ![Head(hw)] = f]
  /\ received' = [received EXCEPT ![Head(hw)] = TRUE]
  /\ hw' = Tail(hw)
  /\ UNCHANGED <<pc, next, rx_per_poll, passed, carrier, env>>

LinkChange ==
  /\ link' = ~link
  /\ UNCHANGED <<ops, pc, fifo, hw, rx_per_poll, passed, carrier, running>>

(***************************************************************************)
(* The specification                                                       *)
(***************************************************************************)

\* after ccat_eth_init_netdev(); the ring was reset when it was set up
Init ==
  /\ ops \in {"dma", "eim"}
  /\ pc = "idle"
  /\ next = 0
  /\ received = [s \in Slots |-> FALSE]
  /\ data = [s \in Slots |-> NoFrame]
  /\ hw = [i \in 1 .. Length |-> i - 1]
  /\ rx_per_poll = RX_PER_POLL
  /\ passed = [frame |-> NoFrame, bit |-> 0]
  /\ carrier = FALSE
  /\ running = FALSE
  /\ link \in BOOLEAN

Next ==
  \/ TimerFire \/ Timer
  \/ Open \/ Stop
  \/ (\E f \in Frames : HwReceive(f)) \/ LinkChange

\* the callback restarts the timer and runs to its end
Fairness == WF_vars(TimerFire) /\ WF_vars(Timer)

Spec == Init /\ [][Next]_vars /\ Fairness

(***************************************************************************)
(* Properties                                                              *)
(***************************************************************************)

TypeOK ==
  /\ ops \in {"dma", "eim"}
  /\ pc \in {"idle", "poll_link", "hw_reset", "reset", "carrier_on", "poll_rx",
             "copy", "clear", "add", "inc", "ready"}
  /\ next \in Slots
  /\ received \in [Slots -> BOOLEAN]
  /\ data \in [Slots -> Frames \cup {NoFrame}]
  /\ hw \in Seq(Slots)
  /\ rx_per_poll \in 0 .. RX_PER_POLL
  /\ passed \in [frame : Frames \cup {NoFrame}, bit : {0, 1}]
  /\ carrier \in BOOLEAN
  /\ running \in BOOLEAN
  /\ link \in BOOLEAN

\* The slot k slots after s
After(s, k) == IF s + k >= Length THEN s + k - Length ELSE s + k

\* The frame poll_rx() has dealt with but not counted yet
Owned == pc \in {"clear", "add"}

\* The oldest frame that is still to be passed on
Oldest ==
  IF pc = "reset" THEN 0
  ELSE IF pc \in {"clear", "add", "inc"} THEN After(next, 1)
  ELSE next

\* How many frames wait
Waiting ==
  IF pc = "reset" THEN next - Len(hw)
  ELSE Length - Len(hw) - (IF Owned THEN 1 ELSE 0)

\* Every frame of the ring has one owner.  Seen from the oldest waiting frame
\* the ring consists of the waiting frames, then the free frames in the order
\* the CCAT will use them, then the frame poll_rx() is working on: so poll_rx()
\* looks at the frames in the order the CCAT fills them, it never reads one the
\* CCAT may write, and no descriptor is ever given to the CCAT twice.
RingPartition ==
  /\ Waiting >= 0
  /\ \A k \in 0 .. Waiting - 1 : received[After(Oldest, k)]
  /\ \A i \in 1 .. Len(hw) :
       /\ hw[i] = After(Oldest, Waiting + i - 1)
       /\ ~received[hw[i]]

\* What the labels of poll_rx() tell about the frame it works on and about the
\* budget left
PollProgress ==
  /\ pc = "copy" => received[next]
  /\ pc = "add" => ops = "dma" /\ ~received[next]
  /\ pc \in {"copy", "clear", "add", "inc", "ready"} => rx_per_poll > 0

\* The inductive invariant behind RingPartition and the channel
IndInv == TypeOK /\ RingPartition /\ PollProgress

\* The receive path implements the channel, whatever poll_rx(), the reset of
\* the ring on link up and the CCAT do at the same time.
Channel == INSTANCE RxChannel WITH
  Capacity <- FIFO_LENGTH,
  stored   <- IF pc = "hw_reset" THEN <<>>
              ELSE [i \in 1 .. Waiting |-> data[After(Oldest, i - 1)]]

ImplementsChannel == Channel!Spec

\* A frame ready() calls empty although it has arrived
Blocked == received[next] /\ data[next] \in Runts

\* While the interface is open every frame comes back to the CCAT: no burst
\* of frames, allocation failure, poll budget or link change stops reception
\* for good.  Only a runt that the CCAT has stored does, as long as the link
\* stays up: poll_rx() waits for it for ever, and the next link up frees it.
EveryFrameFreed ==
  <>[]running =>
    \/ \A s \in 0 .. FIFO_LENGTH - 1 : []<>(s \in Slots => ~received[s])
    \/ <>[]Blocked
=============================================================================
