------------------------------- MODULE EthTx -------------------------------
(***************************************************************************)
(* The transmit path of the CCAT Ethernet function (netdev.c).             *)
(*                                                                         *)
(* Three parties share one descriptor ring:                                *)
(*   - the network stack, which calls ccat_eth_start_xmit() under the      *)
(*     transmit lock of the queue (context "stack");                       *)
(*   - the poll timer, whose callback tracks the link, resets the ring and *)
(*     transmits the forwarding frame on link up, and wakes the queue      *)
(*     (context "timer").  It never takes the transmit lock;               *)
(*   - the CCAT, which sends the descriptors written to its TX FIFO.       *)
(*                                                                         *)
(* The start_xmit labels in pc are                                         *)
(*   check -> fill -> kick -> load -> store (-> wrap) -> full (-> stop)    *)
(*         -> busy                                                         *)
(* and the timer labels are                                                *)
(*   poll_link -> hw_reset -> reset -> raw -> <start_xmit> -> carrier_on   *)
(*             -> start_queue -> poll_tx                                   *)
(*             -> link_down -> carrier_off -> poll_tx -> wake -> idle.     *)
(***************************************************************************)
EXTENDS Integers, Sequences

CONSTANTS
  FIFO_LENGTH,  \* number of frames in the ring
  HW_DEPTH,     \* descriptors the CCAT TX FIFO can hold
  Payload,      \* frames the network stack hands over
  Unsupported,  \* those that are non linear or longer than MAX_PAYLOAD_SIZE
  Forward,      \* frameForwardEthernetFrames
  NoFrame,      \* content of a frame buffer nobody wrote yet
  SettledLink   \* TRUE: the link stays down until its loss is handled

ASSUME EthTxAssumption ==
  /\ FIFO_LENGTH \in Nat \ {0}
  /\ HW_DEPTH \in Nat /\ HW_DEPTH >= FIFO_LENGTH
  /\ Unsupported \subseteq Payload
  /\ Forward \notin Payload
  /\ NoFrame \notin Payload \cup {Forward}
  /\ SettledLink \in BOOLEAN

VARIABLES
  ops,        \* fifo->ops: "dma" or "eim", never changed
  pc,         \* label of each context
  skb,        \* the frame each context transmits
  frame,      \* the local copy of fifo->next of each context
  next,       \* fifo->mem.next, as a slot number
  tx_flags,   \* is CCAT_FRAME_SENT set in the slot's header?
  data,       \* the frame in each slot
  hw,         \* descriptors in the CCAT TX FIFO, oldest first
  queue,      \* netif queue: "awake" or "stopped"
  carrier,    \* netif_carrier_ok()
  qdisc,      \* does the stack hand frames to the driver?
  admin,      \* "closed", "open", or the step of ccat_eth_stop() to come
  link,       \* the link bit of the CCAT
  forwarded   \* history: forwarding frame queued since the last reset?

fifo  == <<next, tx_flags, data>>
local == <<skb, frame>>
netif == <<queue, carrier>>
env   == <<ops, qdisc, admin, link>>
vars  == <<ops, pc, skb, frame, next, tx_flags, data, hw, queue, carrier,
           qdisc, admin, link, forwarded>>

Contexts == {"stack", "timer"}
Slots    == 0 .. FIFO_LENGTH - 1
Frames   == Payload \cup {Forward}

Goto(ctx, label) == pc' = [pc EXCEPT ![ctx] = label]

(***************************************************************************)
(* The ring                                                                *)
(***************************************************************************)

\* fifo_set_end(): the last slot of the ring
End == FIFO_LENGTH - 1

\* ccat_eth_fifo_inc(), as one store
Inc(n) == IF n + 1 > End THEN 0 ELSE n + 1

\* fifo_eim_tx_ready(): the level of the CCAT TX FIFO
EimTxReady == {Len(hw) % 64 = 0}

\* fifo_dma_tx_ready(): the flag of the frame under fifo->next, or, behind the
\* ring, of whatever memory follows it
DmaTxReady == IF next \in Slots THEN {tx_flags[next]} ELSE BOOLEAN

\* the values fifo->ops->ready() can return
Ready == IF ops = "eim" THEN EimTxReady ELSE DmaTxReady

\* A write of "addr_and_length" to fifo->reg.  A descriptor that does not fit
\* is lost (the CCAT counts it in tx_mem_full).
HwPush(s) == IF Len(hw) < HW_DEPTH THEN Append(hw, s) ELSE hw

(***************************************************************************)
(* ccat_eth_start_xmit(), in either context                                *)
(***************************************************************************)

\* where a context continues when ccat_eth_start_xmit() returns
Return(ctx) == IF ctx = "stack" THEN "idle" ELSE "carrier_on"

\* start_xmit without the test of a free frame
XmitCheck_NoReady(ctx) ==
  /\ pc[ctx] = "check"
  /\ IF skb[ctx] \in Unsupported THEN Goto(ctx, Return(ctx))
                                 ELSE Goto(ctx, "fill")
  /\ UNCHANGED <<local, fifo, hw, netif, env, forwarded>>

\* drop what cannot be sent, otherwise test whether the next frame is free
XmitCheck(ctx) ==
  /\ pc[ctx] = "check"
  /\ \/ /\ skb[ctx] \in Unsupported
        /\ Goto(ctx, Return(ctx))
     \/ /\ skb[ctx] \notin Unsupported
        /\ \E r \in Ready : Goto(ctx, IF r THEN "fill" ELSE "busy")
  /\ UNCHANGED <<local, fifo, hw, netif, env, forwarded>>

\* "BUG! Tx Ring full when queue awake!": stop the queue, NETDEV_TX_BUSY
XmitBusy(ctx) ==
  /\ pc[ctx] = "busy"
  /\ queue' = "stopped"
  /\ Goto(ctx, Return(ctx))
  /\ UNCHANGED <<local, fifo, hw, carrier, env, forwarded>>

\* a queue.skb() that leaves tx_flags alone
XmitFill_KeepFlags(ctx) ==
  /\ pc[ctx] = "fill"
  /\ frame' = [frame EXCEPT ![ctx] = next]
  /\ data' = [s \in Slots |-> IF s = next THEN skb[ctx] ELSE data[s]]
  /\ Goto(ctx, "kick")
  /\ UNCHANGED <<skb, next, tx_flags, hw, netif, env, forwarded>>

\* queue.skb(), before the register write: fill the frame under fifo->next
XmitFill(ctx) ==
  /\ pc[ctx] = "fill"
  /\ frame' = [frame EXCEPT ![ctx] = next]
  /\ tx_flags' = [s \in Slots |-> IF ops = "dma" /\ s = next
                                  THEN FALSE ELSE tx_flags[s]]
  /\ data' = [s \in Slots |-> IF s = next THEN skb[ctx] ELSE data[s]]
  /\ Goto(ctx, "kick")
  /\ UNCHANGED <<skb, next, hw, netif, env, forwarded>>

\* queue.skb(), the register write: hand the descriptor to the CCAT
XmitKick(ctx) ==
  /\ pc[ctx] = "kick"
  /\ hw' = HwPush(frame[ctx])
  /\ forwarded' = (forwarded \/ skb[ctx] = Forward)
  /\ Goto(ctx, "load")
  /\ UNCHANGED <<local, fifo, netif, env>>

\* ccat_eth_fifo_inc(): ++fifo->mem.next, read
XmitLoad(ctx) ==
  /\ pc[ctx] = "load"
  /\ frame' = [frame EXCEPT ![ctx] = next + 1]
  /\ Goto(ctx, "store")
  /\ UNCHANGED <<skb, fifo, hw, netif, env, forwarded>>

\* ccat_eth_fifo_inc(), written back.  The incremented pointer may be stored
\* before it is compared with fifo->end, or only after.
XmitStore(ctx) ==
  /\ pc[ctx] = "store"
  /\ \/ /\ next' = IF frame[ctx] > End THEN 0 ELSE frame[ctx]
        /\ Goto(ctx, "full")
     \/ /\ frame[ctx] > End
        /\ next' = frame[ctx]
        /\ Goto(ctx, "wrap")
  /\ UNCHANGED <<local, tx_flags, data, hw, netif, env, forwarded>>

XmitWrap(ctx) ==
  /\ pc[ctx] = "wrap"
  /\ next' = 0
  /\ Goto(ctx, "full")
  /\ UNCHANGED <<local, tx_flags, data, hw, netif, env, forwarded>>

\* "stop queue if tx ring is full": the test ...
XmitFull(ctx) ==
  /\ pc[ctx] = "full"
  /\ \E r \in Ready : Goto(ctx, IF r THEN Return(ctx) ELSE "stop")
  /\ UNCHANGED <<local, fifo, hw, netif, env, forwarded>>

\* ... and netif_stop_queue()
XmitStop(ctx) ==
  /\ pc[ctx] = "stop"
  /\ queue' = "stopped"
  /\ Goto(ctx, Return(ctx))
  /\ UNCHANGED <<local, fifo, hw, carrier, env, forwarded>>

Xmit(ctx) ==
  \/ XmitCheck(ctx) \/ XmitBusy(ctx) \/ XmitFill(ctx) \/ XmitKick(ctx)
  \/ XmitLoad(ctx) \/ XmitStore(ctx) \/ XmitWrap(ctx)
  \/ XmitFull(ctx) \/ XmitStop(ctx)

(***************************************************************************)
(* poll_timer_callback()                                                   *)
(***************************************************************************)

TimerFire ==
  /\ admin # "closed"
  /\ pc["timer"] = "idle"
  /\ Goto("timer", "poll_link")
  /\ UNCHANGED <<local, fifo, hw, netif, env, forwarded>>

PollLink ==
  /\ pc["timer"] = "poll_link"
  /\ \/ link = carrier   /\ Goto("timer", "poll_tx")
     \/ link /\ ~carrier /\ Goto("timer", "hw_reset")
     \/ ~link /\ carrier /\ Goto("timer", "link_down")
  /\ UNCHANGED <<local, fifo, hw, netif, env, forwarded>>

\* ccat_eth_link_down()
LinkDown ==
  /\ pc["timer"] = "link_down"
  /\ queue' = "stopped"
  /\ Goto("timer", "carrier_off")
  /\ UNCHANGED <<local, fifo, hw, carrier, env, forwarded>>

CarrierOff ==
  /\ pc["timer"] = "carrier_off"
  /\ carrier' = FALSE
  /\ Goto("timer", "poll_tx")
  /\ UNCHANGED <<local, fifo, hw, queue, env, forwarded>>

\* a reset of the ring that leaves the descriptors in the CCAT
FifoHwReset_KeepHw ==
  /\ pc["timer"] = "hw_reset"
  /\ next' = 0
  /\ forwarded' = FALSE
  /\ Goto("timer", "reset")
  /\ UNCHANGED <<local, tx_flags, data, hw, netif, env>>

\* ccat_eth_fifo_reset(): empty the CCAT TX FIFO, start at the first frame
FifoHwReset ==
  /\ pc["timer"] = "hw_reset"
  /\ hw' = <<>>
  /\ next' = 0
  /\ forwarded' = FALSE
  /\ Goto("timer", "reset")
  /\ UNCHANGED <<local, tx_flags, data, netif, env>>

\* a turn of the loop without ops->add()
FifoResetAdd_NoAdd ==
  /\ pc["timer"] = "reset"
  /\ next' = Inc(next)
  /\ Goto("timer", IF next' # 0 THEN "reset" ELSE "raw")
  /\ UNCHANGED <<local, tx_flags, data, hw, netif, env, forwarded>>

\* ccat_eth_fifo_reset(): one turn of the loop, ops->add() and the increment
FifoResetAdd ==
  /\ pc["timer"] = "reset"
  /\ tx_flags' = [s \in Slots |-> (ops = "dma" /\ s = next) \/ tx_flags[s]]
  /\ next' = Inc(next)
  /\ Goto("timer", IF next' # 0 THEN "reset" ELSE "raw")
  /\ UNCHANGED <<local, data, hw, netif, env, forwarded>>

\* ccat_eth_xmit_raw() of the forwarding frame
XmitRaw ==
  /\ pc["timer"] = "raw"
  /\ skb' = [skb EXCEPT !["timer"] = Forward]
  /\ Goto("timer", "check")
  /\ UNCHANGED <<frame, fifo, hw, netif, env, forwarded>>

CarrierOn ==
  /\ pc["timer"] = "carrier_on"
  /\ carrier' = TRUE
  /\ Goto("timer", "start_queue")
  /\ UNCHANGED <<local, fifo, hw, queue, env, forwarded>>

StartQueue ==
  /\ pc["timer"] = "start_queue"
  /\ queue' = "awake"
  /\ Goto("timer", "poll_tx")
  /\ UNCHANGED <<local, fifo, hw, carrier, env, forwarded>>

\* a poll_tx() with the test inverted
PollTx_Inverted ==
  /\ pc["timer"] = "poll_tx"
  /\ \E r \in Ready : Goto("timer", IF r THEN "idle" ELSE "wake")
  /\ UNCHANGED <<local, fifo, hw, netif, env, forwarded>>

\* poll_tx(): the test ...
PollTx ==
  /\ pc["timer"] = "poll_tx"
  /\ \E r \in Ready : Goto("timer", IF r THEN "wake" ELSE "idle")
  /\ UNCHANGED <<local, fifo, hw, netif, env, forwarded>>

\* ... and netif_wake_queue(); the timer is restarted
WakeQueue ==
  /\ pc["timer"] = "wake"
  /\ queue' = "awake"
  /\ Goto("timer", "idle")
  /\ UNCHANGED <<local, fifo, hw, carrier, env, forwarded>>

Timer ==
  \/ PollLink \/ LinkDown \/ CarrierOff \/ FifoHwReset \/ FifoResetAdd
  \/ XmitRaw \/ Xmit("timer") \/ CarrierOn \/ StartQueue
  \/ PollTx \/ WakeQueue

(***************************************************************************)
(* The network stack                                                       *)
(***************************************************************************)

\* the stack hands over a frame: qdisc active, queue not stopped, lock held
StackXmit(f) ==
  /\ qdisc
  /\ queue = "awake"
  /\ pc["stack"] = "idle"
  /\ skb' = [skb EXCEPT !["stack"] = f]
  /\ Goto("stack", "check")
  /\ UNCHANGED <<frame, fifo, hw, netif, env, forwarded>>

\* the stack follows the carrier, some time after it changed; it waits for
\* a transmission in progress before it detaches from the driver
Linkwatch ==
  /\ admin = "open"
  /\ qdisc # carrier
  /\ pc["stack"] = "idle"
  /\ qdisc' = carrier
  /\ UNCHANGED <<ops, pc, local, fifo, hw, netif, admin, link, forwarded>>

\* ccat_eth_open(): start the poll timer; the stack attaches if carrier is on
Open ==
  /\ admin = "closed"
  /\ admin' = "open"
  /\ qdisc' = carrier
  /\ UNCHANGED <<ops, pc, local, fifo, hw, netif, link, forwarded>>

\* the stack detaches from the driver before it calls ccat_eth_stop()
Deactivate ==
  /\ admin = "open"
  /\ pc["stack"] = "idle"
  /\ qdisc' = FALSE
  /\ admin' = "stop_queue"
  /\ UNCHANGED <<ops, pc, local, fifo, hw, netif, link, forwarded>>

\* ccat_eth_stop(): netif_stop_queue() ...
StopQueue ==
  /\ admin = "stop_queue"
  /\ queue' = "stopped"
  /\ admin' = "cancel"
  /\ UNCHANGED <<ops, pc, local, fifo, hw, carrier, qdisc, link, forwarded>>

\* ... and hrtimer_cancel(), which waits for a running callback
CancelTimer ==
  /\ admin = "cancel"
  /\ pc["timer"] = "idle"
  /\ admin' = "closed"
  /\ UNCHANGED <<ops, pc, local, fifo, hw, netif, qdisc, link, forwarded>>

(***************************************************************************)
(* The CCAT                                                                *)
(***************************************************************************)

\* one frame is sent: CCAT_FRAME_SENT is set in its header
HwSend ==
  /\ hw # <<>>
  /\ hw' = Tail(hw)
  /\ tx_flags' = [s \in Slots |-> (ops = "dma" /\ s = Head(hw)) \/ tx_flags[s]]
  /\ UNCHANGED <<pc, local, next, data, netif, env, forwarded>>

LinkFall ==
  /\ link
  /\ link' = FALSE
  /\ UNCHANGED <<ops, pc, local, fifo, hw, netif, qdisc, admin, forwarded>>

\* the driver and the stack have dealt with the loss of the link, or it was
\* too short to be noticed
LossHandled ==
  /\ pc["timer"] \notin {"link_down", "carrier_off"}
  /\ carrier \/ ~qdisc

LinkRise ==
  /\ ~link
  /\ SettledLink => LossHandled
  /\ link' = TRUE
  /\ UNCHANGED <<ops, pc, local, fifo, hw, netif, qdisc, admin, forwarded>>

(***************************************************************************)
(* The specification                                                       *)
(***************************************************************************)

\* after ccat_eth_init_netdev(); the ring was reset when it was set up
Init ==
  /\ ops \in {"dma", "eim"}
  /\ pc = [c \in Contexts |-> "idle"]
  /\ skb = [c \in Contexts |-> NoFrame]
  /\ frame = [c \in Contexts |-> 0]
  /\ next = 0
  /\ tx_flags = [s \in Slots |-> ops = "dma"]
  /\ data = [s \in Slots |-> NoFrame]
  /\ hw = <<>>
  /\ queue = "awake"
  /\ carrier = FALSE
  /\ qdisc = FALSE
  /\ admin = "closed"
  /\ link \in BOOLEAN
  /\ forwarded = FALSE

Stack ==
  \/ \E f \in Payload : StackXmit(f)
  \/ Xmit("stack")
  \/ Linkwatch \/ Open \/ Deactivate \/ StopQueue \/ CancelTimer

Next ==
  \/ Stack
  \/ TimerFire \/ Timer
  \/ HwSend \/ LinkFall \/ LinkRise

\* The timer is restarted by its callback, code that runs is not suspended
\* for ever, the stack follows the carrier, and the CCAT sends while the link
\* is up.  Nothing else has to happen.
Fairness ==
  /\ WF_vars(TimerFire)
  /\ WF_vars(Timer)
  /\ WF_vars(Xmit("stack"))
  /\ WF_vars(Linkwatch)
  /\ WF_vars(link /\ HwSend)

Spec == Init /\ [][Next]_vars /\ Fairness

(***************************************************************************)
(* Properties                                                              *)
(***************************************************************************)

XmitLabels == {"check", "busy", "fill", "kick", "load", "store", "wrap",
               "full", "stop"}

TimerLabels == {"poll_link", "link_down", "carrier_off", "hw_reset", "reset",
                "raw", "carrier_on", "start_queue", "poll_tx", "wake"}

\* Types.  fifo->next may point one frame behind the ring while
\* ccat_eth_fifo_inc() wraps it; ops->ready() can see that.
TypeOK ==
  /\ ops \in {"dma", "eim"}
  /\ pc \in [Contexts -> {"idle"} \cup XmitLabels \cup TimerLabels]
  /\ pc["stack"] \in {"idle"} \cup XmitLabels
  /\ skb \in [Contexts -> Frames \cup {NoFrame}]
  /\ frame \in [Contexts -> 0 .. FIFO_LENGTH]
  /\ next \in 0 .. FIFO_LENGTH
  /\ tx_flags \in [Slots -> BOOLEAN]
  /\ data \in [Slots -> Frames \cup {NoFrame}]
  /\ hw \in Seq(Slots)
  /\ queue \in {"awake", "stopped"}
  /\ admin \in {"closed", "open", "stop_queue", "cancel"}
  /\ carrier \in BOOLEAN
  /\ qdisc \in BOOLEAN
  /\ link \in BOOLEAN
  /\ forwarded \in BOOLEAN

\* The slot after the newest descriptor: fifo->next, unless a context has
\* written its descriptor and ccat_eth_fifo_inc() is not complete.
NewestEnd ==
  IF \E c \in Contexts : pc[c] \in {"load", "store"} THEN Inc(next)
  ELSE IF next > End THEN 0
  ELSE next

\* The slot k slots before s
Before(s, k) == IF s >= k THEN s - k ELSE s + FIFO_LENGTH - k

InHw(s) == \E i \in 1 .. Len(hw) : hw[i] = s

\* The descriptors the CCAT holds are consecutive frames of the ring that end
\* at fifo->next: no frame is queued twice, skipped, or queued out of order, in
\* every interleaving of ccat_eth_start_xmit(), the poll timer and the CCAT in
\* which the stack has left ccat_eth_start_xmit() before a lost link comes back
\* (SettledLink).
RingSegment ==
  /\ Len(hw) <= FIFO_LENGTH
  /\ \A i \in 1 .. Len(hw) : hw[i] = Before(NewestEnd, Len(hw) - i + 1)

\* A frame with CCAT_FRAME_SENT set, "ready to use for tx" in the words of
\* ccat_eth_tx_fifo_dma_add_free(), is not owned by anybody: its descriptor
\* is not in the CCAT and no context is filling it, as long as no
\* ccat_eth_start_xmit() runs into the reset of the ring (SettledLink).
ReadyMeansFree ==
  \A s \in Slots : tx_flags[s] =>
    /\ ~InHw(s)
    /\ \A c \in Contexts : ~(pc[c] = "kick" /\ frame[c] = s)

\* ... and a frame without it will get it: the CCAT has its descriptor, or a
\* context is about to write it (with SettledLink).  Otherwise the ring would
\* stop there for good.
BusyMeansOwned ==
  pc["timer"] # "reset" =>
    \A s \in Slots : ~tx_flags[s] =>
      \/ ops = "eim"
      \/ InHw(s)
      \/ \E c \in Contexts : pc[c] = "kick" /\ frame[c] = s

\* The steps of ccat_eth_link_up() before netif_carrier_on()
LinkUpLabels == XmitLabels \cup {"hw_reset", "reset", "raw", "carrier_on"}

\* Nothing but the order of events keeps ccat_eth_start_xmit() out of
\* ccat_eth_link_up(), there is no lock: when the loss of the link is always
\* handled first, the stack is detached while the timer resets the ring and
\* sends the forwarding frame.
Exclusion ==
  /\ pc["stack"] # "idle" => qdisc
  /\ pc["timer"] \in LinkUpLabels => ~carrier /\ ~qdisc
  /\ pc["timer"] \in {"link_down", "carrier_off"} => carrier /\ ~link
  /\ link /\ ~carrier => ~qdisc
  /\ qdisc => admin = "open"
  /\ admin = "closed" => pc["timer"] = "idle"

\* What a context between two steps of ccat_eth_start_xmit() relies on
XmitProgress ==
  /\ next > End => \E c \in Contexts : pc[c] = "wrap"
  /\ \A c \in Contexts :
       /\ pc[c] \in {"check", "fill", "kick"} => skb[c] # NoFrame
       /\ pc[c] \in {"fill", "kick", "load", "store"} => skb[c] \notin Unsupported
       /\ pc[c] = "fill" => IF ops = "dma" THEN tx_flags[next] ELSE hw = <<>>
       /\ pc[c] = "kick" =>
            /\ frame[c] = next
            /\ data[next] = skb[c]
            /\ ~InHw(next)
            /\ ops = "eim" => hw = <<>>
       /\ pc[c] = "store" => frame[c] = next + 1
       /\ pc[c] = "wrap" => next > End

\* What the loop of ccat_eth_fifo_reset() has done so far
ResetProgress ==
  /\ pc["timer"] = "reset" =>
       /\ hw = <<>>
       /\ next \in Slots
       /\ ops = "dma" => \A s \in Slots : s < next => tx_flags[s]
  /\ pc["timer"] \in {"raw", "check", "fill", "kick"} => hw = <<>>

\* After every reset of the ring the forwarding frame is handed to the CCAT
\* before the carrier is reported or the stack can hand over a frame, provided
\* the stack had followed the loss of the link before (SettledLink): nothing in
\* ccat_eth_link_up() keeps out a ccat_eth_start_xmit() that began earlier.
ForwardFirst ==
  /\ pc["timer"] \in XmitLabels => skb["timer"] = Forward
  /\ pc["timer"] # "busy"
  /\ carrier => forwarded
  /\ pc["timer"] \in {"load", "store", "wrap", "full", "stop", "carrier_on"}
       => forwarded
  /\ qdisc => forwarded

\* Without DMA there is one frame in flight, and the flags are not used.
EimFlags == ops = "eim" => Len(hw) <= 1 /\ \A s \in Slots : ~tx_flags[s]

\* The inductive invariant of the transmit path
IndInv ==
  /\ TypeOK
  /\ Exclusion
  /\ XmitProgress
  /\ ResetProgress
  /\ EimFlags
  /\ RingSegment
  /\ ReadyMeansFree
  /\ BusyMeansOwned

\* "Tx Ring full when queue awake" is reported as a bug of the driver: the
\* stack should never be told NETDEV_TX_BUSY.
NeverBusy == pc["stack"] # "busy"

\* The transmit path implements the channel: every frame that reaches
\* queue.skb() goes to the wire once, unchanged and in order, there are never
\* more than the ring in flight, and no frame of the stack overtakes the
\* forwarding frame after a reset of the ring.
Channel == INSTANCE TxChannel WITH
  Sendable  <- Frames \ Unsupported,
  Capacity  <- FIFO_LENGTH,
  offered   <- [c \in Contexts |-> IF pc[c] \in {"check", "busy", "fill", "kick"}
                                  THEN skb[c] ELSE NoFrame],
  wire      <- [i \in 1 .. Len(hw) |-> data[hw[i]]],
  forwarded <- forwarded

ImplementsChannel == Channel!Spec

\* When the interface stays open and the link stays up, the stack can hand
\* over frames again and again: start_xmit's netif_stop_queue(), link_up's
\* netif_start_queue() and poll_tx's netif_wake_queue() never leave the queue
\* stopped for good.
TxResumes ==
  <>[](admin = "open" /\ link)
    => []<>(qdisc /\ queue = "awake" /\ pc["stack"] = "idle")
=============================================================================
