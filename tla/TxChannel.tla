----------------------------- MODULE TxChannel -----------------------------
(***************************************************************************)
(* What the transmit path promises to the contexts that transmit: a        *)
(* bounded FIFO channel to the wire.  A frame that is offered is either    *)
(* accepted, exactly once and unchanged, or rejected.  Accepted frames are *)
(* sent in order, and can only be lost by a flush.  After a flush the      *)
(* forwarding frame is the first to be accepted.                           *)
(***************************************************************************)
EXTENDS Naturals, Sequences

CONSTANTS Contexts, Frames, Sendable, Forward, NoFrame, Capacity

VARIABLES
  offered,    \* the frame each context wants to send
  wire,       \* frames accepted and not sent yet
  forwarded   \* has the forwarding frame been accepted since the last flush?

vars == <<offered, wire, forwarded>>

Init ==
  /\ offered = [c \in Contexts |-> NoFrame]
  /\ wire = <<>>
  /\ forwarded = FALSE

Offer(c, f) ==
  /\ offered[c] = NoFrame
  /\ offered' = [offered EXCEPT ![c] = f]
  /\ UNCHANGED <<wire, forwarded>>

Reject(c) ==
  /\ offered[c] # NoFrame
  /\ offered' = [offered EXCEPT ![c] = NoFrame]
  /\ UNCHANGED <<wire, forwarded>>

Accept(c) ==
  /\ offered[c] \in Sendable
  /\ forwarded \/ offered[c] = Forward
  /\ Len(wire) < Capacity
  /\ wire' = Append(wire, offered[c])
  /\ forwarded' = TRUE
  /\ offered' = [offered EXCEPT ![c] = NoFrame]

Send ==
  /\ wire # <<>>
  /\ wire' = Tail(wire)
  /\ UNCHANGED <<offered, forwarded>>

Flush ==
  /\ wire' = <<>>
  /\ forwarded' = FALSE
  /\ UNCHANGED offered

Next ==
  \/ \E c \in Contexts : (\E f \in Frames : Offer(c, f)) \/ Reject(c) \/ Accept(c)
  \/ Send
  \/ Flush

Spec == Init /\ [][Next]_vars
=============================================================================
