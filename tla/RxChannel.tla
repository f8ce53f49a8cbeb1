----------------------------- MODULE RxChannel -----------------------------
(***************************************************************************)
(* What the receive path promises to the network stack: the frames the     *)
(* CCAT stored are passed on once each, unchanged and in order.  A frame   *)
(* can be lost on arrival (no buffer), at the head (no socket buffer), or  *)
(* with all others in a flush; never in any other way.                     *)
(***************************************************************************)
EXTENDS Naturals, Sequences

CONSTANTS Frames, Capacity

VARIABLES
  stored,     \* frames stored by the CCAT and not passed on yet
  passed      \* the last frame passed to the stack, with an alternating bit

vars == <<stored, passed>>

Init == stored = <<>>

Store(f) ==
  /\ Len(stored) < Capacity
  /\ stored' = Append(stored, f)
  /\ UNCHANGED passed

Pass ==
  /\ stored # <<>>
  /\ passed' = [frame |-> Head(stored), bit |-> 1 - passed.bit]
  /\ stored' = Tail(stored)

Drop ==
  /\ stored # <<>>
  /\ stored' = Tail(stored)
  /\ UNCHANGED passed

Flush ==
  /\ stored' = <<>>
  /\ UNCHANGED passed

Next == (\E f \in Frames : Store(f)) \/ Pass \/ Drop \/ Flush

Spec == Init /\ [][Next]_vars
=============================================================================
