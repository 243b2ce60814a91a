----------------------------- MODULE FrameSlot ------------------------------
(***************************************************************************)
(* What a LinkLayer promises its network layer: a slot for one frame.      *)
(* Frames are numbered in the order in which the network layer sends them. *)
(* The ones that are accepted leave in that order, each exactly once.      *)
(***************************************************************************)
EXTENDS Integers, Sequences

CONSTANTS Frame, NoFrame

VARIABLES slot, sent

Init == slot = NoFrame /\ sent = <<>>

\* A frame is accepted when the slot is free; earlier ones may have been refused.
Accept(f) ==
  /\ slot = NoFrame
  /\ \A k \in DOMAIN sent : sent[k] < f
  /\ slot' = f
  /\ UNCHANGED sent

Emit ==
  /\ slot # NoFrame
  /\ sent' = Append(sent, slot)
  /\ slot' = NoFrame

Next == Emit \/ \E f \in Frame : Accept(f)

Spec == Init /\ [][Next]_<<slot, sent>>

=============================================================================
