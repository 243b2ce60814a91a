-------------------------------- MODULE Fifo --------------------------------
(***************************************************************************)
(* What a MessageQueue promises its threads: items are handed out in the   *)
(* order in which they were put in, each once.                             *)
(***************************************************************************)
EXTENDS Sequences

CONSTANTS Item, Nothing

VARIABLES
  items,  \* the items put in and not yet handed out
  given   \* the item that is being handed out, or Nothing

Init == items = <<>> /\ given = Nothing

Put(x) == items' = Append(items, x) /\ UNCHANGED given

Take ==
  /\ items # <<>> /\ given = Nothing
  /\ given' = Head(items)
  /\ items' = Tail(items)

Done == given' = Nothing /\ UNCHANGED items

Next == Take \/ Done \/ \E x \in Item : Put(x)

Spec == Init /\ [][Next]_<<items, given>>

=============================================================================
