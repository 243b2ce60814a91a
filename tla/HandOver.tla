------------------------------ MODULE HandOver ------------------------------
(***************************************************************************)
(* How send_frame and send_data hand a slot to one another: LinkLayer has  *)
(* it with all that happens around it, UpdatePipeline for several slots    *)
(* that one thread fills.  The flag is tested, set and cleared, and the    *)
(* condition signalled, without a common mutex, so between the test and    *)
(* the wait the slot may be emptied and the signal lost; but only a free   *)
(* slot is filled, only a full one emptied, each emptying is signalled     *)
(* before the next, and a signal or a wakeup leads back to the test.       *)
(***************************************************************************)
VARIABLES
  full,        \* _sbufferReady
  signalling,  \* send_data has cleared it and not yet signalled
  giver        \* where the thread that fills the slot is in send_frame

vars == <<full, signalling, giver>>

Init == full = FALSE /\ signalling = FALSE /\ giver = "away"

Move(from, to) == giver = from /\ giver' = to

Call == Move("away", "test") /\ UNCHANGED <<full, signalling>>

\* Finds the slot full and is about to wait, or finds it free.
Test == Move("test", IF full THEN "wait" ELSE "fill") /\ UNCHANGED <<full, signalling>>

Wait == Move("wait", "waiting") /\ UNCHANGED <<full, signalling>>

\* pthread_cond_wait returns, without a signal.
Wake == Move("waiting", "test") /\ UNCHANGED <<full, signalling>>

Fill == Move("fill", "away") /\ ~full /\ full' = TRUE /\ UNCHANGED signalling

Empty ==
  /\ full /\ ~signalling
  /\ full' = FALSE /\ signalling' = TRUE
  /\ UNCHANGED giver

Signal ==
  /\ signalling /\ signalling' = FALSE
  /\ giver' = IF giver = "waiting" THEN "test" ELSE giver
  /\ UNCHANGED full

\* The process ends, and a signal that was due is not given.
End == giver' = "ended" /\ signalling' = FALSE /\ UNCHANGED full

Next == Call \/ Test \/ Wait \/ Wake \/ Fill \/ Empty \/ Signal \/ End

Spec == Init /\ [][Next]_vars

=============================================================================
