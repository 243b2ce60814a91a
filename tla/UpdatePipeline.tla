--------------------------- MODULE UpdatePipeline ---------------------------
(***************************************************************************)
(* How an update leaves a node.  A timer's signal interrupts some thread,  *)
(* on which the handler pushes to _timerQueue (node.cc); the RIP thread    *)
(* pops it and pushes a message per interface to _incomingqueue; one       *)
(* thread of the network layer pops those and waits for each interface's   *)
(* slot in turn; each interface's thread empties its slot.  The main       *)
(* thread and the one that handles what comes in push to _incomingqueue    *)
(* too.  _timerQueue is the MessageQueue in full, because a handler may    *)
(* interrupt pop; _incomingqueue is what MessageQueue promises (Fifo).  Of *)
(* an interface only the hand-over is here: whether and when its thread    *)
(* comes to send what is in the slot is LinkLayer's subject, so here it    *)
(* may or may not.                                                         *)
(***************************************************************************)
EXTENDS MessageQueue, Integers

CONSTANTS
  Host,       \* the threads on which a signal may be handled
  LastIfc,    \* the interfaces are 1 .. LastIfc, in the order of _interfaces
  Commanded,  \* bound: the interfaces that commands take down and up
  Routed,     \* bound: the interfaces that routes lead out of
  MaxFires,   \* bound: the times each timer expires
  MaxInputs   \* bound: the commands, and the packets that come in

Update == 1   \* UPDATE_TIMER_ID; any other item is REFRESH_TIMER_ID
Ifc == 1 .. LastIfc
Announcer == {"rip", "main", "out"}  \* the threads that call prepare_msg

Rip == <<"thread", "rip">>
Handler(h) == <<"handler", h>>
Callers == {Rip} \cup {Handler(h) : h \in Host}

ASSUME PipelineAssumption ==
  /\ Caller = Callers
  /\ LastIfc \in Nat \ {0} /\ MaxFires \in Nat /\ MaxInputs \in Nat
  /\ Nothing \notin Ifc
  /\ Commanded \subseteq Ifc /\ Routed \subseteq Ifc

VARIABLES
  pending,     \* the timers whose signal is yet to be delivered
  fires,
  inputs,
  announcing,  \* prepare_msg: the interface a thread comes to next, or 0
  incoming,    \* _incomingqueue: the interfaces its messages are for
  frame,       \* the message popped from it, or Nothing
  sender,      \* where its thread is in send_frame
  missed,      \* the slot's signal came after send_frame's test and before its wait
  open,        \* s_local of an interface is not -1
  isup,
  ready,       \* _sbufferReady
  link,        \* an interface's thread: in send_data before or after it empties the slot
  main         \* the command in progress, and its interface

ifcVars == <<open, isup, ready, link>>
sendVars == <<incoming, frame, sender, missed>>
vars == <<queueVars, pending, fires, inputs, announcing, main, ifcVars, sendVars>>

Incoming == INSTANCE Fifo WITH Item <- Ifc, items <- incoming, given <- frame

\* What main is at, or that the process has ended.
Command == {<<"idle">>, <<"ended">>} \cup {"up", "down"} \X Ifc

Ended == main = <<"ended">>

TypeOK ==
  /\ QueueTypeOK
  /\ pending \in SUBSET Item
  /\ fires \in [Item -> 0 .. MaxFires] /\ inputs \in 0 .. MaxInputs
  /\ announcing \in [Announcer -> 0 .. LastIfc]
  /\ incoming \in Seq(Ifc) /\ frame \in Ifc \cup {Nothing}
  /\ sender \in {"pop", "send", "test", "wait", "waiting", "fill"} /\ missed \in BOOLEAN
  /\ open \in [Ifc -> BOOLEAN] /\ isup \in [Ifc -> BOOLEAN]
  /\ ready \in [Ifc -> BOOLEAN] /\ link \in [Ifc -> {"loop", "sendto", "signal"}]
  /\ main \in Command

\* The node is at rest, but for a packet that may have come in: commands may have taken
\* some interfaces down before.
Init ==
  /\ QueueInit
  /\ pending = {} /\ fires = [e \in Item |-> 0] /\ inputs = 0
  /\ announcing = [t \in Announcer |-> 0]
  /\ incoming \in {<<>>} \cup {<<i>> : i \in Routed} /\ frame = Nothing
  /\ sender = "pop" /\ missed = FALSE
  /\ \E down \in SUBSET Commanded : open = [i \in Ifc |-> i \notin down]
  /\ isup = open
  /\ ready = [i \in Ifc |-> FALSE] /\ link = [i \in Ifc |-> "loop"]
  /\ main = <<"idle">>

\* A thread does not move while a handler runs on it.
Runs(t) == ~Ended /\ \A h \in Host \cap {t} : at[Handler(h)] = "outside"

-----------------------------------------------------------------------------
(* The timers and their signals.                                           *)

\* A timer that expires while its signal is pending counts an overrun only.
Fire(e) ==
  /\ ~Ended /\ fires[e] < MaxFires /\ e \notin pending
  /\ pending' = pending \cup {e}
  /\ fires' = [fires EXCEPT ![e] = @ + 1]
  /\ UNCHANGED <<queueVars, inputs, announcing, main, ifcVars, sendVars>>

\* The process's signal is handled on any thread that is not already in the
\* handler, in which the signal is blocked.
Deliver(e, h) ==
  /\ ~Ended /\ e \in pending
  /\ CallPush(Handler(h), e)
  /\ pending' = pending \ {e}
  /\ UNCHANGED <<fires, inputs, announcing, main, ifcVars, sendVars>>

Handle(h) ==
  /\ ~Ended /\ Pushing(Handler(h))
  /\ UNCHANGED <<pending, fires, inputs, announcing, main, ifcVars, sendVars>>

-----------------------------------------------------------------------------
(* The RIP thread, and prepare_msg.                                        *)

\* update_refresh_rt: pop, and ...
RipPops ==
  /\ Runs("rip") /\ announcing["rip"] = 0
  /\ \/ CallPop(Rip)
     \/ Popping(Rip) /\ at'[Rip] # "outside"
  /\ UNCHANGED <<pending, fires, inputs, announcing, main, ifcVars, sendVars>>

\* ... on an update prepare_msg(2), on a refresh what RipNetwork and RipThreads have.
RipReturns ==
  /\ Runs("rip")
  /\ UnlockPopped(Rip)
  /\ announcing' = [announcing EXCEPT !["rip"] = IF returned = Update THEN 1 ELSE 0]
  /\ UNCHANGED <<pending, fires, inputs, main, ifcVars, sendVars>>

\* Mutant: prepare_msg runs past the last interface.
AnnounceTooFar(t) ==
  /\ Runs(t) /\ announcing[t] # 0
  /\ announcing' = [announcing EXCEPT ![t] = (@ + 1) % (LastIfc + 2)]
  /\ UNCHANGED <<queueVars, pending, fires, inputs, main, ifcVars, sendVars>>

\* prepare_msg for one interface: transfer_rip_to_ip pushes if it is up.
Announce(t) ==
  LET i == announcing[t]
  IN  /\ Runs(t) /\ i # 0
      /\ announcing' = [announcing EXCEPT ![t] = IF i = LastIfc THEN 0 ELSE i + 1]
      /\ IF isup[i] THEN Incoming!Put(i) ELSE UNCHANGED <<incoming, frame>>
      /\ UNCHANGED <<queueVars, pending, fires, inputs, main, ifcVars, sender, missed>>

-----------------------------------------------------------------------------
(* The other threads that push to _incomingqueue.                          *)

Idle(t) == Runs(t) /\ announcing[t] = 0 /\ inputs < MaxInputs /\ inputs' = inputs + 1

\* down: s_local first, then _isup; remove_ifc_entry announces the rest.
Down(i) ==
  /\ main = <<"idle">> /\ Idle("main")
  /\ open' = [open EXCEPT ![i] = FALSE]
  /\ main' = <<"down", i>>
  /\ UNCHANGED <<queueVars, pending, fires, announcing, isup, ready, link, sendVars>>

DownDone(i) ==
  /\ main = <<"down", i>> /\ Runs("main")
  /\ isup' = [isup EXCEPT ![i] = FALSE]
  /\ announcing' = [announcing EXCEPT !["main"] = 1]
  /\ main' = <<"idle">>
  /\ UNCHANGED <<queueVars, pending, fires, inputs, open, ready, link, sendVars>>

Up(i) ==
  /\ main = <<"idle">> /\ Idle("main")
  /\ open' = [open EXCEPT ![i] = TRUE]
  /\ main' = <<"up", i>>
  /\ UNCHANGED <<queueVars, pending, fires, announcing, isup, ready, link, sendVars>>

UpDone(i) ==
  /\ main = <<"up", i>> /\ Runs("main")
  /\ isup' = [isup EXCEPT ![i] = TRUE]
  /\ main' = <<"idle">>
  /\ UNCHANGED <<queueVars, pending, fires, inputs, announcing, open, ready, link,
                 sendVars>>

\* process_out_queue: a request is answered by prepare_msg(2).
Request ==
  /\ Idle("out")
  /\ announcing' = [announcing EXCEPT !["out"] = 1]
  /\ UNCHANGED <<queueVars, pending, fires, main, ifcVars, sendVars>>

\* transfer_transit_data, and transfer_application_to_ip for a "send" command: the
\* route may lead to any interface.
Push(i) ==
  /\ Idle("out") \/ (main = <<"idle">> /\ Idle("main"))
  /\ Incoming!Put(i)
  /\ UNCHANGED <<queueVars, pending, fires, announcing, main, ifcVars, sender, missed>>

Inputs == \/ Request
          \/ \E i \in Commanded : Down(i) \/ Up(i)
          \/ \E i \in Routed : Push(i)

-----------------------------------------------------------------------------
(* process_in_queue and send_frame; the interfaces' threads.               *)

PopMessage ==
  /\ Runs("in") /\ sender = "pop"
  /\ Incoming!Take
  /\ sender' = "send"
  /\ UNCHANGED <<queueVars, pending, fires, inputs, announcing, main, ifcVars, missed>>

SenderStep(from, to) == /\ Runs("in") /\ sender = from /\ sender' = to
                        /\ UNCHANGED <<queueVars, pending, fires, inputs, announcing,
                                       main, open, isup, link>>

\* A message for an interface whose socket is closed is dropped.
Drop == /\ SenderStep("send", "pop") /\ ~open[frame]
        /\ Incoming!Done /\ UNCHANGED <<ready, missed>>

SendFrame == /\ SenderStep("send", "test") /\ open[frame]
             /\ UNCHANGED <<ready, incoming, frame, missed>>

TestSlot == /\ SenderStep("test", IF ready[frame] THEN "wait" ELSE "fill")
            /\ UNCHANGED <<ready, incoming, frame, missed>>

Wait == SenderStep("wait", "waiting") /\ UNCHANGED <<ready, incoming, frame, missed>>

\* Mutant: `if` for `while`, the slot is not tested again after a wakeup.
WakeToFill == /\ SenderStep("waiting", "fill") /\ missed' = FALSE
              /\ UNCHANGED <<ready, incoming, frame>>

SpuriousWakeup == /\ SenderStep("waiting", "test") /\ missed' = FALSE
                  /\ UNCHANGED <<ready, incoming, frame>>

Fill == /\ SenderStep("fill", "pop")
        /\ ready' = [ready EXCEPT ![frame] = TRUE]
        /\ Incoming!Done /\ UNCHANGED missed

\* The thread comes round to find the slot full and the socket, open by then, writable.
Write(i) ==
  /\ ~Ended /\ link[i] = "loop" /\ ready[i] /\ open[i]
  /\ link' = [link EXCEPT ![i] = "sendto"]
  /\ UNCHANGED <<queueVars, pending, fires, inputs, announcing, main, open, isup, ready,
                 sendVars>>

\* sendto, free, and the slot is declared free.
Send(i) ==
  /\ ~Ended /\ link[i] = "sendto" /\ open[i]
  /\ ready' = [ready EXCEPT ![i] = FALSE]
  /\ link' = [link EXCEPT ![i] = "signal"]
  /\ UNCHANGED <<queueVars, pending, fires, inputs, announcing, main, open, isup, sendVars>>

\* The socket was closed in between: sendto fails, and free ends the process.
SendFailure(i) ==
  /\ ~Ended /\ link[i] = "sendto" /\ ~open[i]
  /\ main' = <<"ended">>
  /\ UNCHANGED <<queueVars, pending, fires, inputs, announcing, ifcVars, sendVars>>

\* Mutant: send_data does not signal.
SignalOmitted(i) ==
  /\ ~Ended /\ link[i] = "signal"
  /\ link' = [link EXCEPT ![i] = "loop"]
  /\ UNCHANGED <<queueVars, pending, fires, inputs, announcing, main, open, isup, ready,
                 sendVars>>

Signal(i) ==
  /\ ~Ended /\ link[i] = "signal"
  /\ link' = [link EXCEPT ![i] = "loop"]
  /\ IF frame = i /\ sender = "waiting"
     THEN sender' = "test" /\ missed' = FALSE
     ELSE missed' = (missed \/ (frame = i /\ sender = "wait")) /\ UNCHANGED sender
  /\ UNCHANGED <<queueVars, pending, fires, inputs, announcing, main, open, isup, ready,
                 incoming, frame>>

-----------------------------------------------------------------------------
RipThread == RipPops \/ RipReturns \/ Announce("rip")
MainThread == Announce("main") \/ \E i \in Ifc : DownDone(i) \/ UpDone(i)
InThread == PopMessage \/ Drop \/ SendFrame \/ TestSlot \/ Wait \/ Fill
SendData(i) == Send(i) \/ SendFailure(i) \/ Signal(i)

RipWakes == /\ Runs("rip") /\ WakeCv(Rip)
            /\ UNCHANGED <<pending, fires, inputs, announcing, main, ifcVars, sendVars>>

Next ==
  \/ \E e \in Item : Fire(e) \/ \E h \in Host : Deliver(e, h)
  \/ \E h \in Host : Handle(h)
  \/ RipThread \/ MainThread \/ Announce("out") \/ InThread \/ Inputs
  \/ \E i \in Ifc : Write(i) \/ SendData(i)
  \/ RipWakes \/ SpuriousWakeup

\* Signals are delivered and threads run; while handlers wait for the mutex and it is
\* free again and again, one of them gets it, though the RIP thread takes it whenever a
\* wait ends without a signal.  An interface's thread ends send_data once it is there, but
\* need not get there: LinkLayer shows it waiting for good in select, after commands
\* (UpInterfaceSends), or in recvfrom, after a packet longer than MAXBUFF.
Fairness ==
  /\ WF_vars(\E e \in Item, h \in Host : Deliver(e, h))
  /\ SF_vars(\E h \in Host : Handle(h))
  /\ WF_vars(RipThread) /\ WF_vars(InThread)
  /\ \A i \in Ifc : WF_vars(SendData(i))

PipelineSpec == Init /\ [][Next]_vars

FairSpec == PipelineSpec /\ Fairness

-----------------------------------------------------------------------------
(* Properties.                                                             *)

\* A handler on the RIP thread waits for the mutex that this thread holds in pop.
HandlerStuck == "rip" \in Host /\ at[Handler("rip")] = "lock to push" /\ _mlock = Rip

\* The thread that sends for all interfaces waits for the slot of one whose thread does
\* not empty it.
BehindFullSlot == sender \in {"test", "wait", "waiting"} /\ ready[frame]

\* No event is with a timer, a handler or _timerQueue.
AllHandled == pending = {} /\ _q = <<>> /\ \A h \in Host : at[Handler(h)] = "outside"

\* Timer events are handled as long as the process lives, whatever becomes of the
\* messages, unless a handler has interrupted pop between its lock and its unlock: the
\* update_refresh_rt loop misses no wakeup, and pushing from several threads at once
\* loses none.
TimerEventsHandled == []<>AllHandled \/ <>[]HandlerStuck \/ <>Ended

\* What src/README.md:20-21 says of the two timers, "These timer events are handled by
\* their signal handlers": as long as the process lives, each is, after it has expired.
TimersHandled == []<>AllHandled \/ <>Ended

\* What is pushed to _incomingqueue leaves it and its thread gets through send_frame,
\* unless it waits for a slot that stays full, has missed the one signal it will get, is
\* interrupted by a handler that is stuck, or the process ends: send_frame never stays
\* behind a slot that has been emptied for any other reason, and a message dropped or
\* sent never keeps those behind it.
MessagesLeave ==
  \/ []<>(incoming = <<>> /\ sender = "pop")
  \/ <>[]BehindFullSlot \/ <>[]missed \/ <>[]HandlerStuck \/ <>Ended

\* send_frame waits for a reason: the slot it has found full is full still, or it has
\* been emptied and the signal is to come, or that signal came too early (send_data
\* takes no mutex).  No other way of waiting for an empty slot exists, whatever thread
\* fills, empties or signals, and whatever the commands do.
WakeupOwed ==
  sender \in {"wait", "waiting"} => ready[frame] \/ link[frame] = "signal" \/ missed

\* The slot of interface i, and what the thread that fills all slots does about it.
Giver(i) == IF Ended THEN "ended"
            ELSE IF frame = i /\ sender \notin {"pop", "send"} THEN sender ELSE "away"

Hand(i) == INSTANCE HandOver WITH
             full <- ready[i], signalling <- link[i] = "signal" /\ ~Ended,
             giver <- Giver(i)

\* Each interface's slot changes hands as HandOver says, as in LinkLayer: though one
\* thread fills all slots, it leaves the one it waits for only with its frame in it.
SlotsHandedOver ==
  /\ \A i \in Ifc : Hand(i)!Init
  /\ [][\A i \in Ifc : [Hand(i)!Next]_(Hand(i)!vars)]_vars

=============================================================================
