------------------------ MODULE UpdatePipelineProofs ------------------------
(***************************************************************************)
(* Proofs about UpdatePipeline, for any number of interfaces, timers and   *)
(* inputs.                                                                 *)
(***************************************************************************)
EXTENDS UpdatePipeline, MessageQueueProofs

\* The steps that leave _timerQueue alone.
LEMMA OtherSteps ==
  ASSUME \/ \E e \in Item : Fire(e)
         \/ \E t \in Announcer : Announce(t)
         \/ \E i \in Ifc : Down(i) \/ DownDone(i) \/ Up(i) \/ UpDone(i) \/ Push(i)
         \/ Request \/ InThread \/ SpuriousWakeup
         \/ \E i \in Ifc : Write(i) \/ SendData(i)
  PROVE  UNCHANGED queueVars
<1>1. ASSUME NEW t \in Announcer, Announce(t)
      PROVE  UNCHANGED queueVars
  BY <1>1 DEF Announce
<1>2. ASSUME NEW i \in Ifc, Down(i) \/ DownDone(i) \/ Up(i) \/ UpDone(i) \/ Push(i)
      PROVE  UNCHANGED queueVars
  BY <1>2 DEF Down, DownDone, Up, UpDone, Push
<1>3. CASE InThread \/ SpuriousWakeup
  BY <1>3 DEF InThread, PopMessage, Drop, SendFrame, TestSlot, Wait, Fill, SpuriousWakeup,
              SenderStep
<1>4. ASSUME NEW i \in Ifc, Write(i) \/ SendData(i)
      PROVE  UNCHANGED queueVars
  BY <1>4 DEF Write, SendData, Send, SendFailure, Signal
<1> QED
  BY <1>1, <1>2, <1>3, <1>4 DEF Fire, Request

LEMMA CallersDiffer == Rip \in Caller /\ \A h \in Host : Handler(h) \in Caller \ {Rip}
  BY PipelineAssumption DEF Callers, Rip, Handler

\* Who does what to _timerQueue; the RIP thread does not move while a handler runs on it.
LEMMA PipelineQueueSteps ==
  ASSUME [Next]_vars
  PROVE  \/ \E g \in Host : Pushing(Handler(g)) \/ \E e \in Item : CallPush(Handler(g), e)
         \/ Runs("rip") /\ (CallPop(Rip) \/ Popping(Rip) \/ WakeCv(Rip))
         \/ UNCHANGED queueVars
<1>1. CASE \E e \in Item : \E g \in Host : Deliver(e, g)
  BY <1>1 DEF Deliver
<1>2. CASE \E g \in Host : Handle(g)
  BY <1>2 DEF Handle
<1>3. CASE RipPops \/ RipReturns \/ RipWakes
  BY <1>3 DEF RipPops, RipReturns, RipWakes, Popping
<1>4. CASE MainThread \/ Announce("out") \/ Announce("rip")
  BY <1>4, OtherSteps DEF MainThread, Announcer
<1>5. CASE Inputs
  BY <1>5, OtherSteps, PipelineAssumption DEF Inputs
<1>6. CASE \/ \E e \in Item : Fire(e)
           \/ InThread \/ SpuriousWakeup \/ \E i \in Ifc : Write(i) \/ SendData(i)
  BY <1>6, OtherSteps
<1>7. CASE UNCHANGED vars
  BY <1>7 DEF vars
<1> QED
  BY <1>1, <1>2, <1>3, <1>4, <1>5, <1>6, <1>7 DEF Next, RipThread

\* The handlers and the RIP thread use _timerQueue through push and pop only.
LEMMA NextIsQueueStep == [Next]_vars => [QueueNext]_queueVars
<1> SUFFICES ASSUME [Next]_vars
             PROVE  QueueNext \/ UNCHANGED queueVars
  OBVIOUS
<1>1. ASSUME NEW g \in Host, Pushing(Handler(g)) \/ \E e \in Item : CallPush(Handler(g), e)
      PROVE  QueueNext
  BY <1>1, CallersDiffer DEF QueueNext
<1>2. CASE CallPop(Rip) \/ Popping(Rip) \/ WakeCv(Rip)
  BY <1>2, CallersDiffer DEF QueueNext
<1> QED
  BY <1>1, <1>2, PipelineQueueSteps

LEMMA PipelineIsQueue == PipelineSpec => QueueSpec
<1>1. Init => QueueInit
  BY DEF Init
<1> QED
  BY <1>1, NextIsQueueStep, PTL DEF PipelineSpec, QueueSpec

\* No timer event is lost, repeated or overtaken in _timerQueue, whichever threads the
\* handlers interrupt and however many of them push at a time.
THEOREM OldestFirstCorrect == PipelineSpec => OldestFirst
  BY PipelineIsQueue, QueueRefinement

-----------------------------------------------------------------------------
(* Types.                                                                  *)

LEMMA InitPipeline == Init => TypeOK
<1> SUFFICES ASSUME Init PROVE TypeOK
  OBVIOUS
<1>1. QueueTypeOK
  BY InitQueue DEF Init, QueueInv
<1>2. incoming \in Seq(Ifc) /\ frame \in Ifc \cup {Nothing}
  <2>1. ASSUME NEW i \in Routed
        PROVE  <<i>> \in Seq(Ifc)
    BY PipelineAssumption
  <2> QED
    BY <2>1, EmptySeq DEF Init
<1>3. /\ fires \in [Item -> 0 .. MaxFires] /\ inputs \in 0 .. MaxInputs
      /\ announcing \in [Announcer -> 0 .. LastIfc]
  BY PipelineAssumption DEF Init
<1>4. /\ open \in [Ifc -> BOOLEAN] /\ isup \in [Ifc -> BOOLEAN]
      /\ ready \in [Ifc -> BOOLEAN] /\ link \in [Ifc -> {"loop", "sendto", "signal"}]
  BY DEF Init
<1> QED
  BY <1>1, <1>2, <1>3, <1>4 DEF Init, TypeOK, Command

\* Put and Take keep what is queued and handed out among the interfaces.
LEMMA PutTyped ==
  ASSUME incoming \in Seq(Ifc), NEW i \in Ifc, Incoming!Put(i)
  PROVE  incoming' \in Seq(Ifc) /\ frame' = frame
  BY AppendProperties DEF Incoming!Put

LEMMA TakeTyped ==
  ASSUME incoming \in Seq(Ifc), Incoming!Take
  PROVE  incoming' \in Seq(Ifc) /\ frame' \in Ifc
  BY HeadTailProperties DEF Incoming!Take

LEMMA NextPipeline == TypeOK /\ QueueTypeOK' /\ [Next]_vars => TypeOK'
<1> SUFFICES ASSUME TypeOK, QueueTypeOK', [Next]_vars
             PROVE  TypeOK'
  OBVIOUS
<1> USE PipelineAssumption DEF TypeOK, ifcVars, sendVars, Idle
<1>1. ASSUME NEW e \in Item, Fire(e)
      PROVE  TypeOK'
  BY <1>1 DEF Fire
<1>2. ASSUME NEW e \in Item, NEW h \in Host, Deliver(e, h)
      PROVE  TypeOK'
  BY <1>2 DEF Deliver
<1>3. ASSUME NEW h \in Host, Handle(h)
      PROVE  TypeOK'
  BY <1>3 DEF Handle
<1>4. CASE RipPops \/ RipWakes
  BY <1>4 DEF RipPops, RipWakes
<1>5. CASE RipReturns
  BY <1>5 DEF RipReturns, Ifc, Announcer
<1>6. ASSUME NEW t \in Announcer, Announce(t)
      PROVE  TypeOK'
  <2>1. announcing[t] \in Ifc
    BY <1>6 DEF Announce, Ifc
  <2>2. announcing' \in [Announcer -> 0 .. LastIfc]
    BY <1>6, <2>1 DEF Announce, Ifc
  <2>3. incoming' \in Seq(Ifc) /\ frame' = frame
    BY <1>6, <2>1, PutTyped DEF Announce
  <2> QED
    BY <1>6, <2>2, <2>3 DEF Announce
<1>7. ASSUME NEW i \in Ifc, Down(i) \/ Up(i)
      PROVE  TypeOK'
  <2>1. main' \in {"up", "down"} \X Ifc
    <3>1. <<"down", i>> \in {"up", "down"} \X Ifc /\ <<"up", i>> \in {"up", "down"} \X Ifc
      OBVIOUS
    <3> QED
      BY <1>7, <3>1, Zenon DEF Down, Up
  <2>2. open' = [open EXCEPT ![i] = FALSE] \/ open' = [open EXCEPT ![i] = TRUE]
    BY <1>7, Zenon DEF Down, Up
  <2>3. inputs < MaxInputs /\ inputs' = inputs + 1
    BY <1>7, Zenon DEF Down, Up
  <2>4. /\ pending' = pending /\ fires' = fires /\ announcing' = announcing
        /\ isup' = isup /\ ready' = ready /\ link' = link
        /\ incoming' = incoming /\ frame' = frame /\ sender' = sender /\ missed' = missed
    BY <1>7 DEF Down, Up
  <2>5. main' \in Command
    BY <2>1, Zenon DEF Command
  <2>6. open' \in [Ifc -> BOOLEAN]
    BY <2>2, Zenon
  <2>7. inputs' \in 0 .. MaxInputs
    BY <2>3
  <2> QED
    BY <2>4, <2>5, <2>6, <2>7
<1>8. ASSUME NEW i \in Ifc, DownDone(i) \/ UpDone(i)
      PROVE  TypeOK'
  <2>1. main' = <<"idle">>
    BY <1>8, Zenon DEF DownDone, UpDone
  <2>2. isup' = [isup EXCEPT ![i] = FALSE] \/ isup' = [isup EXCEPT ![i] = TRUE]
    BY <1>8, Zenon DEF DownDone, UpDone
  <2>3. announcing' = [announcing EXCEPT !["main"] = 1] \/ announcing' = announcing
    BY <1>8, Zenon DEF DownDone, UpDone
  <2>4. announcing' \in [Announcer -> 0 .. LastIfc]
    BY <2>3 DEF Announcer
  <2>5. /\ pending' = pending /\ fires' = fires /\ inputs' = inputs
        /\ open' = open /\ ready' = ready /\ link' = link
        /\ incoming' = incoming /\ frame' = frame /\ sender' = sender /\ missed' = missed
    BY <1>8 DEF DownDone, UpDone
  <2>6. main' \in Command
    BY <2>1, Zenon DEF Command
  <2>7. isup' \in [Ifc -> BOOLEAN]
    BY <2>2, Zenon
  <2> QED
    BY <2>4, <2>5, <2>6, <2>7
<1>9. CASE Request
  BY <1>9 DEF Request, Ifc, Announcer
<1>10. ASSUME NEW i \in Ifc, Push(i)
       PROVE  TypeOK'
  <2>1. incoming' \in Seq(Ifc) /\ frame' = frame
    BY <1>10, PutTyped DEF Push
  <2> QED
    BY <1>10, <2>1 DEF Push
<1>11. CASE InThread
  <2>1. CASE PopMessage
    BY <2>1, TakeTyped DEF PopMessage
  <2>2. CASE Drop \/ Fill
    BY <2>2 DEF Drop, Fill, SenderStep, Incoming!Done
  <2>3. CASE SendFrame \/ TestSlot \/ Wait
    BY <2>3 DEF SendFrame, TestSlot, Wait, SenderStep
  <2> QED
    BY <1>11, <2>1, <2>2, <2>3 DEF InThread
<1>12. CASE SpuriousWakeup
  BY <1>12 DEF SpuriousWakeup, SenderStep
<1>13. ASSUME NEW i \in Ifc, Write(i) \/ SendData(i)
       PROVE  TypeOK'
  <2>1. CASE Write(i) \/ Send(i) \/ Signal(i)
    BY <2>1 DEF Write, Send, Signal
  <2>2. CASE SendFailure(i)
    BY <2>2 DEF SendFailure, Command
  <2> QED
    BY <1>13, <2>1, <2>2 DEF SendData
<1>14. CASE UNCHANGED vars
  BY <1>14 DEF vars
<1> QED
  BY <1>1, <1>2, <1>3, <1>4, <1>5, <1>6, <1>7, <1>8, <1>9, <1>10, <1>11, <1>12, <1>13, <1>14
     DEF Next, RipThread, MainThread, Inputs, Announcer

\* The way of an update keeps its types, whatever the number of interfaces and timers.
THEOREM PipelineTypeCorrect == PipelineSpec => []TypeOK
<1>1. TypeOK => QueueTypeOK
  BY DEF TypeOK
<1> QED
  BY <1>1, InitPipeline, NextPipeline, PipelineIsQueue, QueueTypeCorrect, PTL DEF PipelineSpec

-----------------------------------------------------------------------------
(* What becomes of an event.                                               *)

LEMMA QueueInvInPipeline == PipelineSpec => []QueueInv
  BY PipelineIsQueue, QueueInvHolds

\* No wakeup of the RIP thread is lost, whichever threads the handlers interrupt.
THEOREM PipelineNoLostWakeup == PipelineSpec => []NoLostWakeup
  BY PipelineIsQueue, NoLostWakeupCorrect

\* A handler only pushes.
HandlersPush == \A h \in Host : at[Handler(h)] \in PushStep \cup {"outside"}

LEMMA HandlerPushes ==
  ASSUME QueueTypeOK, [Next]_vars, NEW c \in Caller, c # Rip,
         at[c] \in PushStep \cup {"outside"}
  PROVE  at'[c] \in PushStep \cup {"outside"}
<1>1. at \in [Caller -> PushStep \cup PopStep \cup {"outside"}]
  BY DEF QueueTypeOK
<1>2. ASSUME NEW d \in Caller, Pushing(d)
      PROVE  at'[c] \in PushStep \cup {"outside"}
  <2>1. CASE SignalCv(d)
    BY <1>1, <2>1 DEF SignalCv, PushStep
  <2> QED
    BY <1>1, <1>2, <2>1
       DEF Pushing, LockToPush, FindEnd, Store, UnlockPushed, Goto, PushStep
<1>3. ASSUME NEW d \in Caller, NEW e \in Item, CallPush(d, e)
      PROVE  at'[c] \in PushStep \cup {"outside"}
  BY <1>1, <1>3 DEF CallPush, Goto, PushStep
<1>4. CASE CallPop(Rip) \/ Popping(Rip) \/ WakeCv(Rip)
  BY <1>1, <1>4
     DEF CallPop, Popping, LockToPop, WaitCv, Front, Remove, UnlockPopped, WakeCv, Goto
<1>5. CASE UNCHANGED queueVars
  BY <1>1, <1>5 DEF queueVars
<1> QED
  BY <1>2, <1>3, <1>4, <1>5, PipelineQueueSteps, CallersDiffer

LEMMA NextHandlers == QueueTypeOK /\ HandlersPush /\ [Next]_vars => HandlersPush'
  BY HandlerPushes, CallersDiffer DEF HandlersPush

\* An event in _timerQueue for which the RIP thread waits has its handler at the signal.
EventHeard ==
  at[Rip] = "wait" /\ _q # <<>> => \E h \in Host : at[Handler(h)] = "signal"

\* The RIP thread never sleeps over an event: while it waits and _timerQueue is not
\* empty, the handler that has stored the last event has yet to signal.
THEOREM EventHeardCorrect == PipelineSpec => []EventHeard
<1>1. Init => HandlersPush
  BY CallersDiffer DEF Init, QueueInit, HandlersPush
<1>2. PipelineSpec => []HandlersPush
  <2>1. QueueInv => QueueTypeOK
    BY DEF QueueInv
  <2> QED
    BY <1>1, <2>1, NextHandlers, QueueInvInPipeline, PTL DEF PipelineSpec
<1>3. QueueInv /\ HandlersPush /\ NoLostWakeup => EventHeard
  <2> SUFFICES ASSUME QueueInv, HandlersPush, NoLostWakeup, at[Rip] = "wait", _q # <<>>
               PROVE  \E h \in Host : at[Handler(h)] = "signal"
    BY DEF EventHeard
  <2>1. Len(_q) \in Nat \ {0} /\ Len(_q) <= Cardinality(Active)
    BY EmptySeq, LenProperties, CallersDiffer DEF QueueInv, QueueTypeOK, NoLostWakeup
  <2>2. Active # {}
    BY <2>1, FS_EmptySet
  <2>3. PICK c \in Caller : at[c] \in {"signal", "lock to pop", "test", "remove"}
    BY <2>2 DEF Active
  <2>4. PICK h \in Host : c = Handler(h)
    BY <2>3, PipelineAssumption DEF Callers
  <2> QED
    BY <2>3, <2>4 DEF HandlersPush, PushStep
<1> QED
  BY <1>2, <1>3, QueueInvInPipeline, PipelineNoLostWakeup, PTL

-----------------------------------------------------------------------------
(* The slots.                                                              *)

\* What the sender is doing, and to whom it owes the slot's signal; an interface's thread
\* that goes on to send still finds the slot full.
SenderInv ==
  /\ sender # "pop" => frame \in Ifc
  /\ sender = "fill" => ~ready[frame]
  /\ missed => sender \in {"wait", "waiting"}
  /\ \A i \in Ifc : link[i] = "sendto" => ready[i]
  /\ WakeupOwed

LEMMA NextSender == TypeOK /\ SenderInv /\ [Next]_vars => SenderInv'
<1> SUFFICES ASSUME TypeOK, SenderInv, [Next]_vars
             PROVE  SenderInv'
  OBVIOUS
<1>1. /\ frame \in Ifc \cup {Nothing} /\ missed \in BOOLEAN
      /\ ready \in [Ifc -> BOOLEAN] /\ link \in [Ifc -> {"loop", "sendto", "signal"}]
  BY DEF TypeOK
<1> USE DEF SenderInv, WakeupOwed
<1>2. CASE PopMessage
  BY <1>2, TakeTyped DEF PopMessage, TypeOK, ifcVars
<1>3. CASE Drop \/ SendFrame \/ TestSlot \/ Wait \/ SpuriousWakeup
  BY <1>1, <1>3 DEF Drop, SendFrame, TestSlot, Wait, SpuriousWakeup, SenderStep
<1>4. CASE Fill
  BY <1>1, <1>4 DEF Fill, SenderStep
<1>5. ASSUME NEW i \in Ifc, Send(i)
      PROVE  SenderInv'
  <2>1. /\ ready' = [ready EXCEPT ![i] = FALSE] /\ link' = [link EXCEPT ![i] = "signal"]
        /\ UNCHANGED <<sender, frame, missed>>
    BY <1>5 DEF Send, sendVars
  <2> QED
    BY <1>1, <2>1
<1>6. ASSUME NEW i \in Ifc, Signal(i)
      PROVE  SenderInv'
  <2>1. /\ link' = [link EXCEPT ![i] = "loop"] /\ UNCHANGED <<frame, ready>>
    BY <1>6 DEF Signal
  <2>2. CASE frame = i /\ sender = "waiting"
    BY <1>1, <1>6, <2>1, <2>2 DEF Signal
  <2>3. CASE ~(frame = i /\ sender = "waiting")
    <3>1. missed' = (missed \/ (frame = i /\ sender = "wait")) /\ sender' = sender
      BY <1>6, <2>3 DEF Signal
    <3> QED
      BY <1>1, <2>1, <2>3, <3>1
  <2> QED
    BY <2>2, <2>3
<1>7. ASSUME NEW i \in Ifc, Write(i)
      PROVE  SenderInv'
  <2>1. /\ ready[i] /\ link[i] = "loop" /\ link' = [link EXCEPT ![i] = "sendto"]
        /\ UNCHANGED <<ready, sender, frame, missed>>
    BY <1>7 DEF Write, sendVars
  <2> QED
    BY <1>1, <2>1
<1>8. ASSUME NEW i \in Ifc, SendFailure(i)
      PROVE  SenderInv'
  BY <1>8 DEF SendFailure, ifcVars, sendVars
<1>9. CASE \/ \E e \in Item : Fire(e) \/ \E h \in Host : Deliver(e, h)
           \/ \E h \in Host : Handle(h)
           \/ RipPops \/ RipReturns \/ RipWakes \/ UNCHANGED vars
  BY <1>9 DEF Fire, Deliver, Handle, RipPops, RipReturns, RipWakes, vars, ifcVars, sendVars
<1>10. ASSUME NEW t \in Announcer, Announce(t)
      PROVE  SenderInv'
  BY <1>10 DEF Announce, ifcVars, Incoming!Put
<1>11. ASSUME NEW i \in Ifc, Down(i) \/ DownDone(i) \/ Up(i) \/ UpDone(i) \/ Push(i)
      PROVE  SenderInv'
  BY <1>11 DEF Down, DownDone, Up, UpDone, Push, ifcVars, sendVars, Incoming!Put
<1>12. CASE Request
  BY <1>12 DEF Request, ifcVars, sendVars
<1> QED
  BY <1>2, <1>3, <1>4, <1>5, <1>6, <1>7, <1>8, <1>9, <1>10, <1>11, <1>12, PipelineAssumption
     DEF Next, RipThread, MainThread, InThread, SendData, Inputs, Announcer

LEMMA SenderInvHolds == PipelineSpec => []SenderInv
<1>1. Init => SenderInv
  BY DEF Init, SenderInv, WakeupOwed
<1> QED
  BY <1>1, NextSender, PipelineTypeCorrect, PTL DEF PipelineSpec

\* send_frame never waits for an empty slot unless the signal is to come or has come
\* between its test and its wait.
THEOREM WakeupOwedCorrect == PipelineSpec => []WakeupOwed
<1>1. SenderInv => WakeupOwed
  BY DEF SenderInv
<1> QED
  BY <1>1, SenderInvHolds, PTL

\* Every step is a step of each interface's hand-over or leaves it alone: the sender
\* concerns itself with one slot at a time, and has found it free when it fills it.
LEMMA NextHandsOver ==
  ASSUME TypeOK, SenderInv, [Next]_vars, NEW i \in Ifc
  PROVE  [Hand(i)!Next]_(Hand(i)!vars)
<1>1. /\ frame \in Ifc \cup {Nothing} /\ Nothing \notin Ifc
      /\ ready \in [Ifc -> BOOLEAN] /\ link \in [Ifc -> {"loop", "sendto", "signal"}]
  BY PipelineAssumption DEF TypeOK
<1> SUFFICES Hand(i)!Next \/ UNCHANGED Hand(i)!vars
  OBVIOUS
<1>2. CASE UNCHANGED <<ready, link, frame, sender, main>>
  BY <1>2 DEF Hand!vars, Giver, Ended
\* As long as the process goes on.
<1> DEFINE Busy(f, s) == IF f = i /\ s \notin {"pop", "send"} THEN s ELSE "away"
<1>3. ~Ended => Giver(i) = Busy(frame, sender)
  BY DEF Giver
<1>4. ~Ended' => Giver(i)' = Busy(frame', sender')
  BY DEF Giver
<1>5. CASE UNCHANGED <<ready, link, frame, sender>> /\ ~Ended /\ ~Ended'
  BY <1>3, <1>4, <1>5 DEF Hand!vars
<1>6. CASE PopMessage \/ Drop
  <2>1. ~Ended /\ ~Ended' /\ UNCHANGED <<ready, link>>
    BY <1>6 DEF PopMessage, Drop, SenderStep, Runs, Ended, ifcVars
  <2>2. sender \in {"pop", "send"} /\ sender' \in {"pop", "send"}
    BY <1>6 DEF PopMessage, Drop, SenderStep
  <2> QED
    BY <1>3, <1>4, <2>1, <2>2 DEF Hand!vars
<1>7. CASE SendFrame \/ TestSlot \/ Wait \/ SpuriousWakeup
  <2>1. ~Ended /\ ~Ended' /\ UNCHANGED <<ready, link, frame>>
    BY <1>7 DEF SendFrame, TestSlot, Wait, SpuriousWakeup, SenderStep, Runs, Ended
  <2>2. \/ sender = "send" /\ sender' = "test"
        \/ sender = "test" /\ sender' = IF ready[frame] THEN "wait" ELSE "fill"
        \/ sender = "wait" /\ sender' = "waiting"
        \/ sender = "waiting" /\ sender' = "test"
    BY <1>7 DEF SendFrame, TestSlot, Wait, SpuriousWakeup, SenderStep
  <2> QED
    BY <1>3, <1>4, <2>1, <2>2
       DEF Hand!vars, Hand!Next, Hand!Move, Hand!Call, Hand!Test, Hand!Wait, Hand!Wake
<1>8. CASE Fill
  <2>1. ~Ended /\ ~Ended' /\ UNCHANGED link
    BY <1>8 DEF Fill, SenderStep, Runs, Ended
  <2>2. /\ sender = "fill" /\ sender' = "pop"
        /\ frame \in Ifc /\ ~ready[frame] /\ ready' = [ready EXCEPT ![frame] = TRUE]
    BY <1>8 DEF Fill, SenderStep, SenderInv
  <2> QED
    BY <1>1, <1>3, <1>4, <2>1, <2>2 DEF Hand!Next, Hand!Fill, Hand!Move, Hand!vars
<1>9. ASSUME NEW j \in Ifc, Write(j)
      PROVE  UNCHANGED Hand(i)!vars
  <2>1. ~Ended /\ ~Ended' /\ UNCHANGED <<ready, frame, sender>>
    BY <1>9 DEF Write, Ended, sendVars
  <2>2. link[j] = "loop" /\ link' = [link EXCEPT ![j] = "sendto"]
    BY <1>9 DEF Write
  <2> QED
    BY <1>1, <1>3, <1>4, <2>1, <2>2 DEF Hand!vars
<1>10. ASSUME NEW j \in Ifc, Send(j)
       PROVE  Hand(i)!Next \/ UNCHANGED Hand(i)!vars
  <2>1. ~Ended /\ ~Ended' /\ UNCHANGED <<sender, frame>>
    BY <1>10 DEF Send, Ended, sendVars
  <2>2. /\ link[j] = "sendto" /\ ready' = [ready EXCEPT ![j] = FALSE]
        /\ link' = [link EXCEPT ![j] = "signal"]
    BY <1>10 DEF Send
  <2>3. ready[j]
    BY <1>10 DEF SenderInv, Send
  <2> QED
    BY <1>1, <1>3, <1>4, <2>1, <2>2, <2>3 DEF Hand!Next, Hand!Empty, Hand!vars
<1>11. ASSUME NEW j \in Ifc, SendFailure(j)
       PROVE  Hand(i)!Next
  <2>1. Giver(i)' = "ended" /\ Ended' /\ UNCHANGED ready
    BY <1>11 DEF SendFailure, Giver, Ended, ifcVars
  <2> QED
    BY <2>1 DEF Hand!Next, Hand!End
<1>12. ASSUME NEW j \in Ifc, Signal(j)
       PROVE  Hand(i)!Next \/ UNCHANGED Hand(i)!vars
  <2>1. ~Ended /\ ~Ended' /\ UNCHANGED <<ready, frame>>
    BY <1>12 DEF Signal, Ended
  <2>2. /\ link[j] = "signal" /\ link' = [link EXCEPT ![j] = "loop"]
        /\ sender' = IF frame = j /\ sender = "waiting" THEN "test" ELSE sender
    BY <1>12 DEF Signal
  <2> QED
    BY <1>1, <1>3, <1>4, <2>1, <2>2 DEF Hand!Next, Hand!Signal, Hand!vars
<1>13. CASE \/ \E e \in Item : Fire(e) \/ \E h \in Host : Deliver(e, h)
            \/ \E h \in Host : Handle(h)
            \/ RipPops \/ RipReturns \/ RipWakes \/ Request \/ UNCHANGED vars
  BY <1>2, <1>13 DEF Fire, Deliver, Handle, RipPops, RipReturns, RipWakes, Request, vars,
                     ifcVars, sendVars
<1>14. ASSUME NEW t \in Announcer, Announce(t)
       PROVE  UNCHANGED <<ready, link, frame, sender, main>>
  BY <1>14 DEF Announce, ifcVars, Incoming!Put
<1>15. ASSUME NEW j \in Ifc, Down(j) \/ DownDone(j) \/ Up(j) \/ UpDone(j) \/ Push(j)
       PROVE  UNCHANGED <<ready, link, frame, sender>> /\ ~Ended /\ ~Ended'
  BY <1>15 DEF Down, DownDone, Up, UpDone, Push, ifcVars, sendVars, Incoming!Put, Idle, Runs,
               Ended
<1> QED
  BY <1>2, <1>5, <1>6, <1>7, <1>8, <1>9, <1>10, <1>11, <1>12, <1>13, <1>14, <1>15,
     PipelineAssumption
     DEF Next, RipThread, MainThread, InThread, SendData, Inputs, Announcer

\* For any number of interfaces and whatever the commands do, each slot is handed over
\* as in LinkLayer, though one thread fills them all.
THEOREM SlotsHandedOverCorrect == PipelineSpec => SlotsHandedOver
<1>1. Init => \A i \in Ifc : Hand(i)!Init
  BY DEF Init, Hand!Init, Giver, Ended
<1>2. TypeOK /\ SenderInv /\ [Next]_vars => \A i \in Ifc : [Hand(i)!Next]_(Hand(i)!vars)
  BY NextHandsOver
<1> QED
  BY <1>1, <1>2, SenderInvHolds, PipelineTypeCorrect, PTL DEF PipelineSpec, SlotsHandedOver

=============================================================================
