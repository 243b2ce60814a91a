------------------------- MODULE MessageQueueProofs -------------------------
(***************************************************************************)
(* Proofs about MessageQueue, for any callers and items.                   *)
(***************************************************************************)
EXTENDS MessageQueue, SequenceTheorems, FiniteSetTheorems, TLAPS

\* Where a caller holds _mlock.
Critical == {"push", "store", "signal", "unlock pushed", "test", "remove", "unlock popped"}

\* What a caller holds is what it knows: at most one is between lock and unlock, so
\* the queue is as push has found it and its head as front has returned it.
QueueInv ==
  /\ QueueTypeOK
  /\ \A c \in Caller : at[c] \in Critical <=> _mlock = c
  /\ \A c \in Caller : at[c] \in {"lock to push", "push", "store"} => item[c] \in Item
  /\ \A c \in Caller : at[c] = "store" => seen[c] = _q
  /\ \A c \in Caller : at[c] = "remove" => _q # <<>> /\ item[c] = Head(_q)
  /\ returned = Nothing \/ \E c \in Caller : at[c] = "unlock popped"

LEMMA InitQueue == QueueInit => QueueInv
  BY CallerAssumption
     DEF QueueInit, QueueInv, QueueTypeOK, Critical, PushStep, PopStep

LEMMA NextQueue == QueueInv /\ [QueueNext]_queueVars => QueueInv'
<1> SUFFICES ASSUME QueueInv, [QueueNext]_queueVars
             PROVE  QueueInv'
  OBVIOUS
<1> USE CallerAssumption
    DEF QueueInv, QueueTypeOK, Critical, PushStep, PopStep, Goto, Acquire, Release
<1>1. ASSUME NEW c \in Caller, CallPop(c) \/ WakeCv(c) \/ LockToPop(c) \/ WaitCv(c)
      PROVE  QueueInv'
  BY <1>1 DEF CallPop, WakeCv, LockToPop, WaitCv
<1>2. ASSUME NEW c \in Caller, NEW x \in Item, CallPush(c, x)
      PROVE  QueueInv'
  BY <1>2 DEF CallPush
<1>3. ASSUME NEW c \in Caller, LockToPush(c) \/ FindEnd(c) \/ UnlockPushed(c)
      PROVE  QueueInv'
  <2>1. CASE LockToPush(c)
    BY <2>1 DEF LockToPush
  <2>2. CASE FindEnd(c)
    BY <2>2 DEF FindEnd
  <2>3. CASE UnlockPushed(c)
    BY <2>3 DEF UnlockPushed
  <2> QED
    BY <1>3, <2>1, <2>2, <2>3
<1>4. ASSUME NEW c \in Caller, Store(c)
      PROVE  QueueInv'
  <2>1. _q' \in Seq(Item)
    BY <1>4, AppendProperties DEF Store
  <2>2. _mlock = c /\ \A d \in Caller \ {c} : at[d] \notin Critical
    BY <1>4 DEF Store
  <2>3. at' = [at EXCEPT ![c] = "signal"] /\ seen' = [seen EXCEPT ![c] = <<>>]
    BY <1>4 DEF Store
  <2>4. seen' \in [Caller -> Seq(Item)]
    <3>1. <<>> \in Seq(Item)
      BY EmptySeq
    <3> QED
      BY <2>3, <3>1
  <2>5. QueueTypeOK'
    BY <1>4, <2>1, <2>3, <2>4 DEF Store
  <2> QED
    BY <1>4, <2>2, <2>3, <2>5 DEF Store
<1>5. ASSUME NEW c \in Caller, SignalCv(c)
      PROVE  QueueInv'
  <2>1. UNCHANGED <<_q, _mlock, seen, item, returned>> /\ at[c] = "signal"
    BY <1>5 DEF SignalCv
  <2>2. CASE at' = [at EXCEPT ![c] = "unlock pushed"]
    BY <2>1, <2>2
  <2>3. ASSUME NEW w \in Caller, at[w] = "wait",
               at' = [at EXCEPT ![c] = "unlock pushed", ![w] = "lock to pop"]
        PROVE  QueueInv'
    <3>1. at' \in [Caller -> PushStep \cup PopStep \cup {"outside"}]
      BY <2>3
    <3>2. \A d \in Caller : at'[d] = IF d = w THEN "lock to pop"
                                     ELSE IF d = c THEN "unlock pushed" ELSE at[d]
      BY <2>3
    <3> QED
      BY <2>1, <2>3, <3>1, <3>2
  <2> QED
    BY <1>5, <2>2, <2>3 DEF SignalCv
<1>6. ASSUME NEW c \in Caller, Front(c)
      PROVE  QueueInv'
  <2>1. Head(_q) \in Item
    BY <1>6, HeadTailProperties DEF Front
  <2> QED
    BY <1>6, <2>1 DEF Front
<1>7. ASSUME NEW c \in Caller, Remove(c)
      PROVE  QueueInv'
  <2>1. Head(_q) \in Item /\ Tail(_q) \in Seq(Item)
    BY <1>7, HeadTailProperties DEF Remove
  <2> QED
    BY <1>7, <2>1 DEF Remove
<1>8. ASSUME NEW c \in Caller, UnlockPopped(c)
      PROVE  QueueInv'
  BY <1>8 DEF UnlockPopped
<1>9. CASE UNCHANGED queueVars
  BY <1>9 DEF queueVars
<1> QED
  BY <1>1, <1>2, <1>3, <1>4, <1>5, <1>6, <1>7, <1>8, <1>9 DEF QueueNext, Pushing, Popping

LEMMA QueueInvHolds == QueueSpec => []QueueInv
  BY InitQueue, NextQueue, PTL DEF QueueSpec

\* Every step of the queue is one of the abstract queue or leaves it alone.
LEMMA NextQueueRefines ==
  QueueInv /\ [QueueNext]_queueVars => [Queue!Next]_<<_q, returned>>
<1> SUFFICES ASSUME QueueInv, [QueueNext]_queueVars
             PROVE  Queue!Next \/ UNCHANGED <<_q, returned>>
  OBVIOUS
<1>1. ASSUME NEW c \in Caller, Store(c)
      PROVE  Queue!Next
  <2>1. Queue!Put(item[c]) /\ item[c] \in Item
    BY <1>1 DEF Store, Goto, QueueInv, Queue!Put
  <2> QED
    BY <2>1 DEF Queue!Next
<1>2. ASSUME NEW c \in Caller, Remove(c)
      PROVE  Queue!Next
  <2>1. returned = Nothing
    BY <1>2 DEF Remove, Goto, QueueInv, Critical
  <2>2. Queue!Take
    BY <1>2, <2>1 DEF Remove, Goto, QueueInv, Queue!Take
  <2> QED
    BY <2>2 DEF Queue!Next
<1>3. ASSUME NEW c \in Caller, UnlockPopped(c)
      PROVE  Queue!Next
  BY <1>3 DEF UnlockPopped, Queue!Done, Queue!Next
<1> QED
  BY <1>1, <1>2, <1>3
     DEF QueueNext, Pushing, Popping, CallPop, CallPush, LockToPush, FindEnd, SignalCv,
         UnlockPushed, LockToPop, WaitCv, Front, WakeCv, queueVars

\* MessageQueue keeps its types.
THEOREM QueueTypeCorrect == QueueSpec => []QueueTypeOK
<1>1. QueueInv => QueueTypeOK
  BY DEF QueueInv
<1> QED
  BY <1>1, QueueInvHolds, PTL

\* MessageQueue implements Fifo: whoever pushes and pops, what pop returns is the oldest
\* item, each once, although std::queue is not atomic.
THEOREM QueueRefinement == QueueSpec => OldestFirst
<1>1. QueueInit => Queue!Init
  BY DEF QueueInit, Queue!Init
<1> QED
  BY <1>1, NextQueueRefines, QueueInvHolds, PTL DEF QueueSpec, OldestFirst, Queue!Spec

-----------------------------------------------------------------------------
(* No wakeup is lost.                                                      *)

Waiting == {c \in Caller : at[c] = "wait"}

LEMMA ActiveFinite == IsFiniteSet(Active) /\ Cardinality(Active) \in Nat
<1>1. IsFiniteSet(Caller) /\ Active \in SUBSET Caller
  BY CallerAssumption DEF Active
<1> QED
  BY <1>1, FS_Subset, FS_CardinalityType

\* A step that makes c active, or no longer active, counts for one.
LEMMA ActiveAdds ==
  ASSUME NEW c, c \notin Active, Active' = Active \cup {c}
  PROVE  Cardinality(Active)' = Cardinality(Active) + 1
  BY ActiveFinite, FS_AddElement

LEMMA ActiveRemoves ==
  ASSUME NEW c, c \in Active, Active' = Active \ {c}
  PROVE  Cardinality(Active)' = Cardinality(Active) - 1
  BY ActiveFinite, FS_RemoveElement

\* A signal that wakes a pop hands its place among the active over to it.
LEMMA ActivePasses ==
  ASSUME NEW c, NEW w, c \in Active, w \notin Active,
         Active' = (Active \ {c}) \cup {w}
  PROVE  Cardinality(Active)' = Cardinality(Active)
<1>1. IsFiniteSet(Active \ {c}) /\ Cardinality(Active \ {c}) = Cardinality(Active) - 1
  BY ActiveFinite, FS_RemoveElement
<1>2. Cardinality(Active)' = Cardinality(Active \ {c}) + 1
  BY <1>1, FS_AddElement
<1> QED
  BY <1>1, <1>2, ActiveFinite

LEMMA NextWakeup ==
  QueueInv /\ NoLostWakeup /\ [QueueNext]_queueVars => NoLostWakeup'
<1> SUFFICES ASSUME QueueInv, NoLostWakeup, [QueueNext]_queueVars,
                    NEW d \in Caller, at'[d] = "wait"
             PROVE  Len(_q') <= Cardinality(Active)'
  BY DEF NoLostWakeup
<1>1. Cardinality(Active) \in Nat /\ Len(_q) \in Nat
  BY ActiveFinite, LenProperties DEF QueueInv, QueueTypeOK
<1>2. (\E c \in Caller : at[c] = "wait") => Len(_q) <= Cardinality(Active)
  BY DEF NoLostWakeup
<1>3. at \in [Caller -> PushStep \cup PopStep \cup {"outside"}]
  BY DEF QueueInv, QueueTypeOK
<1> USE DEF Goto
<1>4. ASSUME NEW c \in Caller,
             CallPop(c) \/ WakeCv(c)
      PROVE  Len(_q') <= Cardinality(Active)'
  <2>1. c \notin Active /\ Active' = Active \cup {c} /\ _q' = _q
    BY <1>3, <1>4 DEF CallPop, WakeCv, Active
  <2>2. Cardinality(Active)' = Cardinality(Active) + 1
    BY <2>1, ActiveAdds
  <2>3. \E w \in Caller : at[w] = "wait"
    BY <1>3, <1>4 DEF CallPop, WakeCv
  <2> QED
    BY <1>1, <1>2, <2>1, <2>2, <2>3
<1>5. ASSUME NEW c \in Caller,
             \/ \E x \in Item : CallPush(c, x)
             \/ LockToPush(c) \/ FindEnd(c) \/ UnlockPushed(c)
             \/ LockToPop(c) \/ Front(c) \/ UnlockPopped(c)
      PROVE  Len(_q') <= Cardinality(Active)'
  <2>1. Active' = Active /\ _q' = _q /\ at[d] = "wait"
    BY <1>3, <1>5 DEF CallPush, LockToPush, FindEnd, UnlockPushed, LockToPop, Front,
                      UnlockPopped, Active
  <2> QED
    BY <1>2, <2>1
<1>6. ASSUME NEW c \in Caller, Store(c)
      PROVE  Len(_q') <= Cardinality(Active)'
  <2>1. c \notin Active /\ Active' = Active \cup {c} /\ at[d] = "wait"
    BY <1>3, <1>6 DEF Store, Active
  <2>2. Cardinality(Active)' = Cardinality(Active) + 1
    BY <2>1, ActiveAdds
  <2>3. Len(_q') = Len(_q) + 1
    <3>1. _q \in Seq(Item) /\ item[c] \in Item /\ _q' = Append(_q, item[c])
      BY <1>6 DEF Store, QueueInv, QueueTypeOK
    <3> QED
      BY <3>1, AppendProperties
  <2> QED
    BY <1>1, <1>2, <2>1, <2>2, <2>3
<1>7. ASSUME NEW c \in Caller, SignalCv(c)
      PROVE  Len(_q') <= Cardinality(Active)'
  <2>1. at[c] = "signal" /\ _q' = _q
    BY <1>7 DEF SignalCv
  <2>2. CASE Waiting = {} /\ at' = [at EXCEPT ![c] = "unlock pushed"]
    BY <1>3, <2>2 DEF Waiting
  <2>3. ASSUME NEW w \in Waiting,
               at' = [at EXCEPT ![c] = "unlock pushed", ![w] = "lock to pop"]
        PROVE  Len(_q') <= Cardinality(Active)'
    <3>1. \A e \in Caller : at'[e] = IF e = w THEN "lock to pop"
                                     ELSE IF e = c THEN "unlock pushed" ELSE at[e]
      BY <1>3, <2>3 DEF Waiting
    <3>2. c \in Active /\ w \notin Active /\ Active' = (Active \ {c}) \cup {w}
      BY <2>1, <3>1 DEF Waiting, Active
    <3>3. Cardinality(Active)' = Cardinality(Active)
      BY <3>2, ActivePasses
    <3> QED
      BY <1>2, <2>1, <3>3 DEF Waiting
  <2> QED
    BY <1>7, <2>2, <2>3 DEF SignalCv, Waiting
<1>8. ASSUME NEW c \in Caller, WaitCv(c)
      PROVE  Len(_q') <= Cardinality(Active)'
  <2>1. _q' = <<>>
    BY <1>8 DEF WaitCv
  <2>2. Cardinality(Active)' \in Nat
    <3>1. at' \in [Caller -> PushStep \cup PopStep \cup {"outside"}]
      BY <1>3, <1>8 DEF WaitCv, PopStep
    <3>2. IsFiniteSet(Active') /\ Active' \subseteq Caller
      BY CallerAssumption, FS_Subset DEF Active
    <3> QED
      BY <3>2, FS_CardinalityType
  <2> QED
    BY <2>1, <2>2, EmptySeq
<1>9. ASSUME NEW c \in Caller, Remove(c)
      PROVE  Len(_q') <= Cardinality(Active)'
  <2>1. c \in Active /\ Active' = Active \ {c} /\ at[d] = "wait"
    BY <1>3, <1>9 DEF Remove, Active
  <2>2. Cardinality(Active)' = Cardinality(Active) - 1
    BY <2>1, ActiveRemoves
  <2>3. Len(_q') = Len(_q) - 1
    BY <1>9, HeadTailProperties DEF Remove, QueueInv, QueueTypeOK
  <2> QED
    BY <1>1, <1>2, <2>1, <2>2, <2>3
<1>10. CASE UNCHANGED queueVars
  BY <1>2, <1>10 DEF queueVars, Active
<1> QED
  BY <1>4, <1>5, <1>6, <1>7, <1>8, <1>9, <1>10 DEF QueueNext, Pushing, Popping

\* Whatever number of threads push and pop, and however often a wait ends without a
\* signal: no pop waits while there are more items than callers active for them.
THEOREM NoLostWakeupCorrect == QueueSpec => []NoLostWakeup
<1>1. QueueInit => NoLostWakeup
  BY DEF QueueInit, NoLostWakeup
<1> QED
  BY <1>1, NextWakeup, QueueInvHolds, PTL DEF QueueSpec

=============================================================================
