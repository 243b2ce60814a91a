---------------------------- MODULE MessageQueue ----------------------------
(***************************************************************************)
(* A MessageQueue<T> (MessageQueue.hh): a std::queue behind a mutex and a  *)
(* condition variable, with one action per call of the thread library and  *)
(* per access to the queue.  A caller is a thread or, for _timerQueue, a   *)
(* signal handler that runs on a thread.                                   *)
(***************************************************************************)
EXTENDS Sequences, FiniteSets, Naturals

CONSTANTS
  Caller,   \* who calls push and pop
  Item,     \* what is pushed
  Nobody,   \* the mutex is free
  Nothing   \* no item

ASSUME CallerAssumption == Nobody \notin Caller /\ IsFiniteSet(Caller)

VARIABLES
  _q,
  _mlock,   \* the caller that holds it, or Nobody
  seen,     \* _q as a push has found it
  at,       \* where each caller is in push or pop
  item,     \* the parameter of push, or pop's local variable, while there is one
  returned  \* what pop has taken out and returns

queueVars == <<_q, _mlock, seen, at, item, returned>>

PushStep == {"lock to push", "push", "store", "signal", "unlock pushed"}
PopStep == {"lock to pop", "test", "wait", "remove", "unlock popped"}

QueueTypeOK ==
  /\ _q \in Seq(Item)
  /\ _mlock \in Caller \cup {Nobody}
  /\ seen \in [Caller -> Seq(Item)]
  /\ at \in [Caller -> PushStep \cup PopStep \cup {"outside"}]
  /\ item \in [Caller -> Item \cup {Nothing}]
  /\ returned \in Item \cup {Nothing}

QueueInit ==
  /\ _q = <<>>
  /\ _mlock = Nobody
  /\ seen = [c \in Caller |-> <<>>]
  /\ at = [c \in Caller |-> "outside"]
  /\ item = [c \in Caller |-> Nothing]
  /\ returned = Nothing

Goto(c, from, to) == at[c] = from /\ at' = [at EXCEPT ![c] = to]

Acquire(c) == _mlock = Nobody /\ _mlock' = c
Release == _mlock' = Nobody

-----------------------------------------------------------------------------
(* push                                                                    *)

CallPush(c, x) ==
  /\ Goto(c, "outside", "lock to push")
  /\ item' = [item EXCEPT ![c] = x]
  /\ UNCHANGED <<_q, _mlock, seen, returned>>

\* Mutant: push does not take the mutex.
PushWithoutLock(c) ==
  /\ Goto(c, "lock to push", "push")
  /\ UNCHANGED <<_q, _mlock, seen, item, returned>>

LockToPush(c) ==
  /\ Goto(c, "lock to push", "push")
  /\ Acquire(c)
  /\ UNCHANGED <<_q, seen, item, returned>>

\* std::queue is not atomic: its push finds the end ...
FindEnd(c) ==
  /\ Goto(c, "push", "store")
  /\ seen' = [seen EXCEPT ![c] = _q]
  /\ UNCHANGED <<_q, _mlock, item, returned>>

\* ... and stores the item behind it.
Store(c) ==
  /\ Goto(c, "store", "signal")
  /\ _q' = Append(seen[c], item[c])
  /\ seen' = [seen EXCEPT ![c] = <<>>]
  /\ UNCHANGED <<_mlock, item, returned>>

\* Mutant: push does not signal.
SignalNobody(c) ==
  /\ Goto(c, "signal", "unlock pushed")
  /\ UNCHANGED <<_q, _mlock, seen, item, returned>>

\* pthread_cond_signal: one of the waiting callers goes back to the mutex.
SignalCv(c) ==
  /\ at[c] = "signal"
  /\ LET waiting == {w \in Caller : at[w] = "wait"}
     IN  \/ waiting = {} /\ at' = [at EXCEPT ![c] = "unlock pushed"]
         \/ \E w \in waiting :
              at' = [at EXCEPT ![c] = "unlock pushed", ![w] = "lock to pop"]
  /\ UNCHANGED <<_q, _mlock, seen, item, returned>>

UnlockPushed(c) ==
  /\ Goto(c, "unlock pushed", "outside")
  /\ Release
  /\ item' = [item EXCEPT ![c] = Nothing]
  /\ UNCHANGED <<_q, seen, returned>>

-----------------------------------------------------------------------------
(* pop                                                                     *)

CallPop(c) ==
  /\ Goto(c, "outside", "lock to pop")
  /\ UNCHANGED <<_q, _mlock, seen, item, returned>>

\* The start of pop, and the end of pthread_cond_wait.
LockToPop(c) ==
  /\ Goto(c, "lock to pop", "test")
  /\ Acquire(c)
  /\ UNCHANGED <<_q, seen, item, returned>>

\* pthread_cond_wait gives the mutex up and waits in one step.
WaitCv(c) ==
  /\ _q = <<>>
  /\ Goto(c, "test", "wait")
  /\ Release
  /\ UNCHANGED <<_q, seen, item, returned>>

\* POSIX allows pthread_cond_wait to return without a signal.
WakeCv(c) ==
  /\ Goto(c, "wait", "lock to pop")
  /\ UNCHANGED <<_q, _mlock, seen, item, returned>>

Front(c) ==
  /\ _q # <<>>
  /\ Goto(c, "test", "remove")
  /\ item' = [item EXCEPT ![c] = Head(_q)]
  /\ UNCHANGED <<_q, _mlock, seen, returned>>

Remove(c) ==
  /\ Goto(c, "remove", "unlock popped")
  /\ _q' = Tail(_q)
  /\ returned' = item[c]
  /\ UNCHANGED <<_mlock, seen, item>>

UnlockPopped(c) ==
  /\ Goto(c, "unlock popped", "outside")
  /\ Release
  /\ item' = [item EXCEPT ![c] = Nothing]
  /\ returned' = Nothing
  /\ UNCHANGED <<_q, seen>>

-----------------------------------------------------------------------------
Pushing(c) == \/ LockToPush(c) \/ FindEnd(c) \/ Store(c)
              \/ SignalCv(c) \/ UnlockPushed(c)
Popping(c) == \/ LockToPop(c) \/ WaitCv(c) \/ Front(c)
              \/ Remove(c) \/ UnlockPopped(c)

QueueNext ==
  \E c \in Caller :
    \/ CallPop(c) \/ (\E x \in Item : CallPush(c, x))
    \/ Pushing(c) \/ Popping(c) \/ WakeCv(c)

QueueSpec == QueueInit /\ [][QueueNext]_queueVars

\* Whoever calls push and pop, in whatever order they get the mutex and however
\* often a wait ends without a signal: what pop returns is the oldest item.
Queue == INSTANCE Fifo WITH items <- _q, given <- returned

OldestFirst == Queue!Spec

\* Who will see to an item or has been woken for one: a push that has yet to signal, and
\* a pop that has yet to test the queue or to remove what it has found.
Active == {c \in Caller : at[c] \in {"signal", "lock to pop", "test", "remove"}}

\* No wakeup is lost, although push signals before it unlocks and its signal may be
\* followed by other pushes, or reach a pop that finds the queue emptied by another:
\* while a pop waits, there is someone active for every item in the queue.
NoLostWakeup ==
  (\E c \in Caller : at[c] = "wait") => Len(_q) <= Cardinality(Active)

=============================================================================
