----------------------------- MODULE RipThreads -----------------------------
(***************************************************************************)
(* One node's routing table and the three threads that use it: the network *)
(* layer's (out) applies responses, the RIP layer's (rip) handles the two  *)
(* timers, and main runs the commands.  _rlock is held for one insertion   *)
(* or erasure at a time; what is found before is used after, and iterators *)
(* are kept across it.                                                     *)
(*                                                                         *)
(* Using an iterator whose node was erased is undefined: the model ends    *)
(* there, with every thread aborted, and claims nothing of what follows.   *)
(* Addresses are numbers, in std::map's order.                             *)
(***************************************************************************)
EXTENDS Integers, FiniteSets, FiniteSetsExt

CONSTANTS
  Ifc,      \* the node's own addresses, one for each interface
  Remote,   \* other addresses
  MaxCost,  \* RIP_MAX_COST
  Expiry,   \* REFRESH_TIMER_VAL in ticks of the clock
  MaxWalk   \* bound: the ticks one refresh_route_table may take

ASSUME ThreadsAssumption ==
  /\ Ifc \subseteq Nat \ {0} /\ Remote \subseteq Nat \ {0} /\ Ifc \cap Remote = {}
  /\ MaxCost \in Nat \ {0} /\ Expiry \in Nat /\ MaxWalk \in Nat

Key == Ifc \cup Remote
End == -1                \* _rtable.end()
MaxAge == Expiry + MaxWalk + 1
Thread == {"out", "rip", "main"}

\* struct entry_wts.  age: ticks since ts, up to MaxAge.
Entry == [cost : 0 .. MaxCost, nextHop : Ifc \cup {0}, age : 0 .. MaxAge]
\* No one looks at the age of the node's own entries.
Own(i) == [cost |-> 0, nextHop |-> i, age |-> MaxAge]
\* What std::map's operator[] makes of a key it does not have: all zero, and so as
\* old as can be.
Phantom == [cost |-> 0, nextHop |-> 0, age |-> MaxAge]

VARIABLES
  rtable,    \* _rtable
  up,        \* _isup of each interface
  pc,        \* where each thread is
  itr,       \* its iterator over _rtable
  next,      \* the iterator after it, as the erasing loops keep it
  dangling,  \* the threads one of whose iterators points to an erased node
  rlock,     \* the thread that holds _rlock, or "none"
  msg,       \* the entry of a response that out is at, and where it came in
  ifc,       \* the interface of main's command
  snapAge    \* ticks since refresh_route_table took curtv

vars == <<rtable, up, pc, itr, next, dangling, rlock, msg, ifc, snapAge>>

\* A message from interface i, between two of its entries; no message.
FromIfc(i) == [ifc |-> i, address |-> 0, cost |-> 0]
NoMsg == FromIfc(0)
Messages == [ifc : Ifc, address : Remote \cup {0}, cost : 0 .. MaxCost - 1] \cup {NoMsg}

Place == {"idle", "isup", "entries", "find", "insert", "copy", "store", "writing", "read",
          "refresh", "remove", "erase", "erasing", "add", "aborted"}

TypeOK ==
  /\ DOMAIN rtable \subseteq Key /\ \A k \in DOMAIN rtable : rtable[k] \in Entry
  /\ up \in [Ifc -> BOOLEAN]
  /\ pc \in [Thread -> Place]
  /\ itr \in [Thread -> Key \cup {End}] /\ next \in [Thread -> Key \cup {End}]
  /\ dangling \subseteq Thread
  /\ rlock \in Thread \cup {"none"}
  /\ msg \in Messages
  /\ ifc \in Ifc \cup {0}
  /\ snapAge \in 0 .. MaxWalk

Init ==
  /\ rtable = [i \in Ifc |-> Own(i)]
  /\ up = [i \in Ifc |-> TRUE]
  /\ pc = [t \in Thread |-> "idle"]
  /\ itr = [t \in Thread |-> End] /\ next = [t \in Thread |-> End]
  /\ dangling = {} /\ rlock = "none"
  /\ msg = NoMsg /\ ifc = 0 /\ snapAge = 0

-----------------------------------------------------------------------------
(* Helpers.                                                                *)

\* The first key from k on, and the first after it.
From(k) == LET later == {j \in DOMAIN rtable : j >= k}
           IN  IF later = {} THEN End ELSE Min(later)
After(k) == From(k + 1)

Goto(t, where) == pc' = [pc EXCEPT ![t] = where]
With(k, e) == [j \in DOMAIN rtable \cup {k} |-> IF j = k THEN e ELSE rtable[j]]
Without(k) == [j \in DOMAIN rtable \ {k} |-> rtable[j]]

\* A thread takes _rlock on its way from one place to the next.
Lock(t, from, to) ==
  /\ pc[t] = from /\ rlock = "none"
  /\ rlock' = t
  /\ Goto(t, to)
  /\ UNCHANGED <<rtable, up, itr, next, dangling, msg, ifc, snapAge>>

\* Both of t's iterators are put at k.
MoveTo(t, k) ==
  /\ itr' = [itr EXCEPT ![t] = k]
  /\ next' = [next EXCEPT ![t] = k]

\* A walk over the table begins at the first key with fresh iterators ...
Walk(t, where) ==
  /\ Goto(t, where)
  /\ MoveTo(t, From(0))
  /\ dangling' = dangling \ {t}

\* ... and ends.
Stop(t) == Goto(t, "idle") /\ UNCHANGED <<itr, next, dangling>>

-----------------------------------------------------------------------------
(* out: transfer_data and update_route_table.                              *)

\* A response comes in on an interface, which transfer_data finds up or drops it.
Receive(i) ==
  /\ pc["out"] = "idle"
  /\ msg' = FromIfc(i)
  /\ Goto("out", "isup")
  /\ UNCHANGED <<rtable, up, itr, next, dangling, rlock, ifc, snapAge>>

\* Mutant: responses are taken from interfaces that are down.
AdmitsAlways(i) == TRUE

Admits(i) == up[i]

Admit ==
  /\ pc["out"] = "isup"
  /\ IF Admits(msg.ifc)
     THEN Goto("out", "entries") /\ UNCHANGED msg
     ELSE Goto("out", "idle") /\ msg' = NoMsg
  /\ UNCHANGED <<rtable, up, itr, next, dangling, rlock, ifc, snapAge>>

\* Mutant: unreachable destinations are learnt.
LearnableToo == [address : Remote, cost : 0 .. MaxCost]

\* Entries for one's own addresses and those of cost RIP_MAX_COST are skipped.
Learnable == [address : Remote, cost : 0 .. MaxCost - 1]

PickEntry(e) ==
  /\ pc["out"] = "entries"
  /\ msg' = [ifc |-> msg.ifc, address |-> e.address, cost |-> e.cost]
  /\ Goto("out", "find")
  /\ UNCHANGED <<rtable, up, itr, next, dangling, rlock, ifc, snapAge>>

NextEntry == msg' = FromIfc(msg.ifc)

EndOfMessage ==
  /\ pc["out"] = "entries"
  /\ Goto("out", "idle")
  /\ msg' = NoMsg
  /\ UNCHANGED <<rtable, up, itr, next, dangling, rlock, ifc, snapAge>>

\* find is not under _rlock: while another thread is at the tree it may miss a key.
Find ==
  /\ pc["out"] = "find"
  /\ \/ msg.address \in DOMAIN rtable /\ Goto("out", "copy")
     \/ (msg.address \in DOMAIN rtable => rlock # "none") /\ Goto("out", "insert")
  /\ UNCHANGED <<rtable, up, itr, next, dangling, rlock, msg, ifc, snapAge>>

\* operator[] copies the entry.  If it is gone since find, it comes back as zeros,
\* without _rlock.
Copy ==
  /\ pc["out"] = "copy"
  /\ rtable' = IF msg.address \in DOMAIN rtable THEN rtable ELSE With(msg.address, Phantom)
  /\ IF rtable'[msg.address].cost > msg.cost + 1
     THEN Goto("out", "store") /\ UNCHANGED msg
     ELSE Goto("out", "entries") /\ NextEntry
  /\ UNCHANGED <<up, itr, next, dangling, rlock, ifc, snapAge>>

\* The new or cheaper entry is written under _rlock; that its ts was taken just before
\* the lock is left out.
Write ==
  /\ pc["out"] = "writing"
  /\ rtable' = With(msg.address, [cost |-> msg.cost + 1, nextHop |-> msg.ifc, age |-> 0])
  /\ rlock' = "none"
  /\ Goto("out", "entries")
  /\ NextEntry
  /\ UNCHANGED <<up, itr, next, dangling, ifc, snapAge>>

-----------------------------------------------------------------------------
(* Walks over the table.                                                   *)

\* prepare_msg_ifc, print_route_table and get_next_address only read.
ReadNext(t) ==
  /\ pc[t] = "read" /\ t \notin dangling
  /\ IF itr[t] = End
     THEN Stop(t) /\ ifc' = IF t = "main" THEN 0 ELSE ifc
     ELSE MoveTo(t, After(itr[t])) /\ UNCHANGED <<pc, dangling, ifc>>
  /\ UNCHANGED <<rtable, up, rlock, msg, snapAge>>

\* A thread that reads the table starts to.
Read(t) ==
  /\ pc[t] = "idle"
  /\ Walk(t, "read")
  /\ UNCHANGED <<rtable, up, rlock, msg, ifc, snapAge>>

\* Mutant: the age is compared with a threshold of a thousand times the unit.
ExpiredNever(e) == e.age - snapAge > MaxAge

\* (curms - ms) is unsigned: an entry younger than curtv counts as ancient.
Expired(e) == e.age - snapAge > Expiry \/ e.age < snapAge

\* Mutant: the node's own addresses expire too.
RefreshErasesOwn(k) == Expired(rtable[k])

\* refresh_route_table skips the node's own addresses ...
RefreshErases(k) == k \notin Ifc /\ Expired(rtable[k])
\* ... and remove_ifc_entry takes an interface and what leads through it.
RemoveErases(k) == k = ifc \/ rtable[k].nextHop = ifc

\* One turn of either loop: `next` is taken before the entry is looked at.
Visit(t, erases) ==
  /\ IF erases
     THEN Goto(t, "erase") /\ next' = [next EXCEPT ![t] = After(itr[t])] /\ UNCHANGED itr
     ELSE MoveTo(t, After(itr[t])) /\ UNCHANGED pc
  /\ UNCHANGED dangling

RefreshNext ==
  /\ pc["rip"] = "refresh" /\ "rip" \notin dangling
  /\ IF itr["rip"] = End
     THEN Stop("rip") /\ snapAge' = 0
     ELSE Visit("rip", RefreshErases(itr["rip"])) /\ UNCHANGED snapAge
  /\ UNCHANGED <<rtable, up, rlock, msg, ifc>>

\* remove_ifc_entry ends with a prepare_msg.
RemoveNext ==
  /\ pc["main"] = "remove" /\ "main" \notin dangling
  /\ IF itr["main"] = End
     THEN Walk("main", "read")
     ELSE Visit("main", RemoveErases(itr["main"]))
  /\ UNCHANGED <<rtable, up, rlock, msg, ifc, snapAge>>

\* Mutant: the loop goes on from the iterator it has erased.
EraseInPlace(t) ==
  /\ pc[t] = "erasing" /\ t \notin dangling
  /\ rtable' = Without(itr[t])
  /\ rlock' = "none"
  /\ Goto(t, IF t = "rip" THEN "refresh" ELSE "remove")
  /\ UNCHANGED <<up, itr, next, dangling, msg, ifc, snapAge>>

\* The erasure, under _rlock, of the entry seen before it was taken.  It leaves the
\* other threads' iterators to it dangling.
Erase(t) ==
  /\ pc[t] = "erasing" /\ t \notin dangling
  /\ rtable' = Without(itr[t])
  /\ dangling' = dangling \cup {s \in Thread \ {t} : itr[t] \in {itr[s], next[s]}}
  /\ rlock' = "none"
  /\ MoveTo(t, next[t])
  /\ Goto(t, IF t = "rip" THEN "refresh" ELSE "remove")
  /\ UNCHANGED <<up, msg, ifc, snapAge>>

\* An iterator to an erased node is used.
UseDangling(t) ==
  /\ t \in dangling /\ pc[t] \in {"read", "refresh", "remove", "erasing"}
  /\ pc' = [s \in Thread |-> "aborted"]
  /\ UNCHANGED <<rtable, up, itr, next, dangling, rlock, msg, ifc, snapAge>>

-----------------------------------------------------------------------------
(* rip: the timers.  main: the commands.                                   *)

UpdateTimer == Read("rip")

RefreshTimer ==
  /\ pc["rip"] = "idle"
  /\ Walk("rip", "refresh")
  /\ UNCHANGED <<rtable, up, rlock, msg, ifc, snapAge>>

\* "down": LinkLayer::down, then remove_ifc_entry.
Down(i) ==
  /\ pc["main"] = "idle"
  /\ up' = [up EXCEPT ![i] = FALSE]
  /\ ifc' = i
  /\ Walk("main", "remove")
  /\ UNCHANGED <<rtable, rlock, msg, snapAge>>

\* "up": LinkLayer::up, then add_ifc_entry.
Up(i) ==
  /\ pc["main"] = "idle"
  /\ up' = [up EXCEPT ![i] = TRUE]
  /\ ifc' = i
  /\ Goto("main", "add")
  /\ UNCHANGED <<rtable, itr, next, dangling, rlock, msg, snapAge>>

AddEntry ==
  /\ pc["main"] = "writing"
  /\ rtable' = With(ifc, Own(ifc))
  /\ rlock' = "none"
  /\ Goto("main", "idle")
  /\ ifc' = 0
  /\ UNCHANGED <<up, itr, next, dangling, msg, snapAge>>

\* Time passes; a refresh takes no more than MaxWalk of it.
Refreshing == pc["rip"] \in {"refresh", "erase", "erasing"}
Tick ==
  /\ Refreshing => snapAge < MaxWalk
  /\ snapAge' = IF Refreshing THEN snapAge + 1 ELSE 0
  /\ rtable' = [k \in DOMAIN rtable |-> [rtable[k] EXCEPT !.age = Min({@ + 1, MaxAge})]]
  /\ UNCHANGED <<up, pc, itr, next, dangling, rlock, msg, ifc>>

-----------------------------------------------------------------------------

\* What each thread goes on to once it has begun, and where it waits for _rlock.
OutGoesOn == Admit \/ Find \/ Copy \/ Write \/ ReadNext("out") \/ UseDangling("out")
OutLocks == Lock("out", "insert", "writing") \/ Lock("out", "store", "writing")
RipGoesOn == ReadNext("rip") \/ RefreshNext \/ Erase("rip") \/ UseDangling("rip")
RipLocks == Lock("rip", "erase", "erasing")
MainGoesOn == ReadNext("main") \/ RemoveNext \/ Erase("main") \/ AddEntry \/ UseDangling("main")
MainLocks == Lock("main", "erase", "erasing") \/ Lock("main", "add", "writing")

Out == \/ \E i \in Ifc : Receive(i)
       \/ \E e \in Learnable : PickEntry(e)
       \/ EndOfMessage
       \/ Read("out")
       \/ OutGoesOn \/ OutLocks

Rip == UpdateTimer \/ RefreshTimer \/ RipGoesOn \/ RipLocks

Main == Read("main") \/ (\E i \in Ifc : Down(i) \/ Up(i)) \/ MainGoesOn \/ MainLocks

Next == Out \/ Rip \/ Main \/ Tick

Spec == Init /\ [][Next]_vars

\* What a thread has begun it goes on with, and gets _rlock for: no one holds it for
\* longer than one insertion or erasure.  A message ends.  Timer events are queued, so
\* neither kind keeps the other from being handled.  Time passes.
FairSpec ==
  /\ Spec
  /\ WF_vars(OutGoesOn) /\ WF_vars(RipGoesOn) /\ WF_vars(MainGoesOn)
  /\ SF_vars(OutLocks) /\ SF_vars(RipLocks) /\ SF_vars(MainLocks)
  /\ SF_vars(EndOfMessage) /\ SF_vars(RefreshTimer) /\ SF_vars(Tick)

-----------------------------------------------------------------------------
(* Properties.                                                             *)

\* Whatever the timers and the network layer did meanwhile: when a command is done the
\* table has the node's own addresses of exactly the interfaces that are up
\* (add_ifc_entry, remove_ifc_entry and the guard of refresh_route_table).
OwnEntriesKept ==
  pc["main"] = "idle" =>
    \A i \in Ifc : IF up[i] THEN i \in DOMAIN rtable /\ rtable[i] = Own(i)
                            ELSE i \notin DOMAIN rtable

\* The walks themselves are sound: an iterator, and the one after it that the erasing
\* loops keep, is at an entry or at the end however the table has grown and shrunk since,
\* unless another thread has erased an entry under it.
IteratorsLive ==
  \A t \in Thread \ dangling :
    pc[t] \in {"read", "refresh", "remove", "erase", "erasing"} =>
      {itr[t], next[t]} \subseteq DOMAIN rtable \cup {End}

\* What update_route_table leaves for a foreign address is a route that costs something
\* and leads out of an interface, or else the entry of zeros, and that is always old
\* enough for refresh_route_table to erase, however long its walk has taken.
ForeignEntries ==
  \A k \in DOMAIN rtable \cap Remote :
    \/ rtable[k].cost > 0 /\ rtable[k].nextHop \in Ifc
    \/ rtable[k] = Phantom /\ Expired(rtable[k])

\* transfer_data has let a message from interface i pass, which is being applied.
Holding(i) ==
  msg.ifc = i /\ pc["out"] \in {"entries", "find", "insert", "copy", "store", "writing"}

Through(i) == {k \in DOMAIN rtable : rtable[k].nextHop = i}

\* While an interface is down only the message that passed is_up before can bring in
\* routes through it; once that one is done there are never more of them, whatever the
\* timers, responses and commands of other interfaces do.
DownStaysDown ==
  [][\A i \in Ifc : ~up[i] /\ ~up'[i] /\ ~Holding(i)
       => ~Holding(i)' /\ Through(i)' \subseteq Through(i)]_vars

Aborted == pc["main"] = "aborted"

HasPhantom(k) == k \in DOMAIN rtable /\ rtable[k].nextHop = 0

\* An entry of zeros that update_route_table left behind is taken out by some later
\* refresh_route_table.
PhantomsGo == \A k \in Remote : HasPhantom(k) ~> (~HasPhantom(k) \/ Aborted)

\* A route that slips in while remove_ifc_entry walks the table (transfer_data looked at
\* is_up before the command, the insertion comes after) does not outlive the refreshes
\* that follow.
RoutesViaDownVanish ==
  \A i \in Ifc : <>[](~up[i] /\ pc["main"] = "idle")
                   => <>[](\A k \in DOMAIN rtable : rtable[k].nextHop # i)

\* Every entry that the "routes" command prints is one's own or a route that was learnt:
\* it leads somewhere ("Print information about the route to each known destination").
EveryRouteLeadsSomewhere == \A k \in DOMAIN rtable : rtable[k].nextHop # 0

=============================================================================
