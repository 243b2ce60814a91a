----------------------------- MODULE RipNetwork -----------------------------
(***************************************************************************)
(* The RIP routing protocol between nodes (RipLayer.cc), one action per    *)
(* handler: the constructor, the two timers, the two message types, and    *)
(* "q".  "up" and "down" change the interface first and the table later,   *)
(* so the other handlers come in between; and one that has let a message   *)
(* in may still be at it when the interface has gone.  The accesses of a   *)
(* node's threads to its table are the subject of RipThreads.  Messages    *)
(* are delayed, reordered and lost, nodes quit and are started again.      *)
(*                                                                         *)
(* An interface is named by its local virtual address, as in the code,     *)
(* where an address is both a destination and (next_hop) an interface.     *)
(***************************************************************************)
EXTENDS Integers, FiniteSets

CONSTANTS
  Node,        \* the nodes
  Addr,        \* the interfaces' local virtual addresses (vip_local)
  Owner,       \* the node an interface belongs to
  Peer,        \* the interface at the other end of the link
  Index,       \* an interface's position in its node's _interfaces
  Dest,        \* the destinations whose routes are followed
  Dist,        \* hop distance from a node to (the owner of) a destination
  MaxCost,     \* RIP_MAX_COST, 16 in the code
  MayExpire,   \* update ticks a route surely outlives (12 s against 5 s: 2)
  MustExpire,  \* update ticks no unrefreshed route outlives (4)
  MaxQueued,   \* bound on the messages under way to an interface, per link taken for its
  NoEntry      \* an address that is not a key of _rtable

Ifaces == [n \in Node |-> {i \in Addr : Owner[i] = n}]
Neighbour(i) == Owner[Peer[i]]
Parallel == [i \in Addr |-> {j \in Ifaces[Owner[i]] : Neighbour(j) = Neighbour(i)}]

ASSUME TopologyAssumption ==
  /\ Owner \in [Addr -> Node]
  /\ Peer \in [Addr -> Addr]
  /\ \A i \in Addr : Peer[Peer[i]] = i /\ Neighbour(i) # Owner[i]
  /\ Index \in [Addr -> Nat]
  /\ Dest \subseteq Addr

ASSUME BoundAssumption ==
  /\ MaxCost \in Nat \ {0}
  /\ MayExpire \in Nat \ {0} /\ MustExpire \in Nat /\ MayExpire <= MustExpire
  /\ MaxQueued \in Nat

\* Dist is zero at the owner and differs by at most one across a link.
ASSUME DistAssumption ==
  /\ Dist \in [Node -> [Dest -> Nat]]
  /\ \A d \in Dest : Dist[Owner[d]][d] = 0
  /\ \A i \in Addr, d \in Dest : Dist[Owner[i]][d] <= Dist[Neighbour(i)][d] + 1

Cost == 0 .. MaxCost

\* struct entry_wts.  ticks: update timer ticks since ts, up to MustExpire.
Entry == [cost : Cost, nextHop : Addr, ticks : 0 .. MustExpire]

ASSUME NoEntryAssumption == NoEntry \notin Entry

\* struct rip_msg on its way, with the interface it will be taken to come in on.  The
\* receiver skips entries of cost MaxCost, so an address not listed stands at MaxCost.
Message == [to : Addr, command : {"request", "response"}, costs : [Dest -> Cost]]

VARIABLES
  running,  \* the nodes whose process runs
  up,       \* _isup of each interface
  rtable,   \* _rtable of each node
  main,     \* how far the up or down of an interface is that the main thread is at
  messages, \* RIP messages between prepare_msg and transfer_data
  late      \* those let in by transfer_data before their interface went down

vars == <<running, up, rtable, main, messages, late>>

\* up: "add", the entry is to be added; down: "erase" and "announce".
Step == {"none", "add", "erase", "announce"}

TypeOK ==
  /\ running \in SUBSET Node
  /\ up \in [Addr -> BOOLEAN]
  /\ rtable \in [Node -> [Dest -> Entry \cup {NoEntry}]]
  /\ main \in [Addr -> Step]
  /\ messages \in SUBSET Message
  /\ late \in SUBSET Message

\* get_interfaceid_with_port: a datagram names the node it is from and not the
\* link, so it is taken for one from the first link to that node.
TakenFor ==
  [i \in Addr |-> CHOOSE j \in Parallel[i] : \A k \in Parallel[i] : Index[j] <= Index[k]]

-----------------------------------------------------------------------------
(* Operators on one node's table.                                          *)

EmptyTable == [d \in Dest |-> NoEntry]
OwnEntry(i) == [cost |-> 0, nextHop |-> i, ticks |-> 0]
OwnTable(n) == [d \in Dest |-> IF Owner[d] = n THEN OwnEntry(d) ELSE NoEntry]

\* Mutant: no poisoned reverse.
AdvertisedUnpoisoned(t, i) ==
  [d \in Dest |-> IF t[d] = NoEntry THEN MaxCost ELSE t[d].cost]

\* Mutant: everything but the interface's own address is poisoned.
AdvertisedPoisoned(t, i) ==
  [d \in Dest |-> IF t[d] = NoEntry \/ d # i THEN MaxCost ELSE t[d].cost]

\* Mutant: costs are advertised one too low.
AdvertisedTooLow(t, i) ==
  [d \in Dest |-> IF t[d] = NoEntry \/ (d # i /\ t[d].nextHop = i)
                  THEN MaxCost
                  ELSE IF t[d].cost > 0 THEN t[d].cost - 1 ELSE 0]

\* prepare_msg_ifc: split horizon with poisoned reverse.
Advertised(t, i) ==
  [d \in Dest |-> IF t[d] = NoEntry \/ (d # i /\ t[d].nextHop = i)
                  THEN MaxCost
                  ELSE t[d].cost]

\* prepare_msg: a message on every interface that is up.
Prepared(n, command, t, isup) ==
  {[to |-> TakenFor[Peer[i]], command |-> command, costs |-> Advertised(t, i)] :
     i \in {j \in Ifaces[n] : isup[j]}}

\* Mutant: the cost test compares against the advertised cost.
LearnedEqual(t, i, costs) ==
  [d \in Dest |->
     IF Owner[d] = Owner[i] \/ costs[d] = MaxCost
     THEN t[d]
     ELSE IF t[d] = NoEntry \/ t[d].cost >= costs[d] + 1
     THEN [cost |-> costs[d] + 1, nextHop |-> i, ticks |-> 0]
     ELSE t[d]]

\* Mutant: addresses of this node are learned like any other.
LearnedOwn(t, i, costs) ==
  [d \in Dest |->
     IF costs[d] # MaxCost /\ (t[d] = NoEntry \/ t[d].cost > costs[d] + 1)
     THEN [cost |-> costs[d] + 1, nextHop |-> i, ticks |-> 0]
     ELSE t[d]]

\* Mutant: entries of cost MaxCost are learned too.
LearnedInfinite(t, i, costs) ==
  [d \in Dest |->
     IF Owner[d] # Owner[i] /\ (t[d] = NoEntry \/ t[d].cost > costs[d] + 1)
     THEN [cost |-> costs[d] + 1, nextHop |-> i, ticks |-> 0]
     ELSE t[d]]

\* update_route_table: own addresses and unreachable entries are skipped, an
\* unknown address is inserted, a known one is replaced by a cheaper route only.
Learned(t, i, costs) ==
  [d \in Dest |->
     IF /\ Owner[d] # Owner[i]
        /\ costs[d] # MaxCost
        /\ t[d] = NoEntry \/ t[d].cost > costs[d] + 1
     THEN [cost |-> costs[d] + 1, nextHop |-> i, ticks |-> 0]
     ELSE t[d]]

\* remove_ifc_entry's erasures: the interface's own entry, and what it leads to.
WithoutIfc(t, i) ==
  [d \in Dest |-> IF d = i \/ (t[d] # NoEntry /\ t[d].nextHop = i)
                  THEN NoEntry
                  ELSE t[d]]

\* The entries refresh_route_table looks at: it skips the node's own addresses.
Learnt(n) == {d \in Dest : Owner[d] # n /\ rtable[n][d] # NoEntry}

\* One more update tick has passed since the learnt entries' timestamps.
Older(n) ==
  [d \in Dest |->
     IF d \in Learnt(n) /\ rtable[n][d].ticks < MustExpire
     THEN [rtable[n][d] EXCEPT !.ticks = @ + 1]
     ELSE rtable[n][d]]

\* The messages `new` join those kept under way.  One to a node that does not run
\* is lost; MaxQueued bounds the rest, and losing a message makes room.
Send(kept, new) ==
  /\ messages' = kept \cup {m \in new : Owner[m.to] \in running}
  /\ \A i \in Addr :
       Cardinality({m \in messages' : m.to = i}) <= MaxQueued * Cardinality(Parallel[i])

-----------------------------------------------------------------------------
(* The handlers.                                                           *)

\* Every process is yet to be started.
Init ==
  /\ running = {}
  /\ up = [i \in Addr |-> FALSE]
  /\ rtable = [n \in Node |-> EmptyTable]
  /\ main = [i \in Addr |-> "none"]
  /\ messages = {} /\ late = {}

\* The messages that are yet to be handled.
UnderWay == messages \cup late

\* main is at no up or down: it reads the next command.
Idle(n) == \A i \in Ifaces[n] : main[i] = "none"

\* The out-queue's thread is not at a late message.
OutIdle(n) == \A m \in late : Owner[m.to] # n

\* main and the layers' constructors: own entries, then prepare_msg(1).
Start(n) ==
  /\ n \notin running
  /\ running' = running \cup {n}
  /\ up' = [i \in Addr |-> up[i] \/ Owner[i] = n]
  /\ rtable' = [rtable EXCEPT ![n] = OwnTable(n)]
  /\ Send(messages, Prepared(n, "request", OwnTable(n), up'))
  /\ UNCHANGED <<main, late>>

\* The command "q", or the end of the input: the process and its sockets end.
Quit(n) ==
  /\ n \in running /\ Idle(n)
  /\ running' = running \ {n}
  /\ up' = [i \in Addr |-> up[i] /\ Owner[i] # n]
  /\ rtable' = [rtable EXCEPT ![n] = EmptyTable]
  /\ messages' = {m \in messages : Owner[m.to] # n}
  /\ late' = {m \in late : Owner[m.to] # n}
  /\ UNCHANGED main

\* down_cmd: LinkLayer::down.  The out-queue's thread may have let a message in that
\* came over the interface, and goes on with it later.
Down(i) ==
  LET n == Owner[i]
  IN  /\ n \in running /\ Idle(n)
      /\ up' = [up EXCEPT ![i] = FALSE]
      /\ main' = [main EXCEPT ![i] = "erase"]
      /\ \/ UNCHANGED <<messages, late>>
         \/ \E m \in messages : /\ m.to = i /\ up[i] /\ OutIdle(n)
                                /\ messages' = messages \ {m}
                                /\ late' = late \cup {m}
      /\ UNCHANGED <<running, rtable>>

\* remove_ifc_entry: the erasures ...
RemoveEntries(i) ==
  /\ main[i] = "erase"
  /\ main' = [main EXCEPT ![i] = "announce"]
  /\ rtable' = [rtable EXCEPT ![Owner[i]] = WithoutIfc(@, i)]
  /\ UNCHANGED <<running, up, messages, late>>

\* ... and prepare_msg(2).
AnnounceRest(i) ==
  /\ main[i] = "announce"
  /\ main' = [main EXCEPT ![i] = "none"]
  /\ Send(messages, Prepared(Owner[i], "response", rtable[Owner[i]], up))
  /\ UNCHANGED <<running, up, rtable, late>>

\* up_cmd: LinkLayer::up ...
Up(i) ==
  /\ Owner[i] \in running /\ Idle(Owner[i])
  /\ up' = [up EXCEPT ![i] = TRUE]
  /\ main' = [main EXCEPT ![i] = "add"]
  /\ UNCHANGED <<running, rtable, messages, late>>

\* ... and add_ifc_entry; nothing is announced.
AddEntry(i) ==
  /\ main[i] = "add"
  /\ main' = [main EXCEPT ![i] = "none"]
  /\ rtable' = [rtable EXCEPT ![Owner[i]] =
                  [d \in Dest |-> IF d = i THEN OwnEntry(i) ELSE @[d]]]
  /\ UNCHANGED <<running, up, messages, late>>

\* The update timer: prepare_msg(2).
Update(n) ==
  /\ n \in running
  /\ rtable' = [rtable EXCEPT ![n] = Older(n)]
  /\ Send(messages, Prepared(n, "response", rtable[n], up))
  /\ UNCHANGED <<running, up, main, late>>

\* Mutant: the age is compared in the wrong unit, nothing is ever old enough.
RefreshNothing(n) == n \in running /\ UNCHANGED vars

\* The refresh timer: refresh_route_table erases the learnt entries whose
\* timestamp is older than REFRESH_TIMER_VAL.
Refresh(n) ==
  /\ n \in running
  /\ \E expired \in SUBSET {d \in Learnt(n) : rtable[n][d].ticks >= MayExpire} :
       /\ {d \in Learnt(n) : rtable[n][d].ticks >= MustExpire} \subseteq expired
       /\ rtable' = [rtable EXCEPT ![n] =
                       [d \in Dest |-> IF d \in expired THEN NoEntry ELSE @[d]]]
  /\ UNCHANGED <<running, up, main, messages, late>>

\* transfer_data: a RIP message for an interface that is down is dropped.
DropOnDownIfc(m) ==
  /\ ~ up[m.to] /\ OutIdle(Owner[m.to])
  /\ messages' = messages \ {m}
  /\ UNCHANGED <<running, up, rtable, main, late>>

\* transfer_ip_to_rip, command 1: answered by a prepare_msg(2) on every interface.
Answer(m, kept) ==
  /\ m.command = "request"
  /\ Send(kept, Prepared(Owner[m.to], "response", rtable[Owner[m.to]], up))
  /\ UNCHANGED rtable

\* transfer_ip_to_rip, command 2: update_route_table.
Learn(m, kept) ==
  /\ m.command = "response"
  /\ messages' = kept
  /\ rtable' = [rtable EXCEPT ![Owner[m.to]] = Learned(@, m.to, m.costs)]

\* transfer_data: a RIP message for an interface that is up is handled ...
ReceiveRequest(m) ==
  /\ up[m.to] /\ OutIdle(Owner[m.to])
  /\ Answer(m, messages \ {m})
  /\ UNCHANGED <<running, up, main, late>>

ReceiveResponse(m) ==
  /\ up[m.to] /\ OutIdle(Owner[m.to])
  /\ Learn(m, messages \ {m})
  /\ UNCHANGED <<running, up, main, late>>

\* ... and one that was let in before the interface went down is handled, too.
ReceiveLate(m) ==
  /\ late' = late \ {m}
  /\ Answer(m, messages) \/ Learn(m, messages)
  /\ UNCHANGED <<running, up, main>>

Receive(m) == DropOnDownIfc(m) \/ ReceiveRequest(m) \/ ReceiveResponse(m)

\* The datagram is lost, or its sender's interface closed before it was sent.
Lose(m) ==
  /\ messages' = messages \ {m}
  /\ UNCHANGED <<running, up, rtable, main, late>>

Timers == \E n \in Node : Update(n) \/ Refresh(n)
Commands == \/ \E n \in Node : Start(n) \/ Quit(n)
            \/ \E i \in Addr : Down(i) \/ Up(i)
MainGoesOn(n) == \E i \in Ifaces[n] : RemoveEntries(i) \/ AnnounceRest(i) \/ AddEntry(i)
OutGoesOn == \E m \in late : ReceiveLate(m)
Network == \E m \in messages : Receive(m) \/ Lose(m)

\* What nodes do by themselves.
System == Timers \/ (\E n \in Node : MainGoesOn(n)) \/ OutGoesOn \/ Network

Next == Commands \/ System

Spec == Init /\ [][Next]_vars

-----------------------------------------------------------------------------
(* Fairness.                                                               *)

\* A message to interface i that names d with a finite cost is processed.
Hear(i, d) == \E m \in messages : /\ m.to = i
                                  /\ m.costs[d] # MaxCost
                                  /\ ReceiveResponse(m)

\* What is under way to interface i does not stay under way.
Drain(i) == \E m \in messages : m.to = i /\ (Lose(m) \/ Receive(m))

\* The timers keep firing, the RIP thread keeps handling them, a datagram arrives or
\* is lost, and main and the out-queue's thread go on with what they are at.  The
\* commands are the user's and carry no fairness.
Timely ==
  /\ \A n \in Node : SF_vars(Update(n)) /\ WF_vars(Refresh(n)) /\ WF_vars(MainGoesOn(n))
  /\ \A i \in Addr : WF_vars(Drain(i))
  /\ WF_vars(OutGoesOn)

\* Of the datagrams that name d, sent again and again to an interface that can
\* receive them, not all are lost.
Heard == \A i \in Addr, d \in Dest : SF_vars(Hear(i, d))

FairSpec == Spec /\ Timely /\ Heard

-----------------------------------------------------------------------------
(* Properties.                                                             *)

HasRoute(n, d) == rtable[n][d] # NoEntry

\* Between commands a node's table holds exactly its own addresses whose interface is
\* up, at cost zero, and never any other entry for them: whatever the neighbours send,
\* is_my_interface keeps update_route_table away from them, down_cmd removes one and
\* up_cmd puts it back.
LocalEntries ==
  \A i \in Dest :
    /\ rtable[Owner[i]][i] \in {OwnEntry(i), NoEntry}
    /\ main[i] \in {"none", "announce"} => (HasRoute(Owner[i], i) <=> up[i])

\* No table promises a destination nearer than it is, however stale the messages
\* update_route_table is given and however often interfaces come and go.
NeverTooShort ==
  \A n \in Node, d \in Dest : HasRoute(n, d) => rtable[n][d].cost >= Dist[n][d]

\* A step replaces the route of n to d by a strictly cheaper one only, and
\* otherwise keeps its cost and interface and never makes it younger.
ReplacedByCheaper(n, d) ==
  HasRoute(n, d) /\ HasRoute(n, d)' =>
    LET old == rtable[n][d]
        new == rtable'[n][d]
    IN  \/ new.cost < old.cost
        \/ new.cost = old.cost /\ new.nextHop = old.nextHop /\ new.ticks >= old.ticks

\* While a route stays in a table every step replaces it by a cheaper one or lets
\* it grow older: update_route_table does not stamp it again when the neighbour
\* confirms it, and no command or restart slips in another.
ReplacedByCheaperOnly == [][\A n \in Node, d \in Dest : ReplacedByCheaper(n, d)]_vars

\* No table has a route to d, and no message lists it, at less than cost c.
Floor(d, c) == /\ \A n \in Node : HasRoute(n, d) => rtable[n][d].cost >= c
               /\ \A m \in UnderWay : m.costs[d] >= c

\* A step that leaves d's costs no lower: none falls below c, a route that costs c is
\* not a new one and not younger, and only such a route gets c into a message.
StepKeepsFloor(d, c) ==
  /\ Floor(d, c)'
  /\ \A n \in Node : HasRoute(n, d)' /\ rtable'[n][d].cost = c =>
       /\ HasRoute(n, d) /\ rtable[n][d].cost = c
       /\ rtable[n][d].nextHop = rtable'[n][d].nextHop
       /\ rtable[n][d].ticks <= rtable'[n][d].ticks
  /\ \A m \in UnderWay' \ UnderWay : m.costs[d] = c /\ c # MaxCost =>
       \E n \in Node : HasRoute(n, d) /\ rtable[n][d].cost = c

\* Why counting to infinity ends (DeadRoutesDie): while the interface of an address is
\* down, what the nodes learn of it from one another costs more than the cheapest route
\* or message there is, so the cheapest routes only age until refresh_route_table
\* erases them; no restart, no other interface and no stale message lowers the cost.
DeadCostsOnlyRise ==
  [][\A d \in Dest, c \in Cost :
       ~up[d] /\ ~up'[d] /\ Floor(d, c) => StepKeepsFloor(d, c)]_vars

\* When every node runs and every interface is up from some time on, every node
\* has a route to every destination again and again (not for ever: see below).
RoutesComeBack ==
  <>[](running = Node /\ \A i \in Addr : up[i]) =>
    \A n \in Node, d \in Dest : []<>HasRoute(n, d)

\* No learnt route is for ever: nothing stamps it again, so refresh_route_table
\* erases it (and an update may bring it back).
LearntRoutesExpire ==
  \A n \in Node, d \in Dest : Owner[d] # n => []<>~HasRoute(n, d)

\* Once the interface of an address is down for good, no node keeps a route
\* to it, in a network with loops too: counting up to MaxCost ends.
DeadRoutesDie ==
  \A d \in Dest : <>[]~up[d] => <>[](\A n \in Node : ~HasRoute(n, d))

=============================================================================
