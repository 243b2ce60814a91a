--------------------------- MODULE RipTreeProofs ----------------------------
(***************************************************************************)
(* Proofs about RipTree: in a network without loops routes are exact.      *)
(***************************************************************************)
EXTENDS RipTree, RipNetworkProofs

\* The route of n to d, if there is one, is a shortest one.
ExactRoute(n, d, t) ==
  t[d] # NoEntry =>
    /\ t[d].cost = Dist[n][d]
    /\ t[d].nextHop \in Ifaces[n]
    /\ IF Owner[d] = n THEN t[d].nextHop = d ELSE Nearer(t[d].nextHop, d)

\* A message lists only destinations that its sender is nearer to than its
\* receiver, at the sender's distance.
ExactMessage(m) ==
  \A d \in Dest : m.costs[d] # MaxCost =>
    /\ m.costs[d] = Dist[Neighbour(m.to)][d]
    /\ Nearer(m.to, d)

\* What a node tells a neighbour is never what it heard from it: with that and
\* the messages under way TreeRoutesExact becomes inductive.
TreeInv ==
  /\ \A n \in Node, d \in Dest : ExactRoute(n, d, rtable[n])
  /\ \A m \in UnderWay : ExactMessage(m)

\* The hop distance is a number.
LEMMA DistType ==
  ASSUME NEW n \in Node, NEW d \in Dest
  PROVE  Dist[n][d] \in Nat
  BY DistAssumption

\* Distances across a link differ by exactly one.
LEMMA LinkDist ==
  ASSUME NEW i \in Addr, NEW d \in Dest
  PROVE  /\ Dist[Owner[i]][d] \in Nat /\ Dist[Neighbour(i)][d] \in Nat
         /\ Nearer(i, d) => Dist[Owner[i]][d] = Dist[Neighbour(i)][d] + 1
         /\ ~Nearer(i, d) => Dist[Neighbour(i)][d] = Dist[Owner[i]][d] + 1
<1>1. Owner[i] \in Node /\ Neighbour(i) \in Node /\ Peer[i] \in Addr
  BY TopologyAssumption DEF Neighbour
<1>2. Owner[Peer[i]] = Neighbour(i) /\ Neighbour(Peer[i]) = Owner[i]
  BY TopologyAssumption DEF Neighbour
<1>3. /\ Dist[Owner[i]][d] <= Dist[Neighbour(i)][d] + 1
      /\ Dist[Neighbour(i)][d] <= Dist[Owner[i]][d] + 1
  BY <1>1, <1>2, DistAssumption
<1> QED
  BY <1>1, <1>3, DistType, TreeAssumption DEF Nearer

\* A network without loops has one link between two nodes, so a datagram is taken
\* for what it is.
LEMMA OneLink ==
  ASSUME NEW i \in Addr, NEW d \in Dest
  PROVE  TakenFor[i] = i
<1> DEFINE f == TakenFor[i]
<1>1. /\ f \in Addr /\ Owner[f] = Owner[i] /\ Neighbour(f) = Neighbour(i)
  BY TakenForParallel
<1> HIDE DEF f
<1>2. CASE Nearer(i, d)
  <2>1. Nearer(f, d)
    BY <1>1, <1>2 DEF Nearer
  <2>2. f = i
    BY <1>1, <1>2, <2>1, TreeAssumption
  <2> QED
    BY <2>2 DEF f
<1>3. CASE ~Nearer(i, d)
  <2>1. /\ Peer[f] \in Addr /\ Owner[Peer[f]] = Neighbour(f) /\ Neighbour(Peer[f]) = Owner[f]
        /\ Peer[i] \in Addr /\ Owner[Peer[i]] = Neighbour(i) /\ Neighbour(Peer[i]) = Owner[i]
    BY <1>1, TopologyAssumption DEF Neighbour
  <2>2. Nearer(Peer[f], d) /\ Nearer(Peer[i], d)
    BY <1>1, <1>3, <2>1, LinkDist DEF Nearer
  <2>3. Peer[f] = Peer[i]
    BY <1>1, <2>1, <2>2, TreeAssumption
  <2>4. f = i
    BY <1>1, <2>3, TopologyAssumption
  <2> QED
    BY <2>4 DEF f
<1> QED
  BY <1>2, <1>3

\* Poisoned reverse: from exact routes prepare_msg makes exact messages.
LEMMA PreparedExact ==
  ASSUME NEW n \in Node, NEW command, NEW t \in Table, NEW isup,
         \A d \in Dest : ExactRoute(n, d, t),
         NEW m \in Prepared(n, command, t, isup)
  PROVE  ExactMessage(m)
<1>1. PICK i \in Ifaces[n] : m = [to |-> TakenFor[Peer[i]], command |-> command,
                                  costs |-> Advertised(t, i)]
  BY DEF Prepared
<1>0. /\ i \in Addr /\ Owner[i] = n /\ Peer[i] \in Addr
      /\ Neighbour(Peer[i]) = n /\ Owner[Peer[i]] = Neighbour(i)
  BY TopologyAssumption DEF Neighbour, Ifaces
<1>2. /\ i \in Addr /\ Owner[i] = n /\ m.to \in Addr
      /\ Neighbour(m.to) = n /\ Owner[m.to] = Neighbour(i)
  BY <1>0, <1>1, TakenForParallel
<1> SUFFICES ASSUME NEW d \in Dest, m.costs[d] # MaxCost
             PROVE  m.costs[d] = Dist[n][d] /\ Nearer(m.to, d)
  BY <1>2 DEF ExactMessage
<1>3. t[d] # NoEntry /\ m.costs[d] = t[d].cost /\ (d = i \/ t[d].nextHop # i)
  BY <1>1 DEF Advertised
<1>4. m.costs[d] = Dist[n][d]
  BY <1>3 DEF ExactRoute
<1>5. ~Nearer(i, d)
  <2>1. CASE Owner[d] = n
    BY <1>2, <2>1, LinkDist, DistAssumption DEF Nearer
  <2>2. CASE Owner[d] # n
    <3>1. t[d].nextHop \in Ifaces[n] /\ Nearer(t[d].nextHop, d) /\ t[d].nextHop # i
      BY <1>2, <1>3, <2>2 DEF ExactRoute
    <3> QED
      BY <1>2, <3>1, TreeAssumption DEF Ifaces
  <2> QED
    BY <2>1, <2>2
<1>6. Nearer(m.to, d)
  BY <1>2, <1>5, LinkDist DEF Nearer
<1> QED
  BY <1>4, <1>6

\* An own entry is exact.
LEMMA OwnEntryExact ==
  ASSUME NEW d \in Dest, NEW t, t[d] = OwnEntry(d)
  PROVE  ExactRoute(Owner[d], d, t)
  BY DistAssumption, TopologyAssumption DEF ExactRoute, OwnEntry, Ifaces

\* The table a node starts with is exact.
LEMMA OwnTableExact ==
  ASSUME NEW n \in Node, NEW d \in Dest
  PROVE  ExactRoute(n, d, OwnTable(n))
<1>1. CASE Owner[d] = n
  <2>1. OwnTable(n)[d] = OwnEntry(d)
    BY <1>1 DEF OwnTable
  <2> QED
    BY <1>1, <2>1, OwnEntryExact
<1>2. CASE Owner[d] # n
  BY <1>2 DEF OwnTable, ExactRoute
<1> QED
  BY <1>1, <1>2

\* An entry is exact wherever it comes from.
LEMMA NextRouteExact ==
  ASSUME TypeOK, TreeInv, [Next]_vars, NEW n \in Node, NEW d \in Dest
  PROVE  ExactRoute(n, d, rtable'[n])
<1> SUFFICES ASSUME HasRoute(n, d)'
             PROVE  ExactRoute(n, d, rtable'[n])
  BY DEF ExactRoute, HasRoute
<1>1. CASE rtable'[n][d] = rtable[n][d]
  BY <1>1 DEF TreeInv, ExactRoute
<1>2. CASE Aged(n, d)
  <2>1. rtable[n][d] \in Entry
    BY <1>2 DEF Aged, HasRoute, TypeOK
  <2>2. /\ rtable'[n][d].cost = rtable[n][d].cost
        /\ rtable'[n][d].nextHop = rtable[n][d].nextHop
    BY <1>2, <2>1 DEF Aged, Entry
  <2> QED
    BY <1>2, <2>2 DEF Aged, HasRoute, TreeInv, ExactRoute
<1>3. CASE OwnAdded(n, d)
  BY <1>3, OwnEntryExact DEF OwnAdded
<1>4. ASSUME NEW m \in UnderWay, LearntFrom(n, d, m)
      PROVE  ExactRoute(n, d, rtable'[n])
  <2>1. /\ Owner[d] # n /\ Owner[m.to] = n /\ m.costs[d] # MaxCost
        /\ rtable'[n][d] = [cost |-> m.costs[d] + 1, nextHop |-> m.to, ticks |-> 0]
    BY <1>4 DEF LearntFrom
  <2>2. m.costs[d] = Dist[Neighbour(m.to)][d] /\ Nearer(m.to, d)
    BY <2>1 DEF TreeInv, ExactMessage
  <2>3. m.to \in Addr /\ m.to \in Ifaces[n]
    BY <2>1, MessageParts DEF Ifaces
  <2>4. m.costs[d] + 1 = Dist[n][d]
    BY <2>1, <2>2, <2>3, LinkDist
  <2> QED
    BY <2>1, <2>2, <2>3, <2>4 DEF ExactRoute
<1> QED
  BY <1>1, <1>2, <1>3, <1>4, Origins DEF Origin

\* A message is exact when it is new, and stays so.
LEMMA NextMessageExact ==
  ASSUME TypeOK, TreeInv, [Next]_vars, NEW m \in UnderWay'
  PROVE  ExactMessage(m)
<1>1. CASE m \in UnderWay
  BY <1>1 DEF TreeInv
<1>2. CASE m \notin UnderWay
  <2>1. NewMessage(m)
    BY <1>2, NewMessages
  <2>2. ASSUME NEW n \in Node, m \in Prepared(n, "request", OwnTable(n), up')
        PROVE  ExactMessage(m)
    BY <2>2, PreparedExact, OwnTableExact, OwnTableType
  <2>3. ASSUME NEW n \in Node, m \in Prepared(n, "response", rtable[n], up)
        PROVE  ExactMessage(m)
    <3>1. rtable[n] \in Table /\ \A d \in Dest : ExactRoute(n, d, rtable[n])
      BY DEF TreeInv, TypeOK, Table
    <3> QED
      BY <2>3, <3>1, PreparedExact
  <2> QED
    BY <2>1, <2>2, <2>3 DEF NewMessage
<1> QED
  BY <1>1, <1>2

LEMMA NextTree == TypeOK /\ TreeInv /\ [Next]_vars => TreeInv'
<1> SUFFICES ASSUME TypeOK, TreeInv, [Next]_vars
             PROVE  /\ \A n \in Node, d \in Dest : ExactRoute(n, d, rtable'[n])
                    /\ \A m \in UnderWay' : ExactMessage(m)
  BY DEF TreeInv, ExactRoute, ExactMessage
<1> QED
  BY NextRouteExact, NextMessageExact

\* In every network without loops every learnt route has the true distance and
\* leads nearer, whatever is lost, taken down or restarted: poisoned reverse keeps
\* such a network from counting to infinity and from routing in a circle.
THEOREM TreeRoutesExactCorrect == Spec => []TreeRoutesExact
<1>1. Init => TreeInv
  BY DEF Init, TreeInv, ExactRoute, EmptyTable, UnderWay
<1>2. TypeOK /\ TreeInv => TreeRoutesExact
  BY DEF TreeInv, TreeRoutesExact, ExactRoute, Learnt
<1> QED
  BY <1>1, <1>2, NextTree, TypeCorrect, PTL DEF Spec

=============================================================================
