-------------------------- MODULE RipNetworkProofs --------------------------
(***************************************************************************)
(* Proofs about RipNetwork, for every network and every bound.             *)
(***************************************************************************)
EXTENDS RipNetwork, LeastElement, TLAPS

Table == [Dest -> Entry \cup {NoEntry}]

-----------------------------------------------------------------------------
(* The interface a datagram is taken for.                                  *)

\* get_interfaceid_with_port finds an interface of the same node whose link leads
\* to the same neighbour.
LEMMA TakenForParallel ==
  ASSUME NEW i \in Addr
  PROVE  /\ TakenFor[i] \in Addr
         /\ Owner[TakenFor[i]] = Owner[i]
         /\ Neighbour(TakenFor[i]) = Neighbour(i)
<1> DEFINE Indexes == {Index[j] : j \in Parallel[i]}
<1>1. /\ Parallel[i] \subseteq Addr /\ i \in Parallel[i]
      /\ \A j \in Parallel[i] : Index[j] \in Nat
  BY TopologyAssumption DEF Parallel, Ifaces
<1>2. PICK x \in Indexes : \A y \in Indexes : x <= y
  <2>1. Indexes \in SUBSET Nat /\ Indexes # {}
    BY <1>1
  <2> HIDE DEF Indexes
  <2> QED
    BY <2>1, LeastNatural
<1>3. \E j \in Parallel[i] : \A k \in Parallel[i] : Index[j] <= Index[k]
  BY <1>2
<1>4. TakenFor[i] \in Parallel[i]
  BY <1>3 DEF TakenFor
<1> QED
  BY <1>4, TopologyAssumption DEF Parallel, Ifaces

-----------------------------------------------------------------------------
(* The operators on one table.                                             *)

\* What prepare_msg_ifc sends is a list of costs.
LEMMA AdvertisedType ==
  ASSUME NEW t \in Table, NEW i \in Addr
  PROVE  Advertised(t, i) \in [Dest -> Cost]
  BY BoundAssumption DEF Advertised, Table, Entry, Cost

\* An own entry is an entry.
LEMMA OwnEntryType ==
  ASSUME NEW i \in Addr
  PROVE  OwnEntry(i) \in Entry
  BY BoundAssumption DEF OwnEntry, Entry, Cost

\* The table a node starts with is a table.
LEMMA OwnTableType ==
  ASSUME NEW n \in Node
  PROVE  OwnTable(n) \in Table
  BY OwnEntryType, TopologyAssumption DEF OwnTable, Table

\* update_route_table makes a table of a table: no cost exceeds RIP_MAX_COST.
LEMMA LearnedType ==
  ASSUME NEW t \in Table, NEW i \in Addr, NEW costs \in [Dest -> Cost]
  PROVE  Learned(t, i, costs) \in Table
<1> SUFFICES ASSUME NEW d \in Dest
             PROVE  Learned(t, i, costs)[d] \in Entry \cup {NoEntry}
  BY DEF Learned, Table
<1>1. CASE costs[d] = MaxCost
  BY <1>1 DEF Learned, Table
<1>2. CASE costs[d] # MaxCost
  <2>1. costs[d] + 1 \in Cost
    BY <1>2, BoundAssumption DEF Cost
  <2>2. [cost |-> costs[d] + 1, nextHop |-> i, ticks |-> 0] \in Entry
    BY <2>1, BoundAssumption DEF Entry
  <2> QED
    BY <2>2 DEF Learned, Table
<1> QED
  BY <1>1, <1>2

\* remove_ifc_entry only erases.
LEMMA WithoutIfcType ==
  ASSUME NEW t \in Table, NEW i \in Addr
  PROVE  WithoutIfc(t, i) \in Table
  BY DEF WithoutIfc, Table

\* A tick of the update timer keeps a table a table.
LEMMA OlderType ==
  ASSUME TypeOK, NEW n \in Node
  PROVE  Older(n) \in Table
<1> SUFFICES ASSUME NEW d \in Dest, d \in Learnt(n), rtable[n][d].ticks < MustExpire
             PROVE  [rtable[n][d] EXCEPT !.ticks = @ + 1] \in Entry
  BY DEF Older, Table, TypeOK
<1>1. rtable[n][d] \in Entry
  BY DEF Learnt, TypeOK
<1> QED
  BY <1>1, BoundAssumption DEF Entry

\* The messages of a prepare_msg are messages, each for the peer of an interface.
LEMMA PreparedType ==
  ASSUME NEW n \in Node, NEW command \in {"request", "response"},
         NEW t \in Table, NEW isup
  PROVE  Prepared(n, command, t, isup) \subseteq Message
<1> SUFFICES ASSUME NEW i \in Ifaces[n]
             PROVE  [to |-> TakenFor[Peer[i]], command |-> command,
                      costs |-> Advertised(t, i)] \in Message
  BY DEF Prepared
<1>1. i \in Addr /\ TakenFor[Peer[i]] \in Addr
  BY TopologyAssumption, TakenForParallel DEF Ifaces
<1> QED
  BY <1>1, AdvertisedType DEF Message

\* Sending adds the prepared messages at most.
LEMMA SendAdds ==
  ASSUME NEW kept, NEW new, Send(kept, new)
  PROVE  messages' \subseteq kept \cup new
  BY DEF Send

-----------------------------------------------------------------------------
(* What a step may do.                                                     *)

\* What TypeOK says of a message that is under way.
LEMMA MessageParts ==
  ASSUME TypeOK, NEW m \in UnderWay
  PROVE  /\ m \in Message /\ m.to \in Addr /\ m.costs \in [Dest -> Cost]
         /\ Owner[m.to] \in Node /\ rtable[Owner[m.to]] \in Table
  BY TopologyAssumption DEF TypeOK, Message, Table, UnderWay

\* A message is new because some node has prepared it: a request from the table it
\* starts with, a response from the one it has.
NewMessage(m) ==
  \E n \in Node : \/ Start(n) /\ m \in Prepared(n, "request", OwnTable(n), up')
                  \/ m \in Prepared(n, "response", rtable[n], up)

LEMMA NewMessages ==
  ASSUME TypeOK, [Next]_vars, NEW m \in UnderWay', m \notin UnderWay
  PROVE  NewMessage(m)
<1>0. \A i \in Addr : Owner[i] \in Node
  BY TopologyAssumption
<1> USE DEF UnderWay, NewMessage
<1>1. ASSUME NEW n \in Node, Start(n)
      PROVE  NewMessage(m)
  BY <1>1, SendAdds DEF Start
<1>2. ASSUME NEW n \in Node, Update(n)
      PROVE  NewMessage(m)
  BY <1>2, SendAdds DEF Update
<1>3. ASSUME NEW i \in Addr, AnnounceRest(i)
      PROVE  NewMessage(m)
  BY <1>0, <1>3, SendAdds DEF AnnounceRest
<1>4. ASSUME NEW o \in UnderWay, NEW kept \in SUBSET messages, Answer(o, kept),
             late' \subseteq late
      PROVE  NewMessage(m)
  BY <1>4, MessageParts, SendAdds DEF Answer
<1>5. ASSUME NEW o \in messages, Receive(o) \/ Lose(o)
      PROVE  NewMessage(m)
  <2>1. CASE ReceiveRequest(o)
    <3>1. Answer(o, messages \ {o}) /\ late' = late
      BY <2>1 DEF ReceiveRequest
    <3> QED
      BY <1>4, <3>1
  <2> QED
    BY <1>5, <2>1 DEF Receive, DropOnDownIfc, ReceiveResponse, Learn, Lose
<1>6. ASSUME NEW o \in late, ReceiveLate(o)
      PROVE  NewMessage(m)
  <2>1. CASE Answer(o, messages)
    <3>1. late' \subseteq late
      BY <1>6 DEF ReceiveLate
    <3> QED
      BY <1>4, <2>1, <3>1
  <2> QED
    BY <1>6, <2>1 DEF ReceiveLate, Learn
<1>7. ASSUME NEW n \in Node, Quit(n) \/ Refresh(n)
      PROVE  FALSE
  BY <1>7 DEF Quit, Refresh
<1>8. ASSUME NEW i \in Addr, Down(i) \/ Up(i) \/ RemoveEntries(i) \/ AddEntry(i)
      PROVE  FALSE
  BY <1>8 DEF Down, Up, RemoveEntries, AddEntry
<1>9. CASE UNCHANGED vars
  BY <1>9 DEF vars
<1>10. \A n \in Node : Ifaces[n] \subseteq Addr
  BY DEF Ifaces
<1> QED
  BY <1>1, <1>2, <1>3, <1>5, <1>6, <1>7, <1>8, <1>9, <1>10
     DEF Next, System, Timers, Commands, MainGoesOn, OutGoesOn, Network

\* Where an entry of n for d comes from in a step: it stays, it ages, it is n's own
\* address and put in at the start or by "up", or it is learnt from a message because
\* there was none or a dearer one.
Aged(n, d) ==
  /\ Owner[d] # n /\ HasRoute(n, d)
  /\ rtable[n][d].ticks < MustExpire
  /\ rtable'[n][d] = [rtable[n][d] EXCEPT !.ticks = @ + 1]

OwnAdded(n, d) ==
  /\ Owner[d] = n /\ rtable'[n][d] = OwnEntry(d)
  /\ (n \notin running /\ up'[d]) \/ main[d] = "add"

LearntFrom(n, d, m) ==
  /\ Owner[d] # n /\ Owner[m.to] = n /\ m.costs[d] # MaxCost
  /\ HasRoute(n, d) => rtable[n][d].cost > m.costs[d] + 1
  /\ rtable'[n][d] = [cost |-> m.costs[d] + 1, nextHop |-> m.to, ticks |-> 0]

Origin(n, d) == \/ rtable'[n][d] = rtable[n][d]
                \/ Aged(n, d)
                \/ OwnAdded(n, d)
                \/ \E m \in UnderWay : LearntFrom(n, d, m)

\* update_route_table.
LEMMA LearnOrigin ==
  ASSUME TypeOK, NEW m \in UnderWay, NEW kept, Learn(m, kept),
         NEW n \in Node, NEW d \in Dest, HasRoute(n, d)'
  PROVE  Origin(n, d)
<1>1. rtable' = [rtable EXCEPT ![Owner[m.to]] = Learned(rtable[Owner[m.to]], m.to, m.costs)]
  BY DEF Learn
<1>2. rtable \in [Node -> Table] /\ Owner[m.to] \in Node
  BY MessageParts DEF TypeOK, Table
<1>3. CASE n # Owner[m.to]
  BY <1>1, <1>2, <1>3 DEF Origin
<1>4. CASE n = Owner[m.to]
  <2>1. rtable'[n][d] = Learned(rtable[n], m.to, m.costs)[d]
    BY <1>1, <1>2, <1>4
  <2>2. \/ rtable'[n][d] = rtable[n][d]
        \/ LearntFrom(n, d, m)
    BY <1>4, <2>1 DEF Learned, LearntFrom, HasRoute
  <2> QED
    BY <2>2 DEF Origin
<1> QED
  BY <1>3, <1>4

LEMMA Origins ==
  ASSUME TypeOK, [Next]_vars, NEW k \in Node, NEW d \in Dest, HasRoute(k, d)'
  PROVE  Origin(k, d)
<1>0. /\ rtable \in [Node -> Table] /\ d \in Addr
      /\ \A i \in Addr : Owner[i] \in Node
      /\ \A n \in Node : Ifaces[n] \subseteq Addr
  BY TopologyAssumption DEF TypeOK, Table, Ifaces
<1>a. rtable' = rtable => Origin(k, d)
  BY DEF Origin
<1>b. rtable'[k][d] \in {rtable[k][d], NoEntry} => Origin(k, d)
  BY DEF Origin, HasRoute
<1>1. ASSUME NEW n \in Node, Start(n)
      PROVE  Origin(k, d)
  <2>1. rtable' = [rtable EXCEPT ![n] = OwnTable(n)] /\ n \notin running
        /\ up' = [i \in Addr |-> up[i] \/ Owner[i] = n]
    BY <1>1 DEF Start
  <2>2. CASE k = n /\ Owner[d] = n
    <3>1. rtable'[k][d] = OwnEntry(d) /\ up'[d]
      BY <1>0, <2>1, <2>2 DEF OwnTable
    <3> QED
      BY <2>1, <2>2, <3>1 DEF Origin, OwnAdded
  <2> QED
    BY <1>0, <1>b, <2>1, <2>2 DEF OwnTable
<1>2. ASSUME NEW n \in Node, Quit(n)
      PROVE  Origin(k, d)
  BY <1>0, <1>2, <1>b DEF Quit, EmptyTable
<1>3. ASSUME NEW i \in Addr, RemoveEntries(i)
      PROVE  Origin(k, d)
  BY <1>0, <1>3, <1>b DEF RemoveEntries, WithoutIfc
<1>4. ASSUME NEW i \in Addr, AddEntry(i)
      PROVE  Origin(k, d)
  <2>1. /\ main[i] = "add"
        /\ rtable' = [rtable EXCEPT ![Owner[i]] =
                        [e \in Dest |-> IF e = i THEN OwnEntry(i) ELSE @[e]]]
    BY <1>4 DEF AddEntry
  <2>2. CASE k = Owner[i] /\ d = i
    <3>1. rtable'[k][d] = OwnEntry(d)
      BY <1>0, <2>1, <2>2
    <3> QED
      BY <2>1, <2>2, <3>1 DEF Origin, OwnAdded
  <2> QED
    BY <1>0, <1>b, <2>1, <2>2
<1>5. ASSUME NEW n \in Node, Update(n)
      PROVE  Origin(k, d)
  <2>1. rtable' = [rtable EXCEPT ![n] = Older(n)]
    BY <1>5 DEF Update
  <2>2. CASE k = n
    <3>1. rtable'[k][d] = Older(k)[d]
      BY <1>0, <2>1, <2>2
    <3>2. CASE d \in Learnt(k) /\ rtable[k][d].ticks < MustExpire
      BY <3>1, <3>2 DEF Older, Learnt, Origin, Aged, HasRoute
    <3> QED
      BY <1>b, <3>1, <3>2 DEF Older
  <2> QED
    BY <1>0, <1>b, <2>1, <2>2
<1>6. ASSUME NEW n \in Node, Refresh(n)
      PROVE  Origin(k, d)
  BY <1>0, <1>6, <1>b DEF Refresh
<1>7. ASSUME NEW i \in Addr, Down(i) \/ Up(i) \/ AnnounceRest(i)
      PROVE  rtable' = rtable
  BY <1>7 DEF Down, Up, AnnounceRest
<1>8. ASSUME NEW m \in messages, Receive(m) \/ Lose(m)
      PROVE  Origin(k, d)
  <2>1. CASE ReceiveResponse(m)
    BY <2>1, LearnOrigin DEF ReceiveResponse, UnderWay
  <2> QED
    BY <1>8, <1>a, <2>1 DEF Receive, DropOnDownIfc, ReceiveRequest, Answer, Lose
<1>9. ASSUME NEW m \in late, ReceiveLate(m)
      PROVE  Origin(k, d)
  <2>1. CASE Learn(m, messages)
    BY <2>1, LearnOrigin DEF UnderWay
  <2> QED
    BY <1>9, <1>a, <2>1 DEF ReceiveLate, Answer
<1>10. CASE UNCHANGED vars
  BY <1>10, <1>a DEF vars
<1> QED
  BY <1>0, <1>a, <1>1, <1>2, <1>3, <1>4, <1>5, <1>6, <1>7, <1>8, <1>9, <1>10
     DEF Next, System, Timers, Commands, MainGoesOn, OutGoesOn, Network

-----------------------------------------------------------------------------
(* Type correctness.                                                       *)

LEMMA InitType == Init => TypeOK
  BY DEF Init, TypeOK, EmptyTable, Step

\* Every message under way is one.
LEMMA NextMessagesType ==
  ASSUME TypeOK, [Next]_vars
  PROVE  messages' \subseteq Message /\ late' \subseteq Message
<1> SUFFICES ASSUME NEW m \in UnderWay'
             PROVE  m \in Message
  BY DEF UnderWay
<1>1. CASE m \in UnderWay
  BY <1>1, MessageParts
<1>2. CASE m \notin UnderWay
  <2>1. NewMessage(m)
    BY <1>2, NewMessages
  <2>2. \A n \in Node : rtable[n] \in Table /\ OwnTable(n) \in Table
    BY OwnTableType DEF TypeOK, Table
  <2> QED
    BY <2>1, <2>2, PreparedType DEF NewMessage
<1> QED
  BY <1>1, <1>2

\* Every table is one.
LEMMA NextTableType ==
  ASSUME TypeOK, [Next]_vars
  PROVE  rtable' \in [Node -> Table]
<1>0. /\ rtable \in [Node -> Table]
      /\ \A i \in Addr : Owner[i] \in Node
      /\ \A n \in Node : Ifaces[n] \subseteq Addr
  BY TopologyAssumption DEF TypeOK, Table, Ifaces
<1>a. ASSUME NEW n \in Node, NEW t \in Table, rtable' = [rtable EXCEPT ![n] = t]
      PROVE  rtable' \in [Node -> Table]
  BY <1>0, <1>a
<1>1. ASSUME NEW n \in Node, Start(n) \/ Quit(n)
      PROVE  rtable' \in [Node -> Table]
  <2>1. EmptyTable \in Table
    BY DEF EmptyTable, Table
  <2> QED
    BY <1>1, <1>a, <2>1, OwnTableType DEF Start, Quit
<1>2. ASSUME NEW i \in Addr, RemoveEntries(i)
      PROVE  rtable' \in [Node -> Table]
  <2>1. rtable' = [rtable EXCEPT ![Owner[i]] = WithoutIfc(rtable[Owner[i]], i)]
    BY <1>2 DEF RemoveEntries
  <2> QED
    BY <1>0, <1>a, <2>1, WithoutIfcType
<1>3. ASSUME NEW i \in Addr, AddEntry(i)
      PROVE  rtable' \in [Node -> Table]
  <2> DEFINE t == [d \in Dest |-> IF d = i THEN OwnEntry(i) ELSE rtable[Owner[i]][d]]
  <2>1. rtable' = [rtable EXCEPT ![Owner[i]] = t]
    BY <1>3 DEF AddEntry
  <2>2. t \in Table
    BY <1>0, OwnEntryType DEF Table
  <2> QED
    BY <1>0, <1>a, <2>1, <2>2
<1>4. ASSUME NEW n \in Node, Update(n)
      PROVE  rtable' \in [Node -> Table]
  BY <1>4, <1>a, OlderType DEF Update
<1>5. ASSUME NEW n \in Node, Refresh(n)
      PROVE  rtable' \in [Node -> Table]
  <2>1. PICK expired :
          rtable' = [rtable EXCEPT ![n] =
                       [d \in Dest |-> IF d \in expired THEN NoEntry ELSE @[d]]]
    BY <1>5 DEF Refresh
  <2> DEFINE t == [d \in Dest |-> IF d \in expired THEN NoEntry ELSE rtable[n][d]]
  <2>2. t \in Table
    BY <1>0 DEF Table
  <2> QED
    BY <1>a, <2>1, <2>2
<1>6. ASSUME NEW m \in UnderWay, NEW kept, Learn(m, kept)
      PROVE  rtable' \in [Node -> Table]
  <2>1. rtable' = [rtable EXCEPT ![Owner[m.to]] =
                     Learned(rtable[Owner[m.to]], m.to, m.costs)]
    BY <1>6 DEF Learn
  <2> QED
    BY <1>a, <2>1, MessageParts, LearnedType
<1>7. ASSUME NEW i \in Addr, Down(i) \/ Up(i) \/ AnnounceRest(i)
      PROVE  rtable' = rtable
  BY <1>7 DEF Down, Up, AnnounceRest
<1>8. ASSUME NEW m \in messages, Receive(m) \/ Lose(m)
      PROVE  rtable' \in [Node -> Table]
  BY <1>0, <1>6, <1>8
     DEF Receive, ReceiveResponse, DropOnDownIfc, ReceiveRequest, Answer, Lose, UnderWay
<1>9. ASSUME NEW m \in late, ReceiveLate(m)
      PROVE  rtable' \in [Node -> Table]
  BY <1>0, <1>6, <1>9 DEF ReceiveLate, Answer, UnderWay
<1>10. CASE UNCHANGED vars
  BY <1>0, <1>10 DEF vars
<1> QED
  BY <1>0, <1>1, <1>2, <1>3, <1>4, <1>5, <1>7, <1>8, <1>9, <1>10
     DEF Next, System, Timers, Commands, MainGoesOn, OutGoesOn, Network

\* The processes, interfaces and commands.
LEMMA NextControlType ==
  ASSUME TypeOK, [Next]_vars
  PROVE  /\ running' \in SUBSET Node
         /\ up' \in [Addr -> BOOLEAN]
         /\ main' \in [Addr -> Step]
<1>0. \A n \in Node : Ifaces[n] \subseteq Addr
  BY DEF Ifaces
<1> DEFINE Typed == running' \in SUBSET Node /\ up' \in [Addr -> BOOLEAN] /\ main' \in [Addr -> Step]
<1> USE DEF TypeOK, Step
<1>1. ASSUME NEW n \in Node, Start(n) \/ Quit(n) \/ Update(n) \/ Refresh(n)
      PROVE  Typed
  BY <1>1 DEF Start, Quit, Update, Refresh
<1>2. ASSUME NEW i \in Addr,
             Down(i) \/ Up(i) \/ RemoveEntries(i) \/ AnnounceRest(i) \/ AddEntry(i)
      PROVE  Typed
  <2>1. CASE Down(i)
    BY <2>1 DEF Down
  <2>2. CASE Up(i)
    BY <2>2 DEF Up
  <2>3. CASE RemoveEntries(i)
    BY <2>3 DEF RemoveEntries
  <2>4. CASE AnnounceRest(i)
    BY <2>4 DEF AnnounceRest
  <2>5. CASE AddEntry(i)
    BY <2>5 DEF AddEntry
  <2> QED
    BY <1>2, <2>1, <2>2, <2>3, <2>4, <2>5
<1>3. ASSUME NEW m \in UnderWay, Receive(m) \/ Lose(m) \/ ReceiveLate(m)
      PROVE  Typed
  BY <1>3 DEF Receive, ReceiveResponse, DropOnDownIfc, ReceiveRequest, Lose, ReceiveLate
<1>4. CASE UNCHANGED vars
  BY <1>4 DEF vars
<1> QED
  BY <1>0, <1>1, <1>2, <1>3, <1>4
     DEF Next, System, Timers, Commands, MainGoesOn, OutGoesOn, Network, UnderWay

LEMMA NextType == TypeOK /\ [Next]_vars => TypeOK'
  BY NextMessagesType, NextTableType, NextControlType DEF TypeOK, Table

\* The state of RipLayer keeps its shape; in particular no route costs more than
\* RIP_MAX_COST, though only the neighbours' cost of exactly that is tested.
THEOREM TypeCorrect == Spec => []TypeOK
  BY InitType, NextType, PTL DEF Spec

-----------------------------------------------------------------------------
(* A node's own addresses.                                                 *)

\* LocalEntries is not inductive alone: what the main thread is at must agree with the
\* flag that LinkLayer::up and LinkLayer::down have set.
MainInv ==
  \A i \in Addr : /\ main[i] # "none" => Owner[i] \in running
                  /\ main[i] = "add" => up[i]
                  /\ main[i] = "erase" => ~up[i]

LEMMA NextMain == TypeOK /\ MainInv /\ [Next]_vars => MainInv'
<1> DEFINE Agrees(j) == /\ main[j] # "none" => Owner[j] \in running
                        /\ main[j] = "add" => up[j]
                        /\ main[j] = "erase" => ~up[j]
<1> SUFFICES ASSUME TypeOK, MainInv, [Next]_vars, NEW j \in Addr
             PROVE  Agrees(j)'
  BY DEF MainInv
<1>0. /\ Agrees(j) /\ Owner[j] \in Node
      /\ \A n \in Node : Ifaces[n] \subseteq Addr
      /\ j \in Ifaces[Owner[j]]
  BY TopologyAssumption DEF MainInv, Ifaces
<1> USE DEF TypeOK, Step
<1>1. ASSUME NEW n \in Node, Start(n)
      PROVE  Agrees(j)'
  BY <1>0, <1>1 DEF Start
<1>2. ASSUME NEW n \in Node, Quit(n)
      PROVE  Agrees(j)'
  BY <1>0, <1>2 DEF Quit, Idle
<1>3. ASSUME NEW n \in Node, Update(n) \/ Refresh(n)
      PROVE  Agrees(j)'
  BY <1>0, <1>3 DEF Update, Refresh
<1>4. ASSUME NEW i \in Addr, Down(i) \/ Up(i)
      PROVE  Agrees(j)'
  BY <1>0, <1>4 DEF Down, Up
<1>5. ASSUME NEW i \in Addr, RemoveEntries(i) \/ AnnounceRest(i) \/ AddEntry(i)
      PROVE  Agrees(j)'
  BY <1>0, <1>5 DEF RemoveEntries, AnnounceRest, AddEntry
<1>6. ASSUME NEW m \in UnderWay, Receive(m) \/ Lose(m) \/ ReceiveLate(m)
      PROVE  Agrees(j)'
  BY <1>0, <1>6 DEF Receive, ReceiveResponse, DropOnDownIfc, ReceiveRequest, Lose, ReceiveLate
<1>7. CASE UNCHANGED vars
  BY <1>0, <1>7 DEF vars
<1> QED
  BY <1>0, <1>1, <1>2, <1>3, <1>4, <1>5, <1>6, <1>7
     DEF Next, System, Timers, Commands, MainGoesOn, OutGoesOn, Network, UnderWay

\* The main thread agrees with the interfaces' flags, always.
LEMMA MainAgrees == Spec => []MainInv
<1>1. Init => MainInv
  BY DEF Init, MainInv
<1> QED
  BY <1>1, NextMain, TypeCorrect, PTL DEF Spec

LEMMA NextLocal == TypeOK /\ MainInv /\ LocalEntries /\ [Next]_vars => LocalEntries'
<1> SUFFICES ASSUME TypeOK, MainInv, LocalEntries, [Next]_vars, NEW j \in Dest
             PROVE  /\ rtable'[Owner[j]][j] \in {OwnEntry(j), NoEntry}
                    /\ main'[j] \in {"none", "announce"} => (HasRoute(Owner[j], j)' <=> up'[j])
  BY DEF LocalEntries
<1> DEFINE k == Owner[j]
<1>0. /\ j \in Addr /\ k \in Node /\ j \in Ifaces[k]
      /\ \A n \in Node : Ifaces[n] \subseteq Addr
      /\ rtable[k][j] \in {OwnEntry(j), NoEntry}
      /\ OwnEntry(j) # NoEntry /\ OwnEntry(j).nextHop = j
  BY TopologyAssumption, OwnEntryType, NoEntryAssumption DEF LocalEntries, OwnEntry, Ifaces
<1>1. rtable'[k][j] \in {OwnEntry(j), rtable[k][j], NoEntry}
  <2>1. CASE HasRoute(k, j)'
    BY <1>0, <2>1, Origins DEF Origin, Aged, OwnAdded, LearntFrom
  <2> QED
    BY <2>1 DEF HasRoute
<1> DEFINE Stands == main'[j] \in {"none", "announce"} => (HasRoute(k, j)' <=> up'[j])
<1>2. /\ main[j] \in {"none", "announce"} => (HasRoute(k, j) <=> up[j])
      /\ main[j] = "add" => up[j]
      /\ main[j] = "erase" => ~up[j]
      /\ rtable \in [Node -> Table] /\ up \in [Addr -> BOOLEAN] /\ main \in [Addr -> Step]
  BY <1>0 DEF LocalEntries, MainInv, TypeOK, Table
<1>3. Stands
  <2>a. ASSUME rtable'[k][j] = rtable[k][j], UNCHANGED <<up, main>>
        PROVE  Stands
    BY <1>2, <2>a DEF HasRoute
  <2>1. ASSUME NEW n \in Node, Start(n)
        PROVE  Stands
    <3>1. CASE n = k
      BY <1>0, <1>2, <2>1, <3>1 DEF Start, OwnTable, HasRoute
    <3>2. CASE n # k
      <4>1. rtable'[k] = rtable[k] /\ up'[j] = up[j] /\ main' = main
        BY <1>0, <1>2, <2>1, <3>2 DEF Start
      <4> QED
        BY <1>2, <4>1 DEF HasRoute
    <3> QED
      BY <3>1, <3>2
  <2>2. ASSUME NEW n \in Node, Quit(n)
        PROVE  Stands
    <3>1. CASE n = k
      BY <1>0, <1>2, <2>2, <3>1 DEF Quit, EmptyTable, HasRoute
    <3>2. CASE n # k
      <4>1. rtable'[k] = rtable[k] /\ up'[j] = up[j] /\ main' = main
        BY <1>0, <1>2, <2>2, <3>2 DEF Quit
      <4> QED
        BY <1>2, <4>1 DEF HasRoute
    <3> QED
      BY <3>1, <3>2
  <2>3. ASSUME NEW i \in Addr, Down(i) \/ Up(i)
        PROVE  Stands
    <3>1. rtable' = rtable
      BY <2>3 DEF Down, Up
    <3>2. CASE i = j
      BY <1>0, <1>2, <2>3, <3>2 DEF Down, Up, Step
    <3>3. CASE i # j
      <4>1. up'[j] = up[j] /\ main'[j] = main[j]
        BY <1>0, <1>2, <2>3, <3>3 DEF Down, Up
      <4> QED
        BY <1>2, <3>1, <4>1 DEF HasRoute
    <3> QED
      BY <3>2, <3>3
  <2>4. ASSUME NEW i \in Addr, RemoveEntries(i)
        PROVE  Stands
    <3>1. /\ main' = [main EXCEPT ![i] = "announce"] /\ up' = up /\ main[i] = "erase"
          /\ rtable' = [rtable EXCEPT ![Owner[i]] = WithoutIfc(rtable[Owner[i]], i)]
      BY <2>4 DEF RemoveEntries
    <3>2. CASE i = j
      <4>1. rtable'[k][j] = NoEntry
        BY <1>0, <1>2, <3>1, <3>2 DEF WithoutIfc
      <4> QED
        BY <1>2, <3>1, <3>2, <4>1 DEF HasRoute
    <3>3. CASE i # j
      <4>1. rtable'[k][j] = rtable[k][j]
        BY <1>0, <1>2, <3>1, <3>3 DEF WithoutIfc
      <4>2. main'[j] = main[j]
        BY <1>0, <1>2, <3>1, <3>3
      <4> QED
        BY <1>2, <3>1, <4>1, <4>2 DEF HasRoute
    <3> QED
      BY <3>2, <3>3
  <2>5. ASSUME NEW i \in Addr, AddEntry(i)
        PROVE  Stands
    <3>1. /\ main' = [main EXCEPT ![i] = "none"] /\ up' = up /\ main[i] = "add"
          /\ rtable' = [rtable EXCEPT ![Owner[i]] =
                          [d \in Dest |-> IF d = i THEN OwnEntry(i) ELSE @[d]]]
      BY <2>5 DEF AddEntry
    <3>2. CASE i = j
      <4>1. rtable'[k][j] = OwnEntry(j)
        BY <1>0, <1>2, <3>1, <3>2
      <4> QED
        BY <1>0, <1>2, <3>1, <3>2, <4>1 DEF HasRoute
    <3>3. CASE i # j
      <4>1. rtable'[k][j] = rtable[k][j]
        BY <1>0, <1>2, <3>1, <3>3
      <4>2. main'[j] = main[j]
        BY <1>0, <1>2, <3>1, <3>3
      <4> QED
        BY <1>2, <3>1, <4>1, <4>2 DEF HasRoute
    <3> QED
      BY <3>2, <3>3
  <2>6. ASSUME NEW i \in Addr, AnnounceRest(i)
        PROVE  Stands
    BY <1>0, <1>2, <2>6 DEF AnnounceRest, HasRoute
  <2>7. ASSUME NEW n \in Node, Update(n) \/ Refresh(n)
        PROVE  Stands
    BY <1>0, <1>2, <2>7, <2>a DEF Update, Older, Refresh, Learnt
  <2>8. ASSUME NEW m \in UnderWay, NEW kept, Learn(m, kept)
        PROVE  rtable'[k][j] = rtable[k][j]
    BY <1>0, <1>2, <2>8, MessageParts DEF Learn, Learned
  <2>9. ASSUME NEW m \in UnderWay, Receive(m) \/ Lose(m) \/ ReceiveLate(m)
        PROVE  Stands
    BY <2>8, <2>9, <2>a
       DEF Receive, ReceiveResponse, DropOnDownIfc, ReceiveRequest, Answer, Lose, ReceiveLate
  <2>10. CASE UNCHANGED vars
    BY <2>10, <2>a DEF vars
  <2> QED
    BY <1>0, <2>1, <2>2, <2>3, <2>4, <2>5, <2>6, <2>7, <2>9, <2>10
       DEF Next, System, Timers, Commands, MainGoesOn, OutGoesOn, Network, UnderWay
<1> QED
  BY <1>0, <1>1, <1>3

\* Between commands a node's table holds its own addresses exactly while their
\* interfaces are up, and never anything else for them, in every network:
\* update_route_table never touches them.
THEOREM LocalEntriesCorrect == Spec => []LocalEntries
<1>1. Init => LocalEntries
  BY TopologyAssumption DEF Init, LocalEntries, EmptyTable, HasRoute
<1> QED
  BY <1>1, NextLocal, MainAgrees, TypeCorrect, PTL DEF Spec

-----------------------------------------------------------------------------
(* Costs and distances.                                                    *)

\* A message does not promise more than its sender's distance.
HonestMessage(m) ==
  \A d \in Dest : m.costs[d] = MaxCost \/ m.costs[d] >= Dist[Neighbour(m.to)][d]

\* NeverTooShort alone is not inductive: a response under way becomes a route.
CostInv == NeverTooShort /\ \A m \in UnderWay : HonestMessage(m)

\* From a table without too short a route, prepare_msg makes honest messages.
LEMMA PreparedHonest ==
  ASSUME NEW n \in Node, NEW command, NEW t \in Table, NEW isup,
         \A d \in Dest : t[d] # NoEntry => t[d].cost >= Dist[n][d],
         NEW m \in Prepared(n, command, t, isup)
  PROVE  HonestMessage(m)
<1>1. PICK i \in Ifaces[n] : m = [to |-> TakenFor[Peer[i]], command |-> command,
                                  costs |-> Advertised(t, i)]
  BY DEF Prepared
<1>2. Peer[i] \in Addr /\ Neighbour(Peer[i]) = n
  BY TopologyAssumption DEF Neighbour, Ifaces
<1>3. Neighbour(m.to) = n
  BY <1>1, <1>2, TakenForParallel
<1> QED
  BY <1>1, <1>3 DEF HonestMessage, Advertised

\* The table a node starts with has no route too short.
LEMMA OwnTableHonest ==
  ASSUME NEW n \in Node
  PROVE  \A d \in Dest : OwnTable(n)[d] # NoEntry => OwnTable(n)[d].cost >= Dist[n][d]
  BY DistAssumption DEF OwnTable, OwnEntry

LEMMA NextCost == TypeOK /\ CostInv /\ [Next]_vars => CostInv'
<1> SUFFICES ASSUME TypeOK, CostInv, [Next]_vars
             PROVE  CostInv'
  OBVIOUS
<1>1. ASSUME NEW m \in UnderWay', m \notin UnderWay
      PROVE  HonestMessage(m)
  <2>1. NewMessage(m)
    BY <1>1, NewMessages
  <2>2. /\ \A n \in Node : rtable[n] \in Table /\ OwnTable(n) \in Table
        /\ \A n \in Node, d \in Dest : rtable[n][d] # NoEntry => rtable[n][d].cost >= Dist[n][d]
    BY OwnTableType DEF TypeOK, Table, CostInv, NeverTooShort, HasRoute
  <2> QED
    BY <2>1, <2>2, PreparedHonest, OwnTableHonest DEF NewMessage
<1>2. ASSUME NEW n \in Node, NEW d \in Dest, HasRoute(n, d)'
      PROVE  rtable'[n][d].cost >= Dist[n][d]
  <2>1. HasRoute(n, d) => rtable[n][d] \in Entry /\ rtable[n][d].cost >= Dist[n][d]
    BY DEF CostInv, NeverTooShort, TypeOK, HasRoute
  <2>2. CASE rtable'[n][d] = rtable[n][d]
    BY <1>2, <2>1, <2>2 DEF HasRoute
  <2>3. CASE Aged(n, d)
    BY <2>1, <2>3 DEF Aged, Entry
  <2>4. CASE OwnAdded(n, d)
    BY <2>4, DistAssumption DEF OwnAdded, OwnEntry
  <2>5. ASSUME NEW m \in UnderWay, LearntFrom(n, d, m)
        PROVE  rtable'[n][d].cost >= Dist[n][d]
    <3>1. m.costs[d] >= Dist[Neighbour(m.to)][d]
      BY <2>5 DEF CostInv, HonestMessage, LearntFrom
    <3>2. Dist[n][d] <= Dist[Neighbour(m.to)][d] + 1
      BY <2>5, MessageParts, DistAssumption DEF LearntFrom
    <3>3. m.costs[d] \in Int
      BY MessageParts, BoundAssumption DEF Cost
    <3>4. Neighbour(m.to) \in Node
      BY MessageParts, TopologyAssumption DEF Neighbour
    <3>5. Dist[n][d] \in Nat /\ Dist[Neighbour(m.to)][d] \in Nat
      BY <3>4, DistAssumption
    <3>6. rtable'[n][d].cost = m.costs[d] + 1
      BY <2>5 DEF LearntFrom
    <3> QED
      BY <3>1, <3>2, <3>3, <3>5, <3>6
  <2> QED
    BY <1>2, <2>2, <2>3, <2>4, <2>5, Origins DEF Origin
<1>3. \A m \in UnderWay' : HonestMessage(m)
  BY <1>1 DEF CostInv
<1> QED
  BY <1>2, <1>3 DEF CostInv, NeverTooShort, HasRoute, HonestMessage

\* No table and no message promises a destination nearer than it is, in every
\* network: stale routes can be too long, never too short.
THEOREM NeverTooShortCorrect == Spec => []NeverTooShort
<1>1. Init => CostInv
  BY DEF Init, CostInv, NeverTooShort, HasRoute, EmptyTable, UnderWay
<1>2. CostInv => NeverTooShort
  BY DEF CostInv
<1> QED
  BY <1>1, <1>2, NextCost, TypeCorrect, PTL DEF Spec

-----------------------------------------------------------------------------
(* How a route may change.                                                 *)

\* The entry of n for d was there before the step, and is no younger now.
EntryStays(n, d) ==
  /\ HasRoute(n, d)
  /\ rtable'[n][d].cost = rtable[n][d].cost
  /\ rtable'[n][d].nextHop = rtable[n][d].nextHop
  /\ rtable'[n][d].ticks >= rtable[n][d].ticks

\* An entry stays in all the ways it can come from but two.
LEMMA StaysOrNot ==
  ASSUME TypeOK, [Next]_vars, NEW n \in Node, NEW d \in Dest, HasRoute(n, d)'
  PROVE  \/ EntryStays(n, d)
         \/ OwnAdded(n, d)
         \/ \E m \in UnderWay : LearntFrom(n, d, m)
<1>1. HasRoute(n, d) => rtable[n][d] \in Entry /\ rtable[n][d].ticks \in Nat
  BY BoundAssumption DEF TypeOK, HasRoute, Entry
<1>2. CASE rtable'[n][d] = rtable[n][d]
  BY <1>1, <1>2 DEF EntryStays, HasRoute
<1>3. CASE Aged(n, d)
  <2>1. /\ rtable'[n][d].cost = rtable[n][d].cost
        /\ rtable'[n][d].nextHop = rtable[n][d].nextHop
        /\ rtable'[n][d].ticks = rtable[n][d].ticks + 1
    BY <1>1, <1>3 DEF Aged, Entry
  <2> QED
    BY <1>1, <1>3, <2>1 DEF Aged, EntryStays
<1> QED
  BY <1>2, <1>3, Origins DEF Origin

LEMMA NextReplaces ==
  TypeOK /\ LocalEntries /\ [Next]_vars
    => [\A n \in Node, d \in Dest : ReplacedByCheaper(n, d)]_vars
<1> SUFFICES ASSUME TypeOK, LocalEntries, [Next]_vars, NEW n \in Node, NEW d \in Dest,
                    HasRoute(n, d), HasRoute(n, d)'
             PROVE  \/ rtable'[n][d].cost < rtable[n][d].cost
                    \/ EntryStays(n, d)
  BY DEF ReplacedByCheaper, EntryStays
<1>1. CASE OwnAdded(n, d)
  <2>1. rtable[n][d] = OwnEntry(d) /\ rtable'[n][d] = OwnEntry(d)
    BY <1>1 DEF OwnAdded, LocalEntries, HasRoute
  <2> QED
    BY <2>1 DEF EntryStays, OwnEntry
<1>2. ASSUME NEW m \in UnderWay, LearntFrom(n, d, m)
      PROVE  rtable'[n][d].cost < rtable[n][d].cost
  <2>1. m.costs[d] \in Int /\ rtable[n][d].cost \in Int
    BY MessageParts, BoundAssumption DEF Cost, TypeOK, HasRoute, Entry
  <2>2. rtable'[n][d].cost = m.costs[d] + 1 /\ rtable[n][d].cost > m.costs[d] + 1
    BY <1>2 DEF LearntFrom
  <2> QED
    BY <2>1, <2>2
<1> QED
  BY <1>1, <1>2, StaysOrNot

\* A route that stays is only ever replaced by a cheaper one or grows older, so
\* nothing a neighbour repeats keeps it alive.
THEOREM ReplacedByCheaperOnlyCorrect == Spec => ReplacedByCheaperOnly
  BY NextReplaces, TypeCorrect, LocalEntriesCorrect, PTL DEF Spec, ReplacedByCheaperOnly

-----------------------------------------------------------------------------
(* Addresses whose interface is down.                                      *)

\* A route to an address that is down is an old one, or is learnt from a message.
LEMMA RouteOrigin ==
  ASSUME TypeOK, MainInv, [Next]_vars, NEW d \in Dest, ~up[d], ~up'[d],
         NEW n \in Node, HasRoute(n, d)'
  PROVE  \/ EntryStays(n, d)
         \/ \E m \in UnderWay : LearntFrom(n, d, m)
  BY StaysOrNot, TopologyAssumption DEF OwnAdded, MainInv

\* A new message lists an address that is down at the cost some table has.
LEMMA MessageOrigin ==
  ASSUME TypeOK, [Next]_vars, NEW d \in Dest, ~up'[d],
         NEW m \in UnderWay', m \notin UnderWay, m.costs[d] # MaxCost
  PROVE  \E n \in Node : HasRoute(n, d) /\ rtable[n][d].cost = m.costs[d]
<1>1. PICK n \in Node : \/ Start(n) /\ m \in Prepared(n, "request", OwnTable(n), up')
                        \/ m \in Prepared(n, "response", rtable[n], up)
  BY NewMessages DEF NewMessage
<1>2. ASSUME Start(n), m \in Prepared(n, "request", OwnTable(n), up')
      PROVE  FALSE
  <2>1. PICK i \in Ifaces[n] : m.costs = Advertised(OwnTable(n), i)
    BY <1>2 DEF Prepared
  <2>2. OwnTable(n)[d] # NoEntry
    BY <2>1 DEF Advertised
  <2>3. Owner[d] = n /\ d \in Addr
    BY <2>2, TopologyAssumption DEF OwnTable
  <2> QED
    BY <1>2, <2>3 DEF Start, TypeOK
<1>3. CASE m \in Prepared(n, "response", rtable[n], up)
  <2>1. PICK i \in Ifaces[n] : m.costs = Advertised(rtable[n], i)
    BY <1>3 DEF Prepared
  <2> QED
    BY <2>1 DEF Advertised, HasRoute
<1> QED
  BY <1>1, <1>2, <1>3

LEMMA NextRises ==
  ASSUME TypeOK, MainInv, [Next]_vars, NEW d \in Dest, NEW c \in Cost,
         ~up[d], ~up'[d], Floor(d, c)
  PROVE  StepKeepsFloor(d, c)
<1>0. /\ c \in Int /\ c <= MaxCost /\ MaxCost \in Int
      /\ \A m \in UnderWay : m.costs[d] \in Int /\ m.costs[d] >= c
      /\ \A n \in Node : HasRoute(n, d) => rtable[n][d].cost \in Int /\ rtable[n][d].cost >= c
  BY MessageParts, BoundAssumption DEF TypeOK, Entry, Cost, HasRoute, Floor
<1>1. ASSUME NEW n \in Node, HasRoute(n, d)'
      PROVE  /\ rtable'[n][d].cost >= c
             /\ rtable'[n][d].cost = c => EntryStays(n, d)
  <2>1. CASE EntryStays(n, d)
    BY <1>0, <2>1 DEF EntryStays
  <2>2. ASSUME NEW m \in UnderWay, LearntFrom(n, d, m)
        PROVE  rtable'[n][d].cost > c
    <3>1. rtable'[n][d].cost = m.costs[d] + 1
      BY <2>2 DEF LearntFrom
    <3> QED
      BY <1>0, <3>1
  <2>3. CASE \E m \in UnderWay : LearntFrom(n, d, m)
    <3>1. rtable'[n][d].cost > c /\ rtable'[n][d].cost \in Int
      <4>1. PICK m \in UnderWay : LearntFrom(n, d, m)
        BY <2>3
      <4> QED
        BY <1>0, <2>2, <4>1 DEF LearntFrom
    <3> QED
      BY <1>0, <3>1
  <2> QED
    BY <1>1, <2>1, <2>3, RouteOrigin
<1>2. ASSUME NEW m \in UnderWay', m \notin UnderWay, m.costs[d] # MaxCost
      PROVE  \E n \in Node : HasRoute(n, d) /\ rtable[n][d].cost = m.costs[d]
  BY <1>2, MessageOrigin
<1>3. \A m \in UnderWay' : m.costs[d] >= c
  BY <1>0, <1>2
<1>4. Floor(d, c)'
  BY <1>1, <1>3 DEF Floor
<1>5. ASSUME NEW n \in Node, HasRoute(n, d)', rtable'[n][d].cost = c
      PROVE  /\ HasRoute(n, d) /\ rtable[n][d].cost = c
             /\ rtable[n][d].nextHop = rtable'[n][d].nextHop
             /\ rtable[n][d].ticks <= rtable'[n][d].ticks
  BY <1>0, <1>1, <1>5 DEF EntryStays
<1> QED
  BY <1>2, <1>4, <1>5 DEF StepKeepsFloor

\* In every network: while an interface is down, the lowest cost at which its address is
\* known or under way never falls, and at that cost there are only the old routes, which
\* grow older.  This is why counting to infinity comes to its end at RIP_MAX_COST.
THEOREM DeadCostsOnlyRiseCorrect == Spec => DeadCostsOnlyRise
<1>1. ASSUME TypeOK, MainInv, [Next]_vars
      PROVE  [\A d \in Dest, c \in Cost :
                ~up[d] /\ ~up'[d] /\ Floor(d, c) => StepKeepsFloor(d, c)]_vars
  BY <1>1, NextRises
<1> QED
  BY <1>1, TypeCorrect, MainAgrees, PTL DEF Spec, DeadCostsOnlyRise

=============================================================================
