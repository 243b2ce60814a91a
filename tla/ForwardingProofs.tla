-------------------------- MODULE ForwardingProofs --------------------------
(***************************************************************************)
(* Proofs about Forwarding in networks without loops, on top of the exact  *)
(* routes of RipTreeProofs.                                                *)
(***************************************************************************)
EXTENDS Forwarding, RipTreeProofs

-----------------------------------------------------------------------------
(* The arithmetic of transfer_data.                                        *)

\* What transit makes of a ttl that is a byte: one less, or 255 for 0; and 255 is
\* what it writes over the protocol, whatever that was.
LEMMA DecrementedBytes ==
  ASSUME NEW ttl \in Byte
  PROVE  /\ Decremented(ttl) \in Nat
         /\ Decremented(ttl) % 256 = 255
         /\ Decremented(ttl) \div 256 = IF ttl = 0 THEN 255 ELSE ttl - 1
<1>1. CASE ttl = 0
  <2>1. Decremented(ttl) = 65535
    BY <1>1 DEF Decremented
  <2> QED
    BY <1>1, <2>1
<1>2. CASE ttl # 0
  <2>1. Decremented(ttl) = 256 * (ttl - 1) + 255
    BY <1>2 DEF Decremented, Byte
  <2> QED
    BY <1>2, <2>1 DEF Byte
<1> QED
  BY <1>1, <1>2

\* The test of transfer_data for an expired ttl fails for every value a ttl can have:
\* no packet is ever dropped for its age.
THEOREM TtlNeverExpires == \A ttl \in Byte : Decremented(ttl) # 0
  BY DecrementedBytes

-----------------------------------------------------------------------------
(* Packets go straight to their destination.                               *)

\* The forwardings behind a packet, the distance before it, and the link it is on
\* add up to Base, except on the first link of a packet to one's own address.
Straight(pkt) ==
  LET done == MaxTtl - pkt.ttl
  IN  /\ pkt \in InTransit
      /\ Base(pkt) <= MaxTtl + 1
      /\ pkt.phase = "out" =>
           \/ Nearer(pkt.ifc, pkt.dest) /\ done + Dist[Owner[pkt.ifc]][pkt.dest] = Base(pkt)
           \/ pkt.ifc = pkt.dest /\ Base(pkt) = 2 /\ done = 0
      /\ pkt.phase # "out" => done + Dist[Owner[pkt.ifc]][pkt.dest] + 1 = Base(pkt)

PacketInv ==
  /\ packet = [p \in Packet |-> packet[p]]
  /\ \A p \in Packet : packet[p] = NotSent \/ packet[p] = Dropped \/ Straight(packet[p])

\* What a phase tells of a packet.
LEMMA Phases ==
  ASSUME PacketInv, NEW p \in Packet, packet[p].phase \in {"out", "wire", "in", "delivered"}
  PROVE  Straight(packet[p])
  BY DEF PacketInv, NotSent, Dropped

\* From an exact table a packet that has not arrived is sent nearer.
LEMMA RoutedStraight ==
  ASSUME TypeOK, TreeInv, NEW n \in Node, NEW pkt \in InTransit,
         Base(pkt) <= MaxTtl + 1, Owner[pkt.dest] # n,
         MaxTtl - pkt.ttl + Dist[n][pkt.dest] = Base(pkt),
         Routed(n, pkt) # Dropped
  PROVE  Straight(Routed(n, pkt))
<1> DEFINE i == rtable[n][pkt.dest].nextHop
<1>1. /\ pkt.dest \in Dest /\ rtable[n][pkt.dest] # NoEntry
      /\ Routed(n, pkt) = [pkt EXCEPT !.phase = "out", !.ifc = i]
  BY DEF Routed, HasRoute, InTransit
<1>2. i \in Addr /\ Owner[i] = n /\ Nearer(i, pkt.dest)
  BY <1>1 DEF TreeInv, ExactRoute, Ifaces
<1>3. /\ Routed(n, pkt) \in InTransit
      /\ Routed(n, pkt).phase = "out" /\ Routed(n, pkt).ifc = i
      /\ Routed(n, pkt).dest = pkt.dest /\ Routed(n, pkt).ttl = pkt.ttl
      /\ Routed(n, pkt).src = pkt.src
  BY <1>1, <1>2 DEF InTransit
<1>4. Base(Routed(n, pkt)) = Base(pkt)
  BY <1>3 DEF Base
<1> QED
  BY <1>2, <1>3, <1>4 DEF Straight

\* A packet that is sent starts straight.
LEMMA SentStraight ==
  ASSUME TypeOK, TreeInv, NEW n \in Node, NEW d \in Dest, NEW protocol \in Protocol,
         NEW pkt, pkt = [phase |-> "out", ifc |-> d, src |-> n, dest |-> d,
                         ttl |-> MaxTtl, protocol |-> protocol],
         Routed(n, pkt) # Dropped
  PROVE  Straight(Routed(n, pkt))
<1>0. /\ pkt \in InTransit /\ MaxTtl \in Byte /\ d \in Addr
      /\ pkt.dest = d /\ pkt.src = n /\ pkt.ttl = MaxTtl
  BY PacketAssumption, TopologyAssumption DEF InTransit
<1>1. /\ rtable[n][d] # NoEntry
      /\ Routed(n, pkt) = [pkt EXCEPT !.phase = "out", !.ifc = rtable[n][d].nextHop]
  BY <1>0 DEF Routed, HasRoute
<1>2. CASE Owner[d] = n
  <2>1. rtable[n][d].nextHop = d
    BY <1>1, <1>2 DEF TreeInv, ExactRoute
  <2>2. Routed(n, pkt) = pkt /\ Base(pkt) = 2
    BY <1>0, <1>1, <1>2, <2>1 DEF Base
  <2> QED
    BY <1>0, <2>2, PacketAssumption DEF Straight, Byte
<1>3. CASE Owner[d] # n
  <2>1. /\ rtable[n][d].cost = Dist[n][d]
        /\ rtable[n][d] \in Entry
    BY <1>1 DEF TreeInv, ExactRoute, TypeOK
  <2>2. Dist[n][d] \in Nat /\ Dist[n][d] <= MaxCost
    BY <2>1, BoundAssumption DEF Entry, Cost
  <2>3. Base(pkt) = Dist[n][d]
    BY <1>0, <1>3 DEF Base
  <2> QED
    BY <1>0, <1>3, <2>2, <2>3, RoutedStraight, PacketAssumption, BoundAssumption DEF Byte
<1> QED
  BY <1>2, <1>3

\* Crossing a link brings a packet nearer.
LEMMA TransmitStraight ==
  ASSUME NEW pkt, Straight(pkt), pkt.phase = "out"
  PROVE  Straight([pkt EXCEPT !.phase = "wire", !.ifc = Peer[@]])
<1> DEFINE i == pkt.ifc
           d == pkt.dest
           new == [pkt EXCEPT !.phase = "wire", !.ifc = Peer[@]]
<1>1. /\ pkt \in InTransit /\ i \in Addr /\ d \in Dest /\ d \in Addr /\ pkt.ttl \in Nat
      /\ Peer[i] \in Addr /\ Owner[Peer[i]] = Neighbour(i)
  BY TopologyAssumption DEF Straight, InTransit, Byte, Neighbour
<1>2. /\ new \in InTransit /\ new.phase = "wire" /\ new.ifc = Peer[i]
      /\ new.dest = d /\ new.src = pkt.src /\ new.ttl = pkt.ttl
  BY <1>1 DEF InTransit
<1>3. Base(new) = Base(pkt)
  BY <1>2 DEF Base
<1>4. MaxTtl - pkt.ttl + Dist[Neighbour(i)][d] + 1 = Base(pkt)
  <2>1. CASE Nearer(i, d) /\ MaxTtl - pkt.ttl + Dist[Owner[i]][d] = Base(pkt)
    <3>1. /\ Dist[Owner[i]][d] = Dist[Neighbour(i)][d] + 1
          /\ Dist[Neighbour(i)][d] \in Nat
      BY <1>1, <2>1, LinkDist
    <3>2. MaxTtl \in Nat
      BY PacketAssumption DEF Byte
    <3> QED
      BY <1>1, <2>1, <3>1, <3>2
  <2>2. CASE i = d /\ Base(pkt) = 2 /\ MaxTtl - pkt.ttl = 0
    <3>1. Dist[Owner[i]][d] = 0
      BY <1>1, <2>2, DistAssumption
    <3>2. Dist[Neighbour(i)][d] = 1
      BY <1>1, <3>1, LinkDist DEF Nearer
    <3> QED
      BY <2>2, <3>2
  <2> QED
    BY <2>1, <2>2 DEF Straight
<1> QED
  BY <1>1, <1>2, <1>3, <1>4 DEF Straight

\* A packet that waits for the receiver, or is delivered, stays where it is.
LEMMA StayStraight ==
  ASSUME NEW pkt, Straight(pkt), pkt.phase # "out", NEW phase \in {"in", "delivered"}
  PROVE  Straight([pkt EXCEPT !.phase = phase])
<1> DEFINE new == [pkt EXCEPT !.phase = phase]
<1>1. pkt \in InTransit
  BY DEF Straight
<1>2. /\ new \in InTransit /\ new.phase = phase /\ new.ifc = pkt.ifc
      /\ new.dest = pkt.dest /\ new.src = pkt.src /\ new.ttl = pkt.ttl
  BY <1>1 DEF InTransit
<1>3. Base(new) = Base(pkt)
  BY <1>2 DEF Base
<1> QED
  BY <1>2, <1>3 DEF Straight

\* Transit takes one from the ttl, which is not 0 by then.
LEMMA ForwardStraight ==
  ASSUME TypeOK, TreeInv, NEW pkt, Straight(pkt), pkt.phase = "in",
         NEW n \in Node, Owner[pkt.ifc] = n, Owner[pkt.dest] # n,
         Routed(n, Passed(pkt)) # Dropped
  PROVE  Straight(Routed(n, Passed(pkt)))
<1> DEFINE new == Passed(pkt)
<1>1. /\ pkt \in InTransit /\ pkt.dest \in Dest /\ pkt.ttl \in Byte /\ pkt.ifc \in Addr
      /\ MaxTtl - pkt.ttl + Dist[n][pkt.dest] + 1 = Base(pkt)
      /\ Base(pkt) <= MaxTtl + 1 /\ MaxTtl \in Byte
  BY PacketAssumption DEF Straight, InTransit
<1>2. Dist[n][pkt.dest] \in Nat
  BY <1>1, DistType
<1>3. HasRoute(n, new.dest) /\ new.dest = pkt.dest
  BY <1>1 DEF Routed, Passed, InTransit
<1>4. Nearer(rtable[n][pkt.dest].nextHop, pkt.dest) /\ rtable[n][pkt.dest].nextHop \in Ifaces[n]
  BY <1>1, <1>3 DEF HasRoute, TreeInv, ExactRoute
<1>5. Dist[n][pkt.dest] # 0
  BY <1>1, <1>2, <1>4, LinkDist DEF Ifaces, Nearer
<1>6. pkt.ttl # 0
  BY <1>1, <1>2, <1>5 DEF Byte
<1> DEFINE bytes == Decremented(pkt.ttl)
           aged == [pkt EXCEPT !.ttl = bytes \div 256]
<1>7. bytes % 256 \in Byte /\ bytes \div 256 = pkt.ttl - 1 /\ pkt.ttl - 1 \in Byte
  <2>1. bytes % 256 = 255 /\ bytes \div 256 = pkt.ttl - 1
    BY <1>1, <1>6, DecrementedBytes
  <2> QED
    BY <1>1, <1>6, <2>1 DEF Byte
<1>8. /\ new \in InTransit /\ new.ttl = pkt.ttl - 1
      /\ new.dest = pkt.dest /\ new.src = pkt.src
  <2>1. new = [aged EXCEPT !.protocol = bytes % 256]
    BY <1>1 DEF Passed, InTransit
  <2>2. /\ aged \in InTransit /\ aged.ttl = pkt.ttl - 1
        /\ aged.dest = pkt.dest /\ aged.src = pkt.src
    BY <1>1, <1>7 DEF InTransit
  <2> HIDE DEF aged, bytes
  <2> QED
    BY <1>7, <2>1, <2>2 DEF InTransit
<1>9. Base(new) = Base(pkt)
  BY <1>8 DEF Base
<1>10. MaxTtl - new.ttl + Dist[n][new.dest] = Base(new)
  <2> HIDE DEF new, aged, bytes
  <2> DEFINE t == pkt.ttl
             rest == Dist[n][pkt.dest]
             base == Base(pkt)
  <2>1. MaxTtl - (t - 1) + rest = base
    <3>1. t \in Nat /\ MaxTtl \in Nat /\ rest \in Nat /\ MaxTtl - t + rest + 1 = base
      BY <1>1, <1>2 DEF Byte
    <3> HIDE DEF t, rest, base
    <3> QED
      BY <3>1
  <2> QED
    BY <1>8, <1>9, <2>1
<1> QED
  BY <1>1, <1>8, <1>9, <1>10, RoutedStraight

-----------------------------------------------------------------------------
(* The invariant, and what follows.                                        *)

\* The step of one packet keeps them all straight.
LEMMA PutStraight ==
  ASSUME PacketInv, NEW p \in Packet, NEW pkt,
         Put(p, pkt), pkt = Dropped \/ Straight(pkt)
  PROVE  PacketInv'
<1>1. packet' = [packet EXCEPT ![p] = pkt] /\ UNCHANGED vars
  BY DEF Put
<1>2. packet' = [q \in Packet |-> IF q = p THEN pkt ELSE packet[q]]
  BY <1>1 DEF PacketInv
<1>3. packet' = [q \in Packet |-> packet'[q]]
  BY <1>2
<1>4. \A q \in Packet : packet'[q] = IF q = p THEN pkt ELSE packet[q]
  BY <1>2
<1>5. \A q \in Packet : packet'[q] = NotSent \/ packet'[q] = Dropped \/ Straight(packet'[q])
  BY <1>4 DEF PacketInv
<1> QED
  BY <1>3, <1>4, <1>5 DEF PacketInv

\* A step of the routing protocol moves no packet; at most it takes some away.
LEMMA SurvivingStraight ==
  ASSUME PacketInv, packet' = Surviving
  PROVE  PacketInv'
<1>1. \A p \in Packet : packet'[p] = packet[p] \/ packet'[p] = Dropped
  BY DEF Surviving
<1>2. packet' = [p \in Packet |-> packet'[p]]
  BY DEF Surviving
<1> QED
  BY <1>1, <1>2 DEF PacketInv

LEMMA NextPacketInv ==
  ASSUME TypeOK, TreeInv, PacketInv, ForwardingNext
  PROVE  PacketInv'
<1>1. CASE Next /\ packet' = Surviving
  BY <1>1, SurvivingStraight
<1>2. ASSUME NEW p \in Packet, NEW n \in Node, NEW d \in Dest, NEW protocol \in Protocol,
             SendPacket(p, n, d, protocol)
      PROVE  PacketInv'
  <2> DEFINE pkt == [phase |-> "out", ifc |-> d, src |-> n, dest |-> d,
                     ttl |-> MaxTtl, protocol |-> protocol]
  <2>1. Put(p, Routed(n, pkt))
    BY <1>2 DEF SendPacket
  <2>2. Routed(n, pkt) = Dropped \/ Straight(Routed(n, pkt))
    BY SentStraight
  <2> QED
    BY <2>1, <2>2, PutStraight
<1>3. ASSUME NEW p \in Packet, Transmit(p)
      PROVE  PacketInv'
  BY <1>3, Phases, TransmitStraight, PutStraight DEF Transmit
<1>4. ASSUME NEW p \in Packet, DropOnClosed(p) \/ LoseOnWire(p) \/ Swallow(p)
      PROVE  PacketInv'
  BY <1>4, PutStraight DEF DropOnClosed, LoseOnWire, Swallow
<1>5. ASSUME NEW p \in Packet, Arrive(p)
      PROVE  PacketInv'
  BY <1>5, Phases, StayStraight, PutStraight DEF Arrive
<1>6. ASSUME NEW p \in Packet, Deliver(p)
      PROVE  PacketInv'
  BY <1>6, Phases, StayStraight, PutStraight DEF Deliver
<1>7. ASSUME NEW p \in Packet, Forward(p)
      PROVE  PacketInv'
  <2> DEFINE n == Owner[packet[p].ifc]
             pkt == Routed(n, Passed(packet[p]))
  <2>1. Straight(packet[p]) /\ packet[p].phase = "in" /\ n # Owner[packet[p].dest]
    BY <1>7, Phases DEF Forward, IsDestinedToMe
  <2>2. n \in Node
    BY <2>1, TopologyAssumption DEF Straight, InTransit
  <2>3. pkt = Dropped \/ Straight(pkt)
    BY <2>1, <2>2, ForwardStraight
  <2>4. Put(p, Dropped) \/ Put(p, pkt)
    BY <1>7 DEF Forward
  <2> QED
    BY <2>3, <2>4, PutStraight
<1> QED
  BY <1>1, <1>2, <1>3, <1>4, <1>5, <1>6, <1>7 DEF ForwardingNext, PacketNext, SendCmd, OnWire, Handle

\* The routing protocol does not know of the packets.
LEMMA RoutesGoOn == [ForwardingNext]_<<vars, packet>> => [Next]_vars
  BY DEF ForwardingNext, PacketNext, SendCmd, SendPacket, Transmit, DropOnClosed, OnWire, Arrive, LoseOnWire,
         Handle, Swallow, Deliver, Forward, Put

\* Routes are exact and every packet under way is straight: the invariant on which
\* the theorems about forwarding rest.
THEOREM PacketInvCorrect == ForwardingSpec => [](TypeOK /\ TreeInv /\ PacketInv)
<1>1. ForwardingInit => TypeOK /\ TreeInv /\ PacketInv
  <2>1. Init => TypeOK /\ TreeInv
    BY InitType DEF Init, TreeInv, ExactRoute, EmptyTable, UnderWay
  <2> QED
    BY <2>1 DEF ForwardingInit, PacketInv
<1>2. TypeOK /\ TreeInv /\ PacketInv /\ [ForwardingNext]_<<vars, packet>>
        => TypeOK' /\ TreeInv' /\ PacketInv'
  <2> SUFFICES ASSUME TypeOK, TreeInv, PacketInv, [ForwardingNext]_<<vars, packet>>
               PROVE  TypeOK' /\ TreeInv' /\ PacketInv'
    OBVIOUS
  <2>1. TypeOK' /\ TreeInv'
    BY RoutesGoOn, NextType, NextTree
  <2>2. CASE ForwardingNext
    BY <2>1, <2>2, NextPacketInv
  <2>3. CASE UNCHANGED <<vars, packet>>
    BY <2>1, <2>3 DEF PacketInv
  <2> QED
    BY <2>2, <2>3
<1> QED
  BY <1>1, <1>2, PTL DEF ForwardingSpec

\* Packets have their types: the bytes that transit writes back stay bytes, and the
\* table names an interface for every route.
THEOREM PacketTypeCorrect == ForwardingSpec => []PacketTypeOK
<1>1. PacketInv => PacketTypeOK
  BY DEF PacketInv, PacketTypeOK, Straight
<1> QED
  BY <1>1, PacketInvCorrect, PTL

\* In every network without loops no packet is forwarded more often than the distance
\* asks for, whatever the routes do meanwhile: it is not the ttl that ends its way.
THEOREM FewestHopsCorrect == ForwardingSpec => []FewestHops
<1>1. TypeOK /\ TreeInv /\ PacketInv => FewestHops
  <2> SUFFICES ASSUME PacketInv, NEW p \in Packet, packet[p] \in InTransit
               PROVE  MaxTtl - packet[p].ttl < Base(packet[p])
    BY DEF FewestHops
  <2> DEFINE pkt == packet[p]
             rest == Dist[Owner[pkt.ifc]][pkt.dest]
             done == MaxTtl - pkt.ttl
  <2>1. /\ pkt.dest \in Dest /\ pkt.ifc \in Addr /\ pkt.ttl \in Nat /\ MaxTtl \in Nat
        /\ pkt.phase \in {"out", "wire", "in", "delivered"}
    BY PacketAssumption DEF InTransit, Byte
  <2>2. Straight(pkt)
    BY <2>1, Phases
  <2>3. rest \in Nat
    BY <2>1, LinkDist
  <2>4. CASE done + rest + 1 = Base(pkt)
    BY <2>1, <2>3, <2>4
  <2>5. CASE Nearer(pkt.ifc, pkt.dest) /\ done + rest = Base(pkt)
    <3>1. rest # 0
      BY <2>1, <2>3, <2>5, LinkDist
    <3> QED
      BY <2>1, <2>3, <2>5, <3>1
  <2>6. CASE Base(pkt) = 2 /\ done = 0
    BY <2>6
  <2> QED
    BY <2>1, <2>2, <2>4, <2>5, <2>6 DEF Straight
<1> QED
  BY <1>1, PacketInvCorrect, PTL

=============================================================================
