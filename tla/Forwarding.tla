----------------------------- MODULE Forwarding -----------------------------
(***************************************************************************)
(* Data packets (NetworkLayer.cc) on the routes that RipNetwork keeps: the *)
(* "send" command, delivery, and transit, while routes change under the    *)
(* packets.  A packet is in its node's _incomingqueue or in the slot of an *)
(* interface ("out"), on its way between two sockets ("wire"), or in the   *)
(* receiver's _outgoingqueue ("in").  Packets do not influence one another *)
(* nor the routes.  Headers arrive as they were sent: the checksum always  *)
(* agrees.                                                                 *)
(***************************************************************************)
EXTENDS RipNetwork

CONSTANTS
  Packet,    \* the packets that users send
  Protocol,  \* the protocols they send them with
  RipProto,  \* RIP_PROTO, 200 in the code
  MaxTtl     \* MAX_COST of NetworkLayer.hh, 16 in the code

Byte == 0 .. 255

ASSUME PacketAssumption ==
  /\ Protocol \subseteq Byte /\ RipProto \in Byte
  /\ MaxTtl \in Byte \ {0} /\ MaxCost <= MaxTtl

VARIABLE packet   \* each packet, and where it is

\* struct packet with the interface it leaves by, or came in on.
InTransit == [phase : {"out", "wire", "in", "delivered"}, ifc : Addr,
              src : Node, dest : Dest, ttl : Byte, protocol : Byte]
NotSent == [phase |-> "unsent"]
Dropped == [phase |-> "dropped"]

PacketTypeOK == packet \in [Packet -> InTransit \cup {NotSent, Dropped}]

-----------------------------------------------------------------------------
(* Handling one packet.                                                    *)

\* Mutant: the null pointer of get_interface is not noticed.
RoutedAnyway(n, pkt) ==
  [pkt EXCEPT !.phase = "out",
              !.ifc = IF HasRoute(n, pkt.dest) THEN rtable[n][pkt.dest].nextHop ELSE NoEntry]

\* get_next_address and get_interface: queued for the route's interface, or
\* "destination cannot be reached".
Routed(n, pkt) ==
  IF HasRoute(n, pkt.dest)
  THEN [pkt EXCEPT !.phase = "out", !.ifc = rtable[n][pkt.dest].nextHop]
  ELSE Dropped

\* ntohs(ttl) - 1 in 16 bits: ntohs makes the byte the upper one, and to take 1 is to
\* add 65535.
Decremented(ttl) == (256 * ttl + 65535) % 65536

\* Both bytes are written back, over ttl and over protocol.
Passed(pkt) == [pkt EXCEPT !.ttl = Decremented(@) \div 256,
                           !.protocol = Decremented(pkt.ttl) % 256]

Put(p, pkt) == packet' = [packet EXCEPT ![p] = pkt] /\ UNCHANGED vars

-----------------------------------------------------------------------------
(* The actions.                                                            *)

\* transfer_application_to_ip, build_ip_packet.
SendPacket(p, n, d, protocol) ==
  /\ packet[p] = NotSent /\ n \in running
  /\ Put(p, Routed(n, [phase |-> "out", ifc |-> d, src |-> n, dest |-> d,
                       ttl |-> MaxTtl, protocol |-> protocol]))

\* The user names any address and any protocol.
SendCmd(p) ==
  \E n \in Node, d \in Dest, protocol \in Protocol : SendPacket(p, n, d, protocol)

\* process_in_queue, send_frame, and the link thread's sendto.
Transmit(p) ==
  /\ packet[p].phase = "out" /\ up[packet[p].ifc]
  /\ Put(p, [packet[p] EXCEPT !.phase = "wire", !.ifc = Peer[@]])

\* send_frame finds the socket closed.  (If it is closed later the frame stays.)
DropOnClosed(p) ==
  /\ packet[p].phase = "out" /\ ~up[packet[p].ifc]
  /\ Put(p, Dropped)

\* recv_data, transfer_link_to_ip: all sockets of a node share its port, and the
\* sender's port tells the link, so one interface that is up will do.
Arrive(p) ==
  /\ packet[p].phase = "wire"
  /\ \E i \in Ifaces[Owner[packet[p].ifc]] : up[i]
  /\ Put(p, [packet[p] EXCEPT !.phase = "in"])

LoseOnWire(p) ==
  /\ packet[p].phase = "wire"
  /\ Put(p, Dropped)

\* transfer_data takes a user's packet with RIP's protocol for a RIP message, of a
\* type it does not recognize.
Swallow(p) ==
  /\ packet[p].phase = "in" /\ packet[p].protocol = RipProto
  /\ Put(p, Dropped)

IsDestinedToMe(n, d) == Owner[d] = n

\* transfer_data: a packet for one of the node's addresses, up or down, is printed.
Deliver(p) ==
  /\ packet[p].phase = "in" /\ packet[p].protocol # RipProto
  /\ IsDestinedToMe(Owner[packet[p].ifc], packet[p].dest)
  /\ Put(p, [packet[p] EXCEPT !.phase = "delivered"])

\* transfer_data, transfer_transit_data.
Forward(p) ==
  /\ packet[p].phase = "in" /\ packet[p].protocol # RipProto
  /\ ~IsDestinedToMe(Owner[packet[p].ifc], packet[p].dest)
  /\ Put(p, IF Decremented(packet[p].ttl) = 0
            THEN Dropped
            ELSE Routed(Owner[packet[p].ifc], Passed(packet[p])))

\* A step of the routing protocol.  A node that ends takes its queues with it.
Surviving ==
  [p \in Packet |->
     IF packet[p].phase \in {"out", "in"} /\ Owner[packet[p].ifc] \notin running'
     THEN Dropped
     ELSE packet[p]]

Handle(p) == Swallow(p) \/ Deliver(p) \/ Forward(p)
OnWire(p) == Arrive(p) \/ LoseOnWire(p)

ForwardingInit == Init /\ packet = [p \in Packet |-> NotSent]

PacketNext ==
  \E p \in Packet :
    SendCmd(p) \/ Transmit(p) \/ DropOnClosed(p) \/ OnWire(p) \/ Handle(p)

ForwardingNext == (Next /\ packet' = Surviving) \/ PacketNext

ForwardingSpec == ForwardingInit /\ [][ForwardingNext]_<<vars, packet>>

-----------------------------------------------------------------------------
(* Properties.                                                             *)

Base(pkt) == IF Owner[pkt.dest] = pkt.src THEN 2 ELSE Dist[pkt.src][pkt.dest]

\* In a network without loops no packet is forwarded more often than the distance
\* asks for, though routes change on its way and the test of transfer_data for an
\* expired ttl never succeeds.  A packet to one's own address goes out of that
\* interface and is sent back by the neighbour.
FewestHops ==
  \A p \in Packet : packet[p] \in InTransit => MaxTtl - packet[p].ttl < Base(packet[p])

\* Violated: "send" "sends payload with protocol=protocol" (Node.hh, help_cmd), so
\* transit leaves the protocol alone.  transfer_data writes two bytes where the ttl
\* has one.
ProtocolKept ==
  [][\A p \in Packet : packet[p] \in InTransit /\ packet'[p] \in InTransit =>
       packet'[p].protocol = packet[p].protocol]_<<vars, packet>>

=============================================================================
