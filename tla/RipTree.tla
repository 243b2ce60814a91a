------------------------------ MODULE RipTree -------------------------------
(***************************************************************************)
(* The RIP protocol of RipNetwork in a network without loops, such as      *)
(* nets/AB.net and nets/ABC.net.  Across every link the distance to a      *)
(* destination differs, and at most one interface of a node leads nearer.  *)
(***************************************************************************)
EXTENDS RipNetwork

\* Interface i leads nearer to d.
Nearer(i, d) == Dist[Neighbour(i)][d] < Dist[Owner[i]][d]

ASSUME TreeAssumption ==
  /\ \A i \in Addr, d \in Dest : Dist[Neighbour(i)][d] # Dist[Owner[i]][d]
  /\ \A i, j \in Addr, d \in Dest :
       Owner[i] = Owner[j] /\ Nearer(i, d) /\ Nearer(j, d) => i = j

\* Every learnt route has the true distance and leads nearer to its destination.
\* So routes never form a loop and the protocol never counts to infinity,
\* whatever goes down or is lost: prepare_msg_ifc's poisoned reverse keeps
\* a node from hearing of its own routes through a neighbour.
TreeRoutesExact ==
  \A n \in Node, d \in Dest : d \in Learnt(n) =>
    /\ rtable[n][d].cost = Dist[n][d]
    /\ Nearer(rtable[n][d].nextHop, d)

=============================================================================
