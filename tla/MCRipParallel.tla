--------------------------- MODULE MCRipParallel ----------------------------
(***************************************************************************)
(* A line A = B - C with two links between A and B: the smallest network   *)
(* in which a route can chase itself, for what comes over the second link  *)
(* is taken for the first's, and poisoned reverse does not protect there.  *)
(* Interface xy is X's end of its link to Y, xy2 its end of the second.    *)
(***************************************************************************)
EXTENDS RipNetwork

CONSTANTS A, B, C, ab, ba, ab2, ba2, bc, cb

MCNode == {A, B, C}
MCAddr == {ab, ba, ab2, ba2, bc, cb}
MCOwner == [i \in MCAddr |->
              CASE i \in {ab, ab2} -> A [] i \in {ba, ba2, bc} -> B [] i = cb -> C]
MCPeer == [i \in MCAddr |-> CASE i = ab -> ba [] i = ba -> ab [] i = ab2 -> ba2
                              [] i = ba2 -> ab2 [] i = bc -> cb [] i = cb -> bc]
MCIndex == [i \in MCAddr |-> CASE i \in {ab2, ba2} -> 1 [] i = bc -> 2 [] OTHER -> 0]
MCDist == [n \in MCNode |-> [d \in Dest |-> CASE n = A -> 2 [] n = B -> 1 [] n = C -> 0]]

\* The protocol has settled on the routes to cb.
Settled ==
  /\ running = Node
  /\ up = [i \in Addr |-> TRUE]
  /\ rtable = [n \in Node |-> [d \in Dest |->
       [cost |-> Dist[n][d], ticks |-> 0,
        nextHop |-> CASE n = A -> ab [] n = B -> bc [] n = C -> cb]]]
  /\ main = [i \in Addr |-> "none"]
  /\ messages = {} /\ late = {}

\* Bound: C ends and is started again, and its interface goes down and up.
SomeCommands == Start(C) \/ Quit(C) \/ Down(cb) \/ Up(cb)

ParallelSpec == Settled /\ [][SomeCommands \/ System]_vars /\ Timely

=============================================================================
