----------------------------- MODULE MCRipTree ------------------------------
(***************************************************************************)
(* nets/ABC.net: node B between A and C.  a1 - b1 and b2 - c1 are links.   *)
(***************************************************************************)
EXTENDS RipTree

CONSTANTS A, B, C, a1, b1, b2, c1

MCNode == {A, B, C}
MCAddr == {a1, b1, b2, c1}
MCOwner == [i \in MCAddr |-> CASE i = a1 -> A [] i \in {b1, b2} -> B [] i = c1 -> C]
MCPeer == [i \in MCAddr |-> CASE i = a1 -> b1 [] i = b1 -> a1 [] i = b2 -> c1 [] i = c1 -> b2]
MCIndex == [i \in MCAddr |-> IF i = b2 THEN 1 ELSE 0]
MCDist == [n \in MCNode |-> [d \in Dest |->
             IF MCOwner[d] = n THEN 0 ELSE IF {MCOwner[d], n} = {A, C} THEN 2 ELSE 1]]

\* Bound: A stays, B and C end and are started again, and B's interface to C goes down
\* and up.
SomeCommands == \/ \E n \in Node : Start(n)
                \/ \E n \in {B, C} : Quit(n)
                \/ Down(b2) \/ Up(b2)

TreeSpec == Init /\ [][SomeCommands \/ System]_vars /\ Timely /\ Heard

=============================================================================
