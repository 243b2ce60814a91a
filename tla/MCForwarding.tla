---------------------------- MODULE MCForwarding ----------------------------
(***************************************************************************)
(* Packets to C's address in the line A - B - C of nets/ABC.net: from A    *)
(* through B, from B, and from C itself.                                   *)
(***************************************************************************)
EXTENDS Forwarding, MCRipTree

\* Bound: the commands of MCRipTree.
SomeForwardingSpec ==
  ForwardingInit /\ [][((SomeCommands \/ System) /\ packet' = Surviving) \/ PacketNext]_<<vars, packet>>

=============================================================================
