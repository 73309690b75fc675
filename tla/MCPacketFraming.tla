-------------------------- MODULE MCPacketFraming ---------------------------
(* Instances of PacketFraming for TLC. *)
EXTENDS PacketFraming

MCHeadLens == {2, 3}
MCBodies == {0, 4}
MCPools == {4, 8}
=============================================================================
