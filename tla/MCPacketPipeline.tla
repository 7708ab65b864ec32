-------------------------- MODULE MCPacketPipeline --------------------------
(* Small instances of PacketPipeline for TLC: two packets that are alike, such as a *)
(* retransmission, and one of another connection.                                   *)
EXTENDS PacketPipeline

CONSTANTS p1, p2, p3, c1, c2

MCConOf == [p \in Packets |-> IF p = p3 THEN c2 ELSE c1]

MCBytes == MCConOf
=============================================================================
