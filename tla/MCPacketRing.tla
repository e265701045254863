---------------------------- MODULE MCPacketRing ----------------------------
EXTENDS PacketRing

(* Two bytes, in one column or two; and a byte with an invalid column      *)
(* behind it.                                                              *)
RequestsForMC == {[bytes |-> 2, good |-> 2], [bytes |-> 2, good |-> 1]}

(* The properties of packet_ring say nothing of what follows an overrun.   *)
NotOverrun == ~overrun
=============================================================================
