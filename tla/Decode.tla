------------------------------- MODULE Decode -------------------------------
(***************************************************************************)
(* ProcessPacketBasic: finds the layers of a captured packet and writes    *)
(* them into its meta, which is a slot of the ring and still holds what    *)
(* was decoded for an earlier packet.                                      *)
(*                                                                         *)
(* A frame is its headers from the outside, with their lengths: what the   *)
(* code reads at an offset is a field of the header that starts there.     *)
(* Addresses and ports are reduced to whether they are set.  The bytes     *)
(* behind the captured part are not modelled: a length test follows before *)
(* anything found there is used.                                           *)
(*                                                                         *)
(* GTP-U is left out: the code looks for its port, 2152, in network order  *)
(* (NT_GTP_U_V1_PORT), and on the little-endian machines the program runs  *)
(* on it finds 26632 instead; a frame with that port is not modelled.      *)
(*                                                                         *)
(* A name with an underscore is a faulty variant of the definition after   *)
(* it.                                                                     *)
(***************************************************************************)
EXTENDS Integers, Sequences

CONSTANTS
  Layers2,    (* bound: sequences of headers between Ethernet and transport *)
  IpHeaders,  (* bound: lengths of an IPv4 header                           *)
  TcpHeaders, (* bound: lengths of a TCP header                             *)
  Bodies,     (* bound: bytes of an IP packet after its header              *)
  Captures    (* bound: bytes captured, pktLen                              *)

HeaderNames == {"vlan", "mpls", "pppoe", "ip4", "ip6", "other"}

(* VLAN tags, then one label or PPPoE header at most (stacks of labels are *)
(* not modelled), then the network header.  Lengths are those the fields   *)
(* of the headers and pktLen can have.                                     *)
ASSUME DecodeAssumption ==
  /\ Layers2 \subseteq Seq(HeaderNames)
  /\ \A layers \in Layers2 :
       /\ layers # <<>> /\ layers[Len(layers)] \in {"ip4", "ip6", "other"}
       /\ \A i \in 1 .. Len(layers) - 1 :
            layers[i] = "vlan" \/ (i = Len(layers) - 1 /\ layers[i] \in {"mpls", "pppoe"})
  /\ IpHeaders \cup TcpHeaders \cup Bodies \cup Captures \subseteq Nat
  /\ \A len \in IpHeaders : 20 <= len /\ len <= 60
  /\ \A len \in TcpHeaders : len <= 60
  /\ \A len \in IpHeaders, body \in Bodies : len + body < 65536
  /\ \A len \in Captures : len < 65536

(* offload: the card fills in the total length of the IPv4 header later,   *)
(* and it is captured as 0.                                                *)
Frames ==
  [layers : Layers2, ihl : IpHeaders, fragment : BOOLEAN, offload : BOOLEAN,
   proto : {"tcp", "udp", "other"}, thl : TcpHeaders, body : Bodies, pktLen : Captures]

VARIABLES
  step,    (* where ProcessPacketBasic is                                   *)
  frame,   (* the packet                                                    *)
  above,   (* its headers not yet passed, the first one at ipOffset         *)
  ipOffset,(* ip_offset                                                     *)
  l4Len,   (* _l4_packet_len                                                *)
  meta     (* the meta of the packet                                        *)

decodeVars == <<step, frame, above, ipOffset, l4Len, meta>>

(* What an earlier packet has left in the meta: no value of this packet.   *)
Stale == -1

NoFrame == <<>>

DecodeInit ==
  /\ step = "idle" /\ frame = NoFrame /\ above = <<>> /\ ipOffset = 0 /\ l4Len = 0
  /\ meta = [layer3 |-> Stale, layer4 |-> Stale, layer5 |-> Stale, payload |-> Stale,
             ip |-> FALSE, ports |-> FALSE]

StepGoes(from, to) == step = from /\ step' = to

EtherLen == 14
UdpLen   == 8
Ip6Len   == 40

(* layer3Offset, layer4Offset and layer5Offset have 8 bits.                *)
Offset8(offset) == offset % 256

(* ntohs(len) - getHeaderLen(), in 16 bits.                                *)
LenAfterHeader(total, ihl) == (total - ihl) % 65536

ClearMeta ==
  /\ StepGoes("idle", "layer2")
  /\ \E f \in Frames : frame' = f /\ above' = f.layers
  /\ meta' = [meta EXCEPT !.ip = FALSE, !.ports = FALSE]
  /\ ipOffset' = EtherLen
  /\ UNCHANGED l4Len

VlanLen_TwoBytes == 2

VlanLen == 4

SkipVlan ==
  /\ step = "layer2" /\ Head(above) = "vlan"
  /\ above' = Tail(above)
  /\ ipOffset' = ipOffset + VlanLen
  /\ UNCHANGED <<step, frame, l4Len, meta>>

Total == IF frame.offload THEN 0 ELSE frame.ihl + frame.body

(* The loop over the labels looks at the fourth byte after the label: the  *)
(* low byte of the IPv4 length, or of the flow label of IPv6.  If it is    *)
(* odd the loop goes on inside of the IP header, and there the test of the *)
(* version fails (a frame whose identification begins with a 4 is not      *)
(* modelled).                                                              *)
LowBits == IF above[2] = "ip4" THEN {Total % 2} ELSE {0, 1}

SkipMpls ==
  /\ step = "layer2" /\ Head(above) = "mpls"
  /\ \E bit \in LowBits : step' = IF bit = 0 THEN "ip4" ELSE "done"
  /\ above' = Tail(above)
  /\ ipOffset' = ipOffset + 4
  /\ UNCHANGED <<frame, l4Len, meta>>

SkipPPPoE ==
  /\ step = "layer2" /\ Head(above) = "pppoe"
  /\ step' = "ip4"
  /\ above' = Tail(above)
  /\ ipOffset' = ipOffset + 8
  /\ UNCHANGED <<frame, l4Len, meta>>

NetworkType ==
  /\ step = "layer2" /\ Head(above) \in {"ip4", "ip6", "other"}
  /\ step' = IF Head(above) = "other" THEN "done" ELSE Head(above)
  /\ UNCHANGED <<frame, above, ipOffset, l4Len, meta>>

(* Too short for an IP header, or behind a label and not of version 4.     *)
NotDecoded ==
  /\ \/ step = "ip4" /\ (frame.pktLen < ipOffset + 20 \/ Head(above) # "ip4")
     \/ step = "ip6" /\ frame.pktLen < ipOffset + Ip6Len
  /\ step' = "done"
  /\ UNCHANGED <<frame, above, ipOffset, l4Len, meta>>

DecodeIp4 ==
  /\ StepGoes("ip4", "layer4")
  /\ Head(above) = "ip4" /\ frame.pktLen >= ipOffset + 20
  /\ meta' = [meta EXCEPT !.ip = TRUE, !.layer3 = Offset8(ipOffset),
                            !.layer4 = Offset8(ipOffset + frame.ihl)]
  /\ l4Len' = IF frame.fragment THEN 0 ELSE LenAfterHeader(Total, frame.ihl)
  /\ UNCHANGED <<frame, above, ipOffset>>

DecodeIp6 ==
  /\ StepGoes("ip6", "layer4")
  /\ frame.pktLen >= ipOffset + Ip6Len
  /\ meta' = [meta EXCEPT !.ip = TRUE, !.layer3 = Offset8(ipOffset),
                            !.layer4 = Offset8(ipOffset + Ip6Len)]
  /\ l4Len' = frame.body
  /\ UNCHANGED <<frame, above, ipOffset>>

(* Not more than was captured.                                             *)
Captured_All(len) == len

Captured(len) ==
  IF len + meta.layer4 <= frame.pktLen THEN len
  ELSE IF frame.pktLen > meta.layer4 THEN frame.pktLen - meta.layer4
  ELSE 0

DecodeTcp ==
  LET len == Captured(l4Len) IN
    /\ StepGoes("layer4", "done")
    /\ frame.proto = "tcp" /\ len >= 20
    /\ meta' = IF len >= frame.thl
               THEN [meta EXCEPT !.ports = TRUE, !.payload = len - frame.thl,
                                 !.layer5 = Offset8(meta.layer4 + frame.thl)]
               ELSE [meta EXCEPT !.ports = TRUE]
    /\ UNCHANGED <<frame, above, ipOffset, l4Len>>

DecodeUdp ==
  LET len == Captured(l4Len) IN
    /\ StepGoes("layer4", "done")
    /\ frame.proto = "udp" /\ len >= UdpLen
    /\ meta' = [meta EXCEPT !.ports = TRUE, !.payload = len - UdpLen,
                            !.layer5 = Offset8(meta.layer4 + UdpLen)]
    /\ UNCHANGED <<frame, above, ipOffset, l4Len>>

DecodeNoPorts ==
  LET len == Captured(l4Len) IN
    /\ StepGoes("layer4", "done")
    /\ ~(frame.proto = "tcp" /\ len >= 20) /\ ~(frame.proto = "udp" /\ len >= UdpLen)
    /\ meta' = [meta EXCEPT !.ports = FALSE]
    /\ UNCHANGED <<frame, above, ipOffset, l4Len>>

DecodeNext ==
  \/ ClearMeta \/ SkipVlan \/ SkipMpls \/ SkipPPPoE \/ NetworkType \/ NotDecoded
  \/ DecodeIp4 \/ DecodeIp6 \/ DecodeTcp \/ DecodeUdp \/ DecodeNoPorts

DecodeSpec == DecodeInit /\ [][DecodeNext]_decodeVars
-----------------------------------------------------------------------------
(***************************************************************************)
(* What a decoder has to find, from the frame as a whole.                  *)
(***************************************************************************)
HeaderLen(header, f) ==
  CASE header \in {"vlan", "mpls"} -> 4
    [] header = "pppoe" -> 8
    [] header = "ip4" -> f.ihl
    [] header = "ip6" -> Ip6Len
    [] OTHER -> 0

(* Where the n-th header starts, the one above the last included.          *)
Starts(f) ==
  LET at[n \in 1 .. Len(f.layers) + 1] ==
        IF n = 1 THEN EtherLen ELSE at[n-1] + HeaderLen(f.layers[n-1], f)
  IN  at

Ip(f)     == f.layers[Len(f.layers)]
IpAt(f)   == Starts(f)[Len(f.layers)]
L4At(f)   == Starts(f)[Len(f.layers) + 1]
Tagged(f) == {f.layers[i] : i \in 1 .. Len(f.layers) - 1}

(* Where the transport header and its payload end: with the IP packet,     *)
(* which Ethernet may have padded, or where the capture was cut; with a    *)
(* length that is still to be filled in, with the capture.                 *)
EndOf(f) ==
  IF (Ip(f) = "ip4" /\ f.offload) \/ L4At(f) + f.body > f.pktLen THEN f.pktLen
  ELSE L4At(f) + f.body

TransportLen(f) == IF f.proto = "tcp" THEN f.thl ELSE UdpLen

HasTransport(f) ==
  /\ f.proto # "other"
  /\ ~(Ip(f) = "ip4" /\ f.fragment)
  /\ EndOf(f) >= L4At(f) + (IF f.proto = "tcp" THEN 20 ELSE UdpLen)

(* The code goes on with IPv4 behind a label or PPPoE.  Left out are MPLS  *)
(* frames whose length is odd, TCP headers cut inside of their options (or *)
(* longer than their packet), whose meta keeps the payload of an earlier   *)
(* packet, and so many tags that the offsets do not fit into 8 bits.       *)
Decodable(f) ==
  /\ Ip(f) = "ip4" \/ (Ip(f) = "ip6" /\ Tagged(f) \subseteq {"vlan"})
  /\ "mpls" \in Tagged(f) => f.offload \/ (f.ihl + f.body) % 2 = 0
  /\ f.proto = "tcp" /\ HasTransport(f) => EndOf(f) >= L4At(f) + f.thl
  /\ L4At(f) + TransportLen(f) < 256

(* A decoded packet has ports exactly if its transport header was          *)
(* captured, and then its layers are where they are in the frame, nothing  *)
(* of them is left from an earlier packet, and the payload ends where the  *)
(* packet or the capture does.                                             *)
DecodeAgrees ==
  step = "done" /\ Decodable(frame) =>
    /\ meta.ports <=> HasTransport(frame)
    /\ meta.ports =>
         /\ meta.layer3 = IpAt(frame) /\ meta.layer4 = L4At(frame)
         /\ meta.layer5 = L4At(frame) + TransportLen(frame)
         /\ meta.layer5 + meta.payload = EndOf(frame)
=============================================================================
