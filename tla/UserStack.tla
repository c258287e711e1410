----------------------------- MODULE UserStack -----------------------------
(***************************************************************************)
(* netmap/user_stack.c: the answer to one packet of the ring, or nothing.  *)
(* A packet is what lies in its slot: headers, and in slot the words that  *)
(* follow them, of which the first len are its data. Words have 4 bits     *)
(* instead of 16, and the structure for echoes holds 2 words of data       *)
(* instead of 16.                                                          *)
(***************************************************************************)
EXTENDS Integers, Sequences, SequencesExt

Span == 16
DataWords == 2               \* icmphdr.data
OurIp == 5                   \* 192.168.2.217
OurMac == "00:50:56:33:1c:ca"
Echo == 8
Nothing == [kind |-> "nothing"]

\* Carries are added twice, then the bits are turned.
in_cksum(words) ==
  LET sum == FoldLeft(LAMBDA a, b : a + b, 0, words)
      once == sum \div Span + (sum % Span)
  IN (Span - 1) - ((once + once \div Span) % Span)

\* Whatever is not named is copied from the packet.
echo_arp_pkt(arp, hmac) ==
  [arp EXCEPT !.h_dest = arp.h_source, !.h_source = hmac, !.oper = 2,
              !.smac = hmac, !.sip = arp.dip, !.dmac = arp.smac, !.dip = arp.sip]
Swapped(p) == [p EXCEPT !.h_dest = p.h_source, !.h_source = p.h_dest, !.saddr = p.daddr, !.daddr = p.saddr]
echo_udp_pkt(udp) == [Swapped(udp) EXCEPT !.source = udp.dest, !.dest = udp.source, !.slot = <<>>]
Words(icmp) == <<icmp.type, icmp.check, icmp.id>> \o icmp.slot
echo_icmp_pkt(icmp) ==
  LET back == [Swapped(icmp) EXCEPT !.type = 0, !.check = 0, !.slot = SubSeq(icmp.slot, 1, DataWords)]
  IN [back EXCEPT !.check = in_cksum(Words(back))]

\* The loop of main after a packet came.
PacketAnswer(p) ==
  CASE p.kind = "udp" -> echo_udp_pkt(p)
    [] p.kind = "icmp" /\ p.type = Echo -> echo_icmp_pkt(p)
    [] p.kind = "arp" /\ p.dip = OurIp -> echo_arp_pkt(p, OurMac)
    [] OTHER -> Nothing

----------------------------------------------------------------------------
(* What who asked may expect. *)

Data(p) == SubSeq(p.slot, 1, p.len)
\* All words add up to ones, in ones' complement.
Adds(words) == FoldLeft(LAMBDA a, b : IF a + b >= Span THEN a + b - Span + 1 ELSE a + b, 0, words) = Span - 1
IpAdds(p) == Adds(<<p.saddr, p.daddr, p.len, p.ipcheck>>)
UdpAdds(p) == Adds(<<p.saddr, p.daddr, p.source, p.dest, p.len, p.check>> \o Data(p))
IcmpAdds(p) == Adds(<<p.type, p.check, p.id>> \o Data(p))
Back(p, a) ==
  /\ a.h_dest = p.h_source /\ a.h_source = p.h_dest /\ a.saddr = p.daddr /\ a.daddr = p.saddr
  /\ IpAdds(a)

\* An echo is whole where its data are as long as the structure, a datagram where it is empty.
PacketRight(p, a) ==
  CASE p.kind = "udp" -> /\ Back(p, a) /\ a.source = p.dest /\ a.dest = p.source
                         /\ p.len = 0 => UdpAdds(a)
    [] p.kind = "icmp" -> IF p.type # Echo THEN a = Nothing
                          ELSE /\ Back(p, a) /\ a.type = 0 /\ a.id = p.id
                               /\ p.len = DataWords => IcmpAdds(a) /\ Data(a) = Data(p)
    [] p.kind = "arp" -> IF p.dip # OurIp THEN a = Nothing
                         ELSE /\ a.oper = 2 /\ a.smac = OurMac /\ a.sip = OurIp /\ a.h_source = OurMac
                              /\ a.h_dest = p.h_source /\ a.dmac = p.smac /\ a.dip = p.sip
    [] OTHER -> a = Nothing
============================================================================
