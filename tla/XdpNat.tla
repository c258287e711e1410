------------------------------- MODULE XdpNat -------------------------------
(***************************************************************************)
(* The XDP program of code/ebpf/libbpf/xdp/xdp.bpf.c, which rewrites       *)
(* requests to this host into requests of this host to a server, and the   *)
(* answers back to the client. It runs on several processors at once. TCP  *)
(* and UDP remember one client in two static variables, ICMP remembers     *)
(* clients by identifier in an LRU map; no state is shared between the     *)
(* three, so a behaviour is about one of them. Numbers of 16 bits have     *)
(* SumSpan values here, numbers of 32 bits SumSpan^2.                      *)
(***************************************************************************)
EXTENDS Integers, FiniteSets, Sequences

CONSTANTS Cpus,
          LocalIp, ServerIp, ClientIps,  \* 32-bit numbers
          ClientPorts,                   \* ports, or identifiers of ICMP
          ServicePort,                   \* 80 or 38447
          SumSpan,
          MapEntries,                    \* max_entries of xdp_client_map
          MaxPackets                     \* bound: packets received

WideSpan == SumSpan * SumSpan

\* With 8 values and more, two folds are enough for the words of a packet.
ASSUME XdpAssumption ==
  /\ SumSpan \in Nat \ 0..7 /\ MapEntries \in Nat \ {0}
  /\ ClientIps \cup {LocalIp, ServerIp} \subseteq 0..(WideSpan - 1)
  /\ ClientPorts \cup {ServicePort} \subseteq 1..(SumSpan - 1) /\ ServicePort \notin ClientPorts

VARIABLES protocol,      \* "tcp", "udp" or "icmp"
          client_addr, client_port,      \* the static variables
          xdp_client_map,                \* identifier -> address, 0 for none
          packet,        \* per processor, the packet it handles
          handler,       \* per processor, where it is
          asked,         \* requests the server has seen: [client, port]
          rivals,        \* per request, who else asked since it did
          transmitted,   \* the last packet sent on, with what came in
          xdp_stats_map  \* rx_packets per action

xdpVars == <<protocol, client_addr, client_port, xdp_client_map, packet, handler, asked, rivals,
             transmitted, xdp_stats_map>>

\* make_checksum_from: one fold of a sum of 16-bit words.
make_checksum_from(n) == (n \div SumSpan) + (n % SumSpan)

\* MUTANT make_checksum_from32: folds once.
make_checksum_from32Once(n) == make_checksum_from(n) % SumSpan
make_checksum_from32(n) == make_checksum_from(make_checksum_from(n)) % SumSpan

\* The end-around carry of the processors: what is carried out is added again.
EndAround(n, span) ==
  LET carried[m \in Nat] == IF m < span THEN m ELSE carried[(m \div span) + (m % span)] IN carried[n]

WordSum(words) ==
  LET sum[i \in 0..Len(words)] == IF i = 0 THEN 0 ELSE sum[i - 1] + words[i] IN sum[Len(words)]

\* Words of 32 bits, complemented and folded once.
Complements(words) == [i \in DOMAIN words |-> WideSpan - 1 - words[i]]
FoldedWords(words) == [i \in DOMAIN words |-> make_checksum_from(words[i])]

\* bpf_csum_diff, on 32-bit words with the end-around carry of 32 bits.
bpf_csum_diff(old, new, seed) == EndAround(seed + WordSum(new) + WordSum(Complements(old)), WideSpan)

\* A checksum after words it covers have changed: ~old, as an int, is the seed.
Resummed(check, old, new) ==
  SumSpan - 1 - make_checksum_from32(bpf_csum_diff(old, new, WideSpan - 1 - check))

\* The words of a packet that change, of the header and of the pseudo header, and
\* all that the checksum of TCP and UDP covers.
HeaderWords(p) == <<p.saddr, p.daddr, p.ttl>>
PseudoWords(p) == <<p.saddr, p.daddr>>
CoveredWords(p) == <<p.saddr, p.daddr, p.source, p.dest>>

\* What the receiver of a packet checks: all words add up to all ones. UDP takes 0 for no checksum.
AddsUp(words, check) == EndAround(check + WordSum(FoldedWords(words)), SumSpan) = SumSpan - 1
Accepted(p) ==
  /\ AddsUp(HeaderWords(p), p.ipcheck)
  /\ \/ protocol = "icmp" \/ (protocol = "udp" /\ p.check = 0)
     \/ AddsUp(CoveredWords(p), p.check)

\* A packet with right checksums. room is the number of bytes after its headers.
Right(words) == SumSpan - 1 - make_checksum_from(make_checksum_from(WordSum(FoldedWords(words))))
Summed(p) == [p EXCEPT !.ipcheck = Right(HeaderWords(p)), !.check = Right(CoveredWords(p))]
Packet(kind, client, src, source, dest, room) ==
  Summed([kind |-> kind, client |-> client, saddr |-> src, daddr |-> LocalIp, source |-> source, dest |-> dest,
          ttl |-> 2, room |-> room, ipcheck |-> 0, check |-> 0])
NoPacket == [kind |-> "none"]
Nothing == [in |-> NoPacket, out |-> NoPacket, alone |-> FALSE]

\* icmp_request_server, icmp_reply_server and the four redirections: ICMP keeps
\* the time to live and has no pseudo header.
Redirected(p, to) ==
  LET moved == [p EXCEPT !.saddr = LocalIp, !.daddr = to, !.ttl = IF protocol = "icmp" THEN @ ELSE (@ - 1) % SumSpan]
  IN [moved EXCEPT !.ipcheck = Resummed(p.ipcheck, HeaderWords(p), HeaderWords(moved)),
                   !.check = IF protocol = "icmp" THEN @ ELSE Resummed(p.check, PseudoWords(p), PseudoWords(moved))]

XdpInit(protocols) ==
  /\ protocol \in protocols
  /\ client_addr = 0 /\ client_port = 0 /\ xdp_client_map = [i \in ClientPorts |-> 0]
  /\ packet = [c \in Cpus |-> NoPacket] /\ handler = [c \in Cpus |-> "idle"]
  /\ asked = {} /\ rivals = [a \in ClientIps |-> [port \in ClientPorts |-> {}]]
  /\ transmitted = Nothing /\ xdp_stats_map = [a \in {"pass", "tx"} |-> 0]

\* The end of xdp_pass_func: the action is counted and returned.
Count(action) == xdp_stats_map' = [xdp_stats_map EXCEPT ![action] = @ + 1]
Transmit(c, to) ==
  /\ transmitted' = [in |-> packet[c], out |-> Redirected(packet[c], to),
                     alone |-> packet[c].kind = "answer" /\ rivals[packet[c].client][packet[c].dest] = {}]
  /\ handler' = [handler EXCEPT ![c] = "idle"] /\ packet' = [packet EXCEPT ![c] = NoPacket]
  /\ asked' = IF packet[c].kind = "request" THEN asked \cup {[client |-> packet[c].client, port |-> packet[c].source]} ELSE asked
  /\ Count("tx") /\ UNCHANGED protocol
Pass(c) ==
  /\ handler' = [handler EXCEPT ![c] = "idle"] /\ packet' = [packet EXCEPT ![c] = NoPacket]
  /\ Count("pass") /\ UNCHANGED <<protocol, asked, transmitted>>

\* A packet comes in: a request of a client, also of UDP without a checksum, or
\* an answer of the server to a request it has seen.
Busy == {c \in Cpus : handler[c] # "idle"}
Receive(c) ==
  /\ handler[c] = "idle" /\ xdp_stats_map["pass"] + xdp_stats_map["tx"] + Cardinality(Busy) < MaxPackets
  /\ \/ \E client \in ClientIps, port \in ClientPorts, room \in {0, 1} :
          LET p == Packet("request", client, client, port, ServicePort, room)
          IN \E check \in {p.check} \cup (IF protocol = "udp" THEN {0} ELSE {}) :
               packet' = [packet EXCEPT ![c] = [p EXCEPT !.check = check]]
     \/ \E q \in asked : packet' = [packet EXCEPT ![c] = Packet("answer", q.client, ServerIp, ServicePort, q.port, 1)]
  /\ handler' = [handler EXCEPT ![c] = "parse"] /\ transmitted' = Nothing
  /\ UNCHANGED <<protocol, client_addr, client_port, xdp_client_map, asked, rivals, xdp_stats_map>>

\* check_*_fix want a byte after the header: a packet without payload is passed on.
MayParse(c) == handler[c] = "parse" /\ packet[c].room > 0
PassBare(c) ==
  /\ handler[c] = "parse" /\ packet[c].room = 0 /\ Pass(c)
  /\ UNCHANGED <<client_addr, client_port, xdp_client_map, rivals>>

\* Who may have taken the memory of a request since it was made: others that ask
\* later or are asking now. ICMP has a memory for each identifier.
Rivals(c) ==
  LET p == packet[c]
      asking == {packet[d].client : d \in {e \in Busy \ {c} : handler[e] = "port"}}
  IN [a \in ClientIps |-> [port \in ClientPorts |->
       IF a = p.client THEN IF port = p.source THEN asking \ {a} ELSE rivals[a][port]
       ELSE IF protocol # "icmp" \/ port = p.source THEN rivals[a][port] \cup {p.client}
       ELSE rivals[a][port]]]

\* A request of TCP or UDP: the address is stored, then the port.
StoreAddr(c) ==
  /\ MayParse(c) /\ protocol # "icmp" /\ packet[c].dest = ServicePort
  /\ client_addr' = packet[c].saddr /\ rivals' = Rivals(c)
  /\ handler' = [handler EXCEPT ![c] = "port"]
  /\ UNCHANGED <<protocol, client_port, xdp_client_map, packet, asked, transmitted, xdp_stats_map>>
StorePort(c) ==
  /\ handler[c] = "port" /\ client_port' = packet[c].source /\ Transmit(c, ServerIp)
  /\ UNCHANGED <<client_addr, xdp_client_map, rivals>>

IsForClient(p) == p.dest = client_port

\* An answer of TCP or UDP: the port is compared, then the address read.
ComparePort(c) ==
  /\ MayParse(c) /\ protocol # "icmp" /\ packet[c].dest # ServicePort
  /\ IF IsForClient(packet[c])
     THEN handler' = [handler EXCEPT ![c] = "addr"] /\ UNCHANGED <<protocol, packet, asked, transmitted, xdp_stats_map>>
     ELSE Pass(c)
  /\ UNCHANGED <<client_addr, client_port, xdp_client_map, rivals>>
ReadAddr(c) ==
  /\ handler[c] = "addr" /\ Transmit(c, client_addr)
  /\ UNCHANGED <<client_addr, client_port, xdp_client_map, rivals>>

\* ICMP_ECHO: the client is put into the map, which forgets another when full.
Echo(c) ==
  LET p == packet[c]
      held == {i \in ClientPorts : xdp_client_map[i] # 0}
  IN /\ MayParse(c) /\ protocol = "icmp" /\ p.kind = "request"
     /\ \/ /\ \E out \in IF p.source \in held \/ Cardinality(held) < MapEntries THEN {0} ELSE held :
                xdp_client_map' = [i \in ClientPorts |->
                  IF i = p.source THEN p.saddr ELSE IF i = out THEN 0 ELSE xdp_client_map[i]]
           /\ rivals' = Rivals(c) /\ Transmit(c, ServerIp)
        \/ Pass(c) /\ UNCHANGED <<xdp_client_map, rivals>>          \* bpf_map_update_elem fails
     /\ UNCHANGED <<client_addr, client_port>>

\* ICMP_ECHOREPLY: the client is looked up.
EchoReply(c) ==
  LET client == xdp_client_map[packet[c].dest]
  IN /\ MayParse(c) /\ protocol = "icmp" /\ packet[c].kind = "answer"
     /\ IF client = 0 THEN Pass(c) ELSE Transmit(c, client)
     /\ UNCHANGED <<client_addr, client_port, xdp_client_map, rivals>>

XdpNext ==
  \E c \in Cpus :
    \/ Receive(c) \/ PassBare(c) \/ StoreAddr(c) \/ StorePort(c) \/ ComparePort(c) \/ ReadAddr(c)
    \/ Echo(c) \/ EchoReply(c)

----------------------------------------------------------------------------
\* What is sent on has right checksums when what came in has, but UDP without
\* one (xdp.bpf.c:305); it comes from this host; and an answer goes to the
\* client that asked when nobody else has asked since: with one memory for all
\* clients it goes to another otherwise (xdp.bpf.c:373).
RedirectedRight ==
  LET in == transmitted.in
      out == transmitted.out
  IN out # NoPacket =>
       /\ Accepted(in) /\ ~ (protocol = "udp" /\ in.check = 0) => Accepted(out)
       /\ out.saddr = LocalIp
       /\ out.daddr = ServerIp \/ in.kind = "answer"
       /\ transmitted.alone => out.daddr = in.client
=============================================================================
