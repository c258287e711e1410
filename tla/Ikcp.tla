-------------------------------- MODULE Ikcp --------------------------------
(***************************************************************************)
(* The KCP control block of code/kcp/ikcp.c: every operation maps a block  *)
(* k to the block it leaves, and ikcp_flush also to the datagrams it hands *)
(* to the output callback. Time is left out: which segments have waited    *)
(* for their retransmission timeout, whether the probe timer has run out   *)
(* and whether the flush interval has passed are arguments, chosen by the  *)
(* caller; so are left out ts, rto and the estimate of the round trip      *)
(* (ikcp_update_ack), which only decide these. Sequence numbers start from *)
(* 0 and stay far below 2^31, where _itimediff is the difference.          *)
(***************************************************************************)
EXTENDS Integers, Sequences, FiniteSets, SequencesExt

CONSTANTS IKCP_WND_RCV,      \* receive window, and the limit on fragments (128)
          IKCP_WND_SND,      \* send window (32)
          IKCP_MTU_DEF,      \* bytes of a datagram (1400)
          IKCP_OVERHEAD,     \* bytes of a segment header (24)
          IKCP_THRESH_INIT,  \* (2)
          IKCP_THRESH_MIN,   \* (2)
          IKCP_FASTACK_LIMIT \* (5)

ASSUME IkcpAssumption ==
  /\ IKCP_WND_RCV \in Nat \ {0} /\ IKCP_WND_SND \in Nat \ {0}
  /\ IKCP_OVERHEAD \in 1..49 /\ IKCP_MTU_DEF \in Nat /\ IKCP_MTU_DEF > IKCP_OVERHEAD
  /\ IKCP_THRESH_INIT \in Nat /\ IKCP_THRESH_MIN \in Nat /\ IKCP_FASTACK_LIMIT \in Nat

Least(a, b) == IF a <= b THEN a ELSE b
Largest(a, b) == IF a >= b THEN a ELSE b

ikcp_create ==
  [snd_una |-> 0, snd_nxt |-> 0, rcv_nxt |-> 0,
   snd_wnd |-> IKCP_WND_SND, rcv_wnd |-> IKCP_WND_RCV, rmt_wnd |-> IKCP_WND_RCV,
   cwnd |-> 0, incr |-> 0, ssthresh |-> IKCP_THRESH_INIT,
   mtu |-> IKCP_MTU_DEF, mss |-> IKCP_MTU_DEF - IKCP_OVERHEAD, fastresend |-> 0, nocwnd |-> FALSE,
   snd_queue |-> <<>>, rcv_queue |-> <<>>, snd_buf |-> <<>>, rcv_buf |-> <<>>,
   acklist |-> <<>>, probe |-> {}, probing |-> FALSE, updated |-> FALSE]

\* The settings that do not concern time. A receive window below the largest
\* number of fragments is not taken.
ikcp_nodelay(k, resend, nc) == [k EXCEPT !.fastresend = resend, !.nocwnd = nc]
ikcp_wndsize(k, sndwnd, rcvwnd) ==
  [k EXCEPT !.snd_wnd = IF sndwnd > 0 THEN sndwnd ELSE @,
            !.rcv_wnd = IF rcvwnd > 0 THEN Largest(rcvwnd, IKCP_WND_RCV) ELSE @]
ikcp_setmtu(k, mtu) ==
  IF mtu < 50 \/ mtu < IKCP_OVERHEAD THEN k ELSE [k EXCEPT !.mtu = mtu, !.mss = mtu - IKCP_OVERHEAD]

\* The segments of a message: the fragments of len bytes count down to 0. The
\* answer is the empty sequence for a message of too many fragments.
Fragments(k, msg, len) ==
  LET count == IF len <= k.mss THEN 1 ELSE (len + k.mss - 1) \div k.mss
      Fragment(i) == [frg |-> count - i, msg |-> msg,
                      len |-> IF i < count THEN k.mss ELSE len - (count - 1) * k.mss]
  IN IF count >= IKCP_WND_RCV THEN <<>> ELSE [i \in 1..count |-> Fragment(i)]

ikcp_send(k, msg, len) == [k EXCEPT !.snd_queue = @ \o Fragments(k, msg, len)]

\* Where the first message of a queue ends: at its fragment 0, or with the queue.
LastFragment(q) ==
  CHOOSE i \in DOMAIN q : (q[i].frg = 0 \/ i = Len(q)) /\ \A j \in 1..(i - 1) : q[j].frg # 0

\* The size of the next message, -1 while its last fragment is missing.
ikcp_peeksize(k) ==
  LET q == k.rcv_queue
      size[i \in 0..Len(q)] == IF i = 0 THEN 0 ELSE size[i - 1] + q[i].len
  IN IF q = <<>> \/ Len(q) < Head(q).frg + 1 THEN -1 ELSE size[LastFragment(q)]

\* MUTANT MoveAvailable: whatever comes first in rcv_buf is taken for the next one.
MoveAvailableUnordered(k) ==
  LET n == Least(Len(k.rcv_buf), k.rcv_wnd - Len(k.rcv_queue))
  IN [k EXCEPT !.rcv_queue = @ \o SubSeq(k.rcv_buf, 1, n),
               !.rcv_buf = SubSeq(@, n + 1, Len(@)), !.rcv_nxt = @ + n]

\* Move the segments that are next in order from rcv_buf to rcv_queue, while
\* the queue has room.
Ready(k, n) ==
  /\ \A i \in 1..n : k.rcv_buf[i].sn = k.rcv_nxt + i - 1
  /\ Len(k.rcv_queue) + n <= Largest(k.rcv_wnd, Len(k.rcv_queue))
MoveAvailable(k) ==
  LET n == Max({m \in 0..Len(k.rcv_buf) : Ready(k, m)})
  IN [k EXCEPT !.rcv_queue = @ \o SubSeq(k.rcv_buf, 1, n),
               !.rcv_buf = SubSeq(@, n + 1, Len(@)), !.rcv_nxt = @ + n]

\* recv into a buffer of len bytes: whether it succeeds, the fragments it
\* merges and the block it leaves. A queue that was full is told to the peer.
CanRecv(k, len) == ikcp_peeksize(k) \in 0..len
Received(k) == SubSeq(k.rcv_queue, 1, LastFragment(k.rcv_queue))
ikcp_recv(k) ==
  LET taken == [k EXCEPT !.rcv_queue = SubSeq(@, Len(Received(k)) + 1, Len(@))]
      moved == MoveAvailable(taken)
      recover == Len(k.rcv_queue) >= k.rcv_wnd
  IN IF recover /\ Len(moved.rcv_queue) < k.rcv_wnd
     THEN [moved EXCEPT !.probe = @ \cup {"tell"}] ELSE moved

----------------------------------------------------------------------------
ikcp_shrink_buf(k) ==
  [k EXCEPT !.snd_una = IF k.snd_buf = <<>> THEN k.snd_nxt ELSE Head(k.snd_buf).sn]

\* How many segments of a buffer come before sn: both buffers are in the order
\* of sn, and the loops stop at the first sn that is too large.
Before(buf, sn) == Cardinality({i \in DOMAIN buf : buf[i].sn < sn})
Holds(buf, sn) == \E i \in DOMAIN buf : buf[i].sn = sn

\* MUTANT ikcp_parse_una: the segment una itself goes as well.
ikcp_parse_unaTooMany(k, una) == [k EXCEPT !.snd_buf = SubSeq(@, Before(@, una + 1) + 1, Len(@))]

ikcp_parse_una(k, una) == [k EXCEPT !.snd_buf = SubSeq(@, Before(@, una) + 1, Len(@))]

Outstanding(k, sn) == k.snd_una <= sn /\ sn < k.snd_nxt
ikcp_parse_ack(k, sn) ==
  IF Outstanding(k, sn) /\ Holds(k.snd_buf, sn)
  THEN [k EXCEPT !.snd_buf = RemoveAt(@, Before(@, sn) + 1)] ELSE k

Skipped(k, s) == [s EXCEPT !.fastack = Least(s.fastack + 1, k.fastresend)]
ikcp_parse_fastack(k, sn) ==
  IF ~ Outstanding(k, sn) THEN k
  ELSE [k EXCEPT !.snd_buf = [i \in DOMAIN k.snd_buf |->
          IF k.snd_buf[i].sn < sn THEN Skipped(k, k.snd_buf[i]) ELSE k.snd_buf[i]]]

ikcp_ack_push(k, sn) == [k EXCEPT !.acklist = Append(@, sn)]

\* A segment inside the window that is no repetition takes its place in rcv_buf.
ikcp_parse_data(k, seg) ==
  LET data == [sn |-> seg.sn, frg |-> seg.frg, msg |-> seg.msg, len |-> seg.len]
  IN IF seg.sn >= k.rcv_nxt + k.rcv_wnd \/ seg.sn < k.rcv_nxt THEN k
     ELSE MoveAvailable(IF Holds(k.rcv_buf, seg.sn) THEN k
                        ELSE [k EXCEPT !.rcv_buf = InsertAt(@, Before(@, seg.sn) + 1, data)])

InputAck(k, seg) == ikcp_shrink_buf(ikcp_parse_ack(k, seg.sn))
InputPush(k, seg) ==
  IF seg.sn >= k.rcv_nxt + k.rcv_wnd THEN k
  ELSE LET acked == ikcp_ack_push(k, seg.sn)
       IN IF seg.sn >= k.rcv_nxt THEN ikcp_parse_data(acked, seg) ELSE acked

\* One segment of a datagram, whatever its command.
InputSegment(k, seg) ==
  LET seen == ikcp_shrink_buf(ikcp_parse_una([k EXCEPT !.rmt_wnd = seg.wnd], seg.una))
  IN CASE seg.cmd = "ack"  -> InputAck(seen, seg)
       [] seg.cmd = "push" -> InputPush(seen, seg)
       [] seg.cmd = "wask" -> [seen EXCEPT !.probe = @ \cup {"tell"}]
       [] seg.cmd = "wins" -> seen

\* The congestion window opens when an acknowledgement moved snd_una.
GrowWindow(k) ==
  LET slow == [k EXCEPT !.cwnd = @ + 1, !.incr = @ + k.mss]
      base == Largest(k.incr, k.mss)
      incr == base + (k.mss * k.mss) \div base + k.mss \div 16
      linear == [k EXCEPT !.incr = incr,
                   !.cwnd = IF (@ + 1) * k.mss <= incr THEN (incr + k.mss - 1) \div k.mss ELSE @]
      grown == IF k.cwnd < k.ssthresh THEN slow ELSE linear
  IN IF k.cwnd >= k.rmt_wnd THEN k
     ELSE IF grown.cwnd > k.rmt_wnd
          THEN [grown EXCEPT !.cwnd = k.rmt_wnd, !.incr = k.rmt_wnd * k.mss]
          ELSE grown

ikcp_input(k, datagram) ==
  LET read[i \in 0..Len(datagram)] == IF i = 0 THEN k ELSE InputSegment(read[i - 1], datagram[i])
      after == read[Len(datagram)]
      acks == {datagram[i].sn : i \in {j \in DOMAIN datagram : datagram[j].cmd = "ack"}}
      fast == IF acks = {} THEN after ELSE ikcp_parse_fastack(after, Max(acks))
  IN IF fast.snd_una > k.snd_una THEN GrowWindow(fast) ELSE fast

----------------------------------------------------------------------------
ikcp_wnd_unused(k) == Largest(k.rcv_wnd - Len(k.rcv_queue), 0)

\* A segment as it is encoded: what its header tells of the receiving side is
\* that of the moment it is sent.
Encoded(k, cmd, sn, frg, msg, len) ==
  [cmd |-> cmd, sn |-> sn, frg |-> frg, msg |-> msg, len |-> len,
   wnd |-> ikcp_wnd_unused(k), una |-> k.rcv_nxt]
Control(k, cmd, sn) == Encoded(k, cmd, sn, 0, 0, 0)

\* Segments fill a datagram until the next one does not fit into mtu bytes.
Packed(k, segs) ==
  LET Bytes(s) == IKCP_OVERHEAD + s.len
      Add(d, s) == IF d.size + Bytes(s) > k.mtu
                   THEN [done |-> Append(d.done, d.open), open |-> <<s>>, size |-> Bytes(s)]
                   ELSE [d EXCEPT !.open = Append(@, s), !.size = @ + Bytes(s)]
      fill[i \in 0..Len(segs)] ==
        IF i = 0 THEN [done |-> <<>>, open |-> <<>>, size |-> 0] ELSE Add(fill[i - 1], segs[i])
      all == fill[Len(segs)]
  IN IF all.size > 0 THEN Append(all.done, all.open) ELSE all.done

\* MUTANT Probe: the probe timer starts again and again.
ProbeNever(k, probeDue) == [k EXCEPT !.probing = k.rmt_wnd = 0]

\* The probe timer, while the window of the peer is zero.
Probe(k, probeDue) ==
  IF k.rmt_wnd # 0 THEN [k EXCEPT !.probing = FALSE]
  ELSE [k EXCEPT !.probing = TRUE, !.probe = IF k.probing /\ probeDue THEN @ \cup {"ask"} ELSE @]

Window(k) ==
  LET wnd == Least(k.snd_wnd, k.rmt_wnd) IN IF k.nocwnd THEN wnd ELSE Least(k.cwnd, wnd)

\* MUTANT FillBuffer: the window is counted from snd_nxt.
FillBufferFromNext(k) ==
  LET n == Least(Len(k.snd_queue), Window(k))
      Numbered(i) == [sn |-> k.snd_nxt + i - 1, frg |-> k.snd_queue[i].frg, msg |-> k.snd_queue[i].msg,
                      len |-> k.snd_queue[i].len, xmit |-> 0, fastack |-> 0]
  IN [k EXCEPT !.snd_buf = @ \o [i \in 1..n |-> Numbered(i)],
               !.snd_queue = SubSeq(@, n + 1, Len(@)), !.snd_nxt = @ + n]

\* New data goes from snd_queue to snd_buf as far as the window allows.
FillBuffer(k) ==
  LET n == Least(Len(k.snd_queue), Largest(k.snd_una + Window(k) - k.snd_nxt, 0))
      Numbered(i) == [sn |-> k.snd_nxt + i - 1, frg |-> k.snd_queue[i].frg, msg |-> k.snd_queue[i].msg,
                      len |-> k.snd_queue[i].len, xmit |-> 0, fastack |-> 0]
  IN [k EXCEPT !.snd_buf = @ \o [i \in 1..n |-> Numbered(i)],
               !.snd_queue = SubSeq(@, n + 1, Len(@)), !.snd_nxt = @ + n]

\* Why a segment of snd_buf is sent now: first, lost (its timeout has passed),
\* fast (enough later ones were acknowledged), or not at all. late holds the
\* sequence numbers whose timeout has passed.
Reason(k, s, late) ==
  IF s.xmit = 0 THEN "first"
  ELSE IF s.sn \in late THEN "lost"
  ELSE IF /\ k.fastresend > 0 /\ s.fastack >= k.fastresend
          /\ s.xmit <= IKCP_FASTACK_LIMIT \/ IKCP_FASTACK_LIMIT = 0 THEN "fast"
  ELSE "none"

\* ssthresh and cwnd after fast retransmissions and after timeouts; window is
\* the one of FillBuffer.
Congest(k, change, lost, window) ==
  LET half == Largest((k.snd_nxt - k.snd_una) \div 2, IKCP_THRESH_MIN)
      fast == IF change THEN [k EXCEPT !.ssthresh = half, !.cwnd = half + k.fastresend,
                                       !.incr = (half + k.fastresend) * k.mss]
              ELSE k
      slow == IF lost THEN [fast EXCEPT !.ssthresh = Largest(window \div 2, IKCP_THRESH_MIN),
                                        !.cwnd = 1, !.incr = k.mss]
              ELSE fast
  IN IF slow.cwnd < 1 THEN [slow EXCEPT !.cwnd = 1, !.incr = k.mss] ELSE slow

\* Transmissions are told apart up to the limit on fast ones, and skipped
\* acknowledgements (ikcp_parse_fastack) up to fastresend.
Counted(xmit) == Least(xmit + 1, IKCP_FASTACK_LIMIT + 1)

\* The acknowledgements and the answers to and of probes.
Acks(k) == [i \in DOMAIN k.acklist |-> Control(k, "ack", k.acklist[i])]
Asked(k, probe) ==
  LET last == IF k.acklist = <<>> THEN 0 ELSE k.acklist[Len(k.acklist)]
  IN (IF "ask" \in probe THEN <<Control(k, "wask", last)>> ELSE <<>>)
     \o (IF "tell" \in probe THEN <<Control(k, "wins", last)>> ELSE <<>>)

\* The segments of a buffer that are sent, and the buffer after that.
Data(k, buf, late) ==
  LET pushed[i \in 0..Len(buf)] ==
        IF i = 0 THEN <<>>
        ELSE IF Reason(k, buf[i], late) = "none" THEN pushed[i - 1]
        ELSE Append(pushed[i - 1], Encoded(k, "push", buf[i].sn, buf[i].frg, buf[i].msg, buf[i].len))
  IN pushed[Len(buf)]
Resent(k, buf, late) ==
  [i \in DOMAIN buf |->
     CASE Reason(k, buf[i], late) = "none" -> buf[i]
       [] Reason(k, buf[i], late) = "fast" -> [buf[i] EXCEPT !.xmit = Counted(@), !.fastack = 0]
       [] OTHER                            -> [buf[i] EXCEPT !.xmit = Counted(@)]]

\* The block after a flush and the datagrams of it, in the order of output.
ikcp_flush(k, late, probeDue) ==
  LET probed == Probe(k, probeDue)
      filled == FillBuffer([probed EXCEPT !.acklist = <<>>, !.probe = {}])
      Because(reason) == \E i \in DOMAIN filled.snd_buf : Reason(k, filled.snd_buf[i], late) = reason
      sent == [filled EXCEPT !.snd_buf = Resent(k, @, late)]
  IN IF ~ k.updated THEN [k |-> k, out |-> <<>>]
     ELSE [k |-> Congest(sent, Because("fast"), Because("lost"), Window(probed)),
           out |-> Packed(k, Acks(k) \o Asked(k, probed.probe) \o Data(k, filled.snd_buf, late))]

\* The first update always flushes, a later one when the interval has passed.
ikcp_update(k, due, late, probeDue) ==
  LET ready == [k EXCEPT !.updated = TRUE]
  IN IF ~ k.updated \/ due THEN ikcp_flush(ready, late, probeDue) ELSE [k |-> ready, out |-> <<>>]

\* What the retransmission timers and the probe timer of the block may say.
Lateness(k) == SUBSET {k.snd_buf[i].sn : i \in {j \in DOMAIN k.snd_buf : k.snd_buf[j].xmit > 0}}
ProbeTimes(k) == IF k.probing /\ k.rmt_wnd = 0 THEN BOOLEAN ELSE {FALSE}
=============================================================================
