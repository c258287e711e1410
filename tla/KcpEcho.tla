------------------------------ MODULE KcpEcho -------------------------------
(***************************************************************************)
(* The two programs of code/kcp over a network that loses, repeats and     *)
(* reorders datagrams. The client (test_client.cpp) sends messages; the    *)
(* server (test_server.cpp) sends every message it receives back. Each has *)
(* two threads whose work is inside one mutex, so each pass of a thread is *)
(* one action. One connection; the messages are numbered in the order of   *)
(* ikcp_send.                                                              *)
(***************************************************************************)
EXTENDS Ikcp

CONSTANTS Sizes,        \* the lengths of the messages the client sends
          MTU, SndWnd, RcvWnd, BufSize, FastResends,  \* settings of both programs
          MaxNet        \* datagrams on their way to one end (bound)

ASSUME KcpEchoAssumption ==
  /\ Sizes \in Seq(Nat) /\ MTU \in Nat /\ SndWnd \in Nat \ {0} /\ RcvWnd \in Nat
  /\ BufSize \in Nat /\ FastResends \subseteq Nat /\ MaxNet \in Nat

\* What the client sends in the run: the second message needs two fragments.
FragmentedSizes == <<10, 30>>

Ends == {"client", "server"}
Peer(e) == IF e = "client" THEN "server" ELSE "client"
Unset == [updated |-> FALSE, unset |-> TRUE]       \* no instance in g_kcpmap yet

VARIABLES kcp,     \* the control block of each end
          net,     \* the datagrams on their way to each end
          sent,    \* how many messages each application has given to ikcp_send
          got      \* the messages each application has received

vars == <<kcp, net, sent, got>>

Exists(e) == kcp[e] # Unset
Instance(resend) == ikcp_setmtu(ikcp_wndsize(ikcp_nodelay(ikcp_create, resend, FALSE), SndWnd, RcvWnd), MTU)

Init ==
  /\ \E resend \in FastResends : kcp = [client |-> Instance(resend), server |-> Unset]
  /\ net = [e \in Ends |-> {}]
  /\ sent = [e \in Ends |-> 0]
  /\ got = [e \in Ends |-> <<>>]

\* udp_output. The network holds no more than MaxNet datagrams in one direction
\* and loses others when more come.
Output(from, e, new) ==
  LET all == from[e] \cup new
      Kept == IF Cardinality(new) <= MaxNet THEN {new \cup old : old \in SUBSET from[e]} ELSE SUBSET new
  IN \E on \in IF Cardinality(all) <= MaxNet THEN {all}
               ELSE {some \in Kept : Cardinality(some) = MaxNet} :
       net' = [from EXCEPT ![e] = on]

\* ikcp_flush and then ikcp_update, as every pass does: the block they leave,
\* the datagrams of both, and what the timers said in the second.
Flushed(k) ==
  {ikcp_flush(k, late, probeDue) : late \in Lateness(k), probeDue \in ProbeTimes(k)}
Timers(k) ==
  {[due |-> FALSE, late |-> {}, probe |-> FALSE]} \cup
  [due : {TRUE}, late : Lateness(k), probe : ProbeTimes(k)]
Updated(k) == {[after |-> ikcp_update(k, t.due, t.late, t.probe), timers |-> t] : t \in Timers(k)}
FlushAndUpdate(k) ==
  UNION {{[k |-> u.after.k, out |-> ToSet(f.out \o u.after.out),
           late |-> u.timers.late, probe |-> u.timers.probe] : u \in Updated(f.k)} : f \in Flushed(k)}

\* The same, where it does not matter what the timers said.
Passes(k) == {[k |-> r.k, out |-> r.out] : r \in FlushAndUpdate(k)}

\* ikcp_send takes a message, or answers -2.
Taken(k, m, len) == Fragments(k, m, len) # <<>>

\* The first thread of the client: send (until the messages of the model are
\* used up), flush, update. r is what flush and update come to. After a message
\* that is not taken it goes on with nothing changed, and makes the same again.
ClientHasMore == sent.client < Len(Sizes)
ClientBlock ==
  IF ClientHasMore THEN ikcp_send(kcp.client, sent.client + 1, Sizes[sent.client + 1]) ELSE kcp.client
ClientPass(r) ==
  /\ ClientHasMore => Taken(kcp.client, sent.client + 1, Sizes[sent.client + 1])
  /\ sent' = [sent EXCEPT !.client = IF ClientHasMore THEN @ + 1 ELSE @]
  /\ kcp' = [kcp EXCEPT !.client = r.k]
  /\ Output(net, "server", r.out)
  /\ UNCHANGED got
ClientSend == \E r \in Passes(ClientBlock) : ClientPass(r)

\* recvfrom: a datagram arrives, and may arrive again.
Arrives(e, d) == {[net EXCEPT ![e] = @ \ {d}], net}

\* The message ikcp_recv merges, by the numbers and fragments of its parts.
Merged(k) == [i \in DOMAIN Received(k) |-> <<Received(k)[i].msg, Received(k)[i].frg>>]

\* The second thread of the client: input, flush, update, and one ikcp_recv.
ClientInput(d) ==
  \E from \in Arrives("client", d), r \in Passes(ikcp_input(kcp.client, d)) :
    /\ Output(from, "server", r.out)
    /\ IF CanRecv(r.k, BufSize)
       THEN /\ kcp' = [kcp EXCEPT !.client = ikcp_recv(r.k)]
            /\ got' = [got EXCEPT !.client = Append(@, Merged(r.k))]
       ELSE kcp' = [kcp EXCEPT !.client = r.k] /\ UNCHANGED got
    /\ UNCHANGED sent

\* The second thread of the server: find the instance or create it, input,
\* flush, update.
ServerInput(d) ==
  LET found == IF Exists("server") THEN kcp.server ELSE Instance(kcp.client.fastresend)
  IN \E from \in Arrives("server", d), r \in Passes(ikcp_input(found, d)) :
       /\ Output(from, "client", r.out)
       /\ kcp' = [kcp EXCEPT !.server = r.k]
       /\ UNCHANGED <<sent, got>>

\* The first thread of the server: a message that can be received is sent back.
\* Without one, and after one that ikcp_send does not take, there is neither
\* flush nor update.
ServerEcho ==
  LET rest == ikcp_recv(kcp.server)
      m == sent.server + 1
      len == ikcp_peeksize(kcp.server)
  IN /\ Exists("server") /\ CanRecv(kcp.server, BufSize)
     /\ got' = [got EXCEPT !.server = Append(@, Merged(kcp.server))]
     /\ IF Taken(rest, m, len)
        THEN /\ sent' = [sent EXCEPT !.server = m]
             /\ \E r \in Passes(ikcp_send(rest, m, len)) :
                  kcp' = [kcp EXCEPT !.server = r.k] /\ Output(net, "client", r.out)
        ELSE kcp' = [kcp EXCEPT !.server = rest] /\ UNCHANGED <<net, sent>>

\* The network loses a datagram.
Lose(e, d) ==
  /\ net' = [net EXCEPT ![e] = @ \ {d}]
  /\ UNCHANGED <<kcp, sent, got>>

Next ==
  \/ ClientSend
  \/ \E d \in net.client : ClientInput(d)
  \/ \E d \in net.server : ServerInput(d)
  \/ ServerEcho
  \/ \E e \in Ends : \E d \in net[e] : Lose(e, d)

Spec == Init /\ [][Next]_vars

----------------------------------------------------------------------------
Numbers(s) == {s[i].sn : i \in DOMAIN s}

\* What an application receives are the messages the other one sent, whole, in
\* order, each once (ikcp_recv, ikcp_parse_data), over any network.
Expected(e, m) ==
  LET n == Len(Fragments(kcp[e], m, Sizes[m])) IN [i \in 1..n |-> <<m, n - i>>]
DeliveredInOrder ==
  \A e \in Ends : \A m \in DOMAIN got[e] : m <= sent[Peer(e)] /\ got[e][m] = Expected("client", m)

\* A segment leaves the send buffer only when the peer has it: what is below
\* the rcv_nxt of the peer or in its rcv_buf (ikcp_parse_ack, ikcp_parse_una).
AckedIsHeld ==
  \A e \in Ends : Exists(e) =>
    LET held == IF Exists(Peer(e))
                THEN 0..(kcp[Peer(e)].rcv_nxt - 1) \cup Numbers(kcp[Peer(e)].rcv_buf) ELSE {}
    IN 0..(kcp[e].snd_nxt - 1) \subseteq Numbers(kcp[e].snd_buf) \cup held

\* No more than snd_wnd segments are under way, and the send buffer starts at snd_una.
SendWindow ==
  \A e \in Ends : Exists(e) =>
    LET k == kcp[e]
    IN /\ k.snd_nxt - k.snd_una <= k.snd_wnd
       /\ Numbers(k.snd_buf) \subseteq k.snd_una..(k.snd_nxt - 1)
       /\ k.snd_una = (IF k.snd_buf = <<>> THEN k.snd_nxt ELSE Head(k.snd_buf).sn)

\* The receive side stays inside its window; what waits in rcv_buf waits for an
\* earlier segment or for room in rcv_queue.
ReceiveWindow ==
  \A e \in Ends : Exists(e) =>
    LET k == kcp[e]
    IN /\ Len(k.rcv_queue) <= k.rcv_wnd
       /\ Numbers(k.rcv_buf) \subseteq k.rcv_nxt..(k.rcv_nxt + k.rcv_wnd - 1)
       /\ k.rcv_nxt \in Numbers(k.rcv_buf) => Len(k.rcv_queue) = k.rcv_wnd

\* Both sides of both ends stay inside their windows.
WindowsKept == SendWindow /\ ReceiveWindow
=============================================================================
