------------------------------ MODULE KcpLive -------------------------------
(***************************************************************************)
(* What the programs of KcpEcho achieve when their threads keep running.   *)
(* step tells what the last step did, so that fairness can be said of the  *)
(* steps taken without asking which are enabled; it tells steps that       *)
(* change nothing else apart from no step at all.                          *)
(***************************************************************************)
EXTENDS KcpEcho

\* What the client sends in the run: one message more than the receive window of 2.
SmallSizes == <<10, 10, 10>>

VARIABLES did,      \* what the last step did: pairs <<what, to which segment>>
          parity    \* of the number of steps
liveVars == <<kcp, net, sent, got, did, parity>>

Segments == 0..(Len(Sizes) - 1)      \* every message is one segment here
Carried(d) == {<<d[i].cmd, IF d[i].cmd = "push" THEN d[i].sn ELSE 0>> : i \in DOMAIN d}

LiveInit == Init /\ did = {} /\ parity = 0
LiveNext ==
  /\ parity' = 1 - parity
  /\ \/ \E r \in FlushAndUpdate(ClientBlock) :
          /\ ClientPass(r)
          /\ did' = {<<"pass", 0>>} \cup {<<"late", n>> : n \in r.late}
                    \cup (IF r.probe THEN {<<"probe", 0>>} ELSE {})
     \/ \E d \in net.client : ClientInput(d) /\ did' = {<<"reply", 0>>}
     \/ \E d \in net.server : ServerInput(d) /\ did' = Carried(d)
     \/ ServerEcho /\ did' = {<<"echo", 0>>}
     \/ \E e \in Ends : \E d \in net[e] : Lose(e, d) /\ did' = {}

Does(what, n) == <<what, n>> \in did'

\* When a step should not be put off for ever.
Waits(n) == \E i \in DOMAIN kcp.client.snd_buf :
              kcp.client.snd_buf[i].sn = n /\ kcp.client.snd_buf[i].xmit > 0
Probes == kcp.client.probing /\ kcp.client.rmt_wnd = 0
Echoes == Exists("server") /\ CanRecv(kcp.server, BufSize)
OnItsWay(cmd, n) == \E d \in net.server : <<cmd, n>> \in Carried(d)
Replied == net.client # {}

\* The threads never stop (weak); a timeout that nothing stops passes (weak), and
\* what it resends is not always lost; a segment on its way over and over
\* arrives at last (strong). Nothing resends for the
\* server but its own passes, which wait for datagrams and messages.
Fairness ==
  /\ []<><<Does("pass", 0)>>_liveVars
  /\ []<><<Probes => Does("probe", 0)>>_liveVars
  /\ []<><<Echoes => Does("echo", 0)>>_liveVars
  /\ \A n \in Segments : []<><<Waits(n) => Does("late", n) /\ OnItsWay("push", n)'>>_liveVars
  /\ \A n \in Segments : []<>OnItsWay("push", n) => []<><<Does("push", n)>>_liveVars
  /\ []<>OnItsWay("wask", 0) => []<><<Does("wask", 0)>>_liveVars
  /\ []<>Replied => []<><<Does("reply", 0)>>_liveVars
LiveSpec == LiveInit /\ [][LiveNext]_liveVars /\ Fairness

\* Every message of the client reaches the application of the server, though
\* the receive window closes meanwhile and the answer that opens it may be lost.
MessagesArrive ==
  \A m \in DOMAIN Sizes : sent.client >= m ~> Len(got.server) >= m
=============================================================================
