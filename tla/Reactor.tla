------------------------------ MODULE Reactor ------------------------------
(***************************************************************************)
(* code/io/reactor.c: an echo server. One thread alternates between a scan *)
(* for connections that were silent too long, epoll_wait, and one callback *)
(* per event reported. A slot of reactor->events belongs to the descriptor *)
(* of the same number. The kernel gives the lowest free descriptor to a new*)
(* connection, also while events of the same batch are still to come.      *)
(***************************************************************************)
EXTENDS Integers, FiniteSetsExt

CONSTANTS Conns,            \* the peers; each connects at most once
          NumFds,           \* limit on open descriptors (ulimit -n)
          MAX_EPOLL_EVENTS, \* slots; a turn scans ScanCount of them
          ScanCount,
          BUFFER_LENGTH, Timeout,
          Room,             \* bytes the socket buffer towards a peer holds
          MaxBytes,         \* bound on what a peer sends
          MaxAddFails       \* bound on epoll_ctl calls that fail (ENOMEM, ENOSPC)

\* The descriptors and slots that are in use when the loop begins. Nothing makes
\* the limit on descriptors agree with the number of slots.
ASSUME FdsAssumption == {NumFds, MAX_EPOLL_EVENTS} \subseteq Nat /\ NumFds > 1 /\ MAX_EPOLL_EVENTS > 1
ASSUME SizesAssumption == {ScanCount, BUFFER_LENGTH, Timeout, Room} \subseteq Nat \ {0}
ASSUME BoundsAssumption == MaxBytes \in Nat /\ MaxAddFails \in Nat
ASSUME ConnsAssumption == IsFiniteSet(Conns) /\ Conns \cap {"free", "own", "listener"} = {}

Fds == 0..(NumFds - 1)
Slots == 0..(MAX_EPOLL_EVENTS - 1)

VARIABLES
  \* the kernel
  file,     \* what each descriptor stands for: "free", "own", "listener" or a peer
  interest, \* the epoll set: "none", "IN" or "OUT" for each descriptor
  conn,     \* "new", "backlog", "open" or "closed", for each peer
  inq, unread, \* bytes the server has yet to receive, and the peer has yet to read
  ending,   \* "no", "fin" or "reset": what the peer has done to the connection
  \* the process
  slot,     \* status, events, callback and length of each ntyevent
  idle,     \* seconds since last_active of each ntyevent
  pc,       \* "overrun" when memory behind the slots has been written: the model ends
  checkpos,
  ready,    \* events of the batch still to be looked at
  \* for the properties and bounds
  sent, got, echoed, \* bytes sent by each peer, received from it, sent back to it
  short,    \* peers to which a send was short
  addFails

kernelVars == <<file, interest, conn, inq, unread, ending>>
slotVars == <<slot, idle>>
countVars == <<sent, got, echoed, short>>
vars == <<kernelVars, slotVars, pc, checkpos, ready, countVars, addFails>>

Empty == [status |-> 0, events |-> "none", callback |-> "none", length |-> 0]

\* Standard streams and epoll set are open as descriptor 0, the listener, with
\* its slot, as 1. The slots are fresh pages of memory, hence zero.
Init ==
  /\ file = [fd \in Fds |-> CASE fd = 0 -> "own" [] fd = 1 -> "listener" [] OTHER -> "free"]
  /\ interest = [fd \in Fds |-> IF fd = 1 THEN "IN" ELSE "none"]
  /\ conn = [c \in Conns |-> "new"] /\ ending = [c \in Conns |-> "no"]
  /\ inq = [c \in Conns |-> 0] /\ unread = [c \in Conns |-> 0]
  /\ slot = [s \in Slots |-> IF s = 1 THEN [status |-> 1, events |-> "IN", callback |-> "accept", length |-> 0]
                             ELSE Empty]
  /\ idle = [s \in Slots |-> 0]
  /\ pc = "scan" /\ checkpos = 0 /\ ready = {}
  /\ sent = [c \in Conns |-> 0] /\ got = [c \in Conns |-> 0] /\ echoed = [c \in Conns |-> 0]
  /\ short = {} /\ addFails = 0

----------------------------------------------------------------------------
(* The peers and the clock. *)

Connect(c) ==
  /\ conn[c] = "new" /\ \E fd \in Fds : file[fd] = "listener"
  /\ conn' = [conn EXCEPT ![c] = "backlog"]
  /\ UNCHANGED <<file, interest, inq, unread, ending, slotVars, pc, checkpos, ready, countVars, addFails>>

Connected(c) == conn[c] \in {"backlog", "open"}

PeerSend(c) ==
  /\ Connected(c) /\ ending[c] = "no" /\ sent[c] < MaxBytes
  /\ sent' = [sent EXCEPT ![c] = @ + 1] /\ inq' = [inq EXCEPT ![c] = @ + 1]
  /\ UNCHANGED <<file, interest, conn, unread, ending, slotVars, pc, checkpos, ready, got, echoed, short, addFails>>

PeerRead(c) ==
  /\ unread[c] > 0 /\ unread' = [unread EXCEPT ![c] = 0]
  /\ UNCHANGED <<file, interest, conn, inq, ending, slotVars, pc, checkpos, ready, countVars, addFails>>

\* The peer sends no more, or is gone.
PeerEnd(c) ==
  /\ Connected(c) /\ ending[c] # "reset"
  /\ ending' = [ending EXCEPT ![c] = IF @ = "no" THEN "fin" ELSE "reset"]
  /\ UNCHANGED <<file, interest, conn, inq, unread, slotVars, pc, checkpos, ready, countVars, addFails>>

\* A second passes.
Tick ==
  /\ pc # "overrun"
  /\ \E s \in Slots : slot[s].status = 1 /\ idle[s] < Timeout
  /\ idle' = [s \in Slots |-> IF slot[s].status = 1 THEN Min({idle[s] + 1, Timeout}) ELSE idle[s]]
  /\ UNCHANGED <<kernelVars, slot, pc, checkpos, ready, countVars, addFails>>

----------------------------------------------------------------------------
(* ntyreactor_run. *)

\* close: the kernel also takes the descriptors out of the epoll set. Peers
\* still in the backlog of a closed listener are refused.
Close(fds) ==
  /\ file' = [fd \in Fds |-> IF fd \in fds THEN "free" ELSE file[fd]]
  /\ interest' = [fd \in Fds |-> IF fd \in fds THEN "none" ELSE interest[fd]]
  /\ conn' = [c \in Conns |->
       IF (\E fd \in fds : file[fd] = c) \/ (conn[c] = "backlog" /\ \E fd \in fds : file[fd] = "listener")
       THEN "closed" ELSE conn[c]]
  /\ UNCHANGED <<inq, unread, ending>>

\* The slots the turn looks at. checkpos may be MAX_EPOLL_EVENTS when it begins.
Scanned == {(checkpos + k) % MAX_EPOLL_EVENTS : k \in 0..(ScanCount - 1)}
Silent == {s \in Scanned : slot[s].status = 1 /\ idle[s] >= Timeout}

\* Mutant of Scan: checkpos is set back with every turn.
ScanFromZero ==
  /\ pc = "scan" /\ pc' = "wait"
  /\ checkpos' = 0
  /\ Close(Silent)
  /\ slot' = [s \in Slots |-> IF s \in Silent THEN [slot[s] EXCEPT !.status = 0] ELSE slot[s]]
  /\ UNCHANGED <<idle, ready, countVars, addFails>>

\* Mutant of Scan: silent connections are closed between two events.
ScanInBatch ==
  /\ pc \in {"scan", "batch"} /\ pc' = IF pc = "scan" THEN "wait" ELSE pc
  /\ checkpos' = ((checkpos + ScanCount - 1) % MAX_EPOLL_EVENTS) + 1
  /\ Close(Silent)
  /\ slot' = [s \in Slots |-> IF s \in Silent THEN [slot[s] EXCEPT !.status = 0] ELSE slot[s]]
  /\ UNCHANGED <<idle, ready, countVars, addFails>>

\* Connections, and listeners, that were silent for Timeout are closed.
Scan ==
  /\ pc = "scan" /\ pc' = "wait"
  /\ checkpos' = ((checkpos + ScanCount - 1) % MAX_EPOLL_EVENTS) + 1
  /\ Close(Silent)
  /\ slot' = [s \in Slots |-> IF s \in Silent THEN [slot[s] EXCEPT !.status = 0] ELSE slot[s]]
  /\ UNCHANGED <<idle, ready, countVars, addFails>>

\* What the kernel can report of descriptor fd.
HasEvent(fd) ==
  \/ file[fd] = "listener" /\ interest[fd] = "IN" /\ \E c \in Conns : conn[c] = "backlog"
  \/ /\ file[fd] \in Conns
     /\ \/ interest[fd] = "IN" /\ (inq[file[fd]] > 0 \/ ending[file[fd]] # "no")
        \/ interest[fd] = "OUT" /\ (unread[file[fd]] < Room \/ ending[file[fd]] = "reset")

\* epoll_wait, which may time out or be interrupted when there is no event.
\* An event remembers, for the properties, what its descriptor stood for.
EpollWait ==
  LET events == {[fd |-> fd, events |-> interest[fd], of |-> file[fd]] : fd \in {g \in Fds : HasEvent(g)}} IN
  /\ pc = "wait" /\ ready' = events
  /\ pc' = IF events = {} THEN "scan" ELSE "batch"
  /\ UNCHANGED <<kernelVars, slotVars, checkpos, countVars, addFails>>

\* Event e of the batch is the next one, and ev->callback is cb.
Handle(e, cb) ==
  /\ pc = "batch" /\ e \in ready
  /\ slot[e.fd].events = e.events /\ slot[e.fd].callback = cb
  /\ ready' = ready \ {e}
  /\ UNCHANGED <<pc, checkpos>>

\* No event is left whose kind the slot still wants.
EndBatch ==
  /\ pc = "batch" /\ \A e \in ready : slot[e.fd].events # e.events
  /\ pc' = "scan" /\ ready' = {}
  /\ UNCHANGED <<kernelVars, slotVars, checkpos, countVars, addFails>>

----------------------------------------------------------------------------
(* The callbacks. *)

\* nty_event_set and nty_event_add, which enters the descriptor into the epoll
\* set or, with status 1, modifies its entry; the call may fail.
SetEvent(fd, cb, events, length) ==
  /\ slot' = [slot EXCEPT ![fd] = [status |-> 1, events |-> events, callback |-> cb, length |-> length]]
  /\ idle' = [idle EXCEPT ![fd] = 0]

\* The epoll set after epoll_ctl, given its entry before and the slot's status.
EpollCtl(fd, events, before, status) ==
  LET valid == (status = 1) <=> (before # "none") IN
  \/ valid /\ interest' = [interest EXCEPT ![fd] = events] /\ UNCHANGED addFails
  \/ /\ valid => addFails < MaxAddFails
     /\ interest' = [interest EXCEPT ![fd] = before]
     /\ addFails' = IF valid THEN addFails + 1 ELSE addFails

\* accept: the kernel gives connection c the lowest free descriptor fd.
TakeFrom(c, fd) ==
  /\ conn[c] = "backlog" /\ file[fd] = "free" /\ \A g \in Fds : file[g] = "free" => fd <= g
  /\ file' = [file EXCEPT ![fd] = c] /\ conn' = [conn EXCEPT ![c] = "open"]

\* Mutant of Accept: nty_event_set is not called, so the slot keeps what the
\* previous connection left in it.
AcceptKeepsCallback(e) ==
  /\ Handle(e, "accept")
  /\ \E c \in Conns : \E fd \in Fds :
       /\ TakeFrom(c, fd) /\ fd \in Slots
       /\ slot' = [slot EXCEPT ![fd] = [@ EXCEPT !.status = 1, !.events = "IN"]] /\ UNCHANGED idle
       /\ EpollCtl(fd, "IN", interest[fd], slot[fd].status)
  /\ UNCHANGED <<inq, unread, ending, countVars>>

\* accept_cb takes a connection of the backlog. The search for a slot with status 0
\* always finds one: descriptor 0 is not in the epoll set.
Accept(e) ==
  /\ Handle(e, "accept")
  /\ \E c \in Conns : \E fd \in Fds :
       /\ TakeFrom(c, fd) /\ fd \in Slots
       /\ SetEvent(fd, "recv", "IN", slot[fd].length)
       /\ EpollCtl(fd, "IN", interest[fd], slot[fd].status)
  /\ UNCHANGED <<inq, unread, ending, countVars>>

\* accept_cb with a descriptor that has no slot: events[clientfd] lies behind the
\* array, and nothing is known of the program once it is written.
AcceptOverruns(e) ==
  /\ pc = "batch" /\ e \in ready
  /\ slot[e.fd].events = e.events /\ slot[e.fd].callback = "accept"
  /\ \E c \in Conns : \E fd \in Fds \ Slots : TakeFrom(c, fd)
  /\ pc' = "overrun" /\ ready' = {}
  /\ UNCHANGED <<interest, inq, unread, ending, slotVars, checkpos, countVars, addFails>>

\* accept fails, for want of a descriptor or of memory: the connection stays in
\* the backlog.
AcceptFails(e) ==
  /\ Handle(e, "accept")
  /\ UNCHANGED <<kernelVars, slotVars, countVars, addFails>>

CanReceive(c) == c \in Conns /\ ending[c] # "reset" /\ inq[c] > 0

\* Mutant of Receive: recv_cb goes on receiving instead of sending.
ReceiveAgain(e) ==
  LET c == file[e.fd] IN LET len == Min({inq[c], BUFFER_LENGTH}) IN
  /\ Handle(e, "recv") /\ CanReceive(c)
  /\ inq' = [inq EXCEPT ![c] = @ - len] /\ got' = [got EXCEPT ![c] = @ + len]
  /\ SetEvent(e.fd, "recv", "IN", len)
  /\ EpollCtl(e.fd, "IN", "none", 0)
  /\ UNCHANGED <<file, conn, unread, ending, sent, echoed, short>>

\* recv_cb with data: the slot waits until it can send them back.
Receive(e) ==
  LET c == file[e.fd] IN LET len == Min({inq[c], BUFFER_LENGTH}) IN
  /\ Handle(e, "recv") /\ CanReceive(c)
  /\ inq' = [inq EXCEPT ![c] = @ - len] /\ got' = [got EXCEPT ![c] = @ + len]
  /\ SetEvent(e.fd, "send", "OUT", len)
  /\ EpollCtl(e.fd, "OUT", "none", 0)
  /\ UNCHANGED <<file, conn, unread, ending, sent, echoed, short>>

\* recv_cb at the end of the connection, or with an error.
ReceiveFails(e) ==
  /\ Handle(e, "recv") /\ ~CanReceive(file[e.fd])
  /\ Close({e.fd})
  /\ slot' = [slot EXCEPT ![e.fd].status = 0]
  /\ UNCHANGED <<idle, countVars, addFails>>

CanSend(c) == c \in Conns /\ ending[c] # "reset" /\ unread[c] < Room

\* send_cb: what does not fit into the socket buffer is forgotten.
Send(e) ==
  LET c == file[e.fd] IN LET len == Min({slot[e.fd].length, Room - unread[c]}) IN
  /\ Handle(e, "send") /\ CanSend(c)
  /\ unread' = [unread EXCEPT ![c] = @ + len] /\ echoed' = [echoed EXCEPT ![c] = @ + len]
  /\ short' = IF len < slot[e.fd].length THEN short \cup {c} ELSE short
  /\ SetEvent(e.fd, "recv", "IN", slot[e.fd].length)
  /\ EpollCtl(e.fd, "IN", "none", 0)
  /\ UNCHANGED <<file, conn, inq, ending, sent, got>>

\* send_cb with an error.
SendFails(e) ==
  /\ Handle(e, "send") /\ ~CanSend(file[e.fd])
  /\ Close({e.fd})
  /\ slot' = [slot EXCEPT ![e.fd].status = 0]
  /\ UNCHANGED <<idle, countVars, addFails>>

----------------------------------------------------------------------------
Callback(e) ==
  \/ Accept(e) \/ AcceptOverruns(e) \/ AcceptFails(e) \/ Receive(e) \/ ReceiveFails(e) \/ Send(e) \/ SendFails(e)

Run == Scan \/ EpollWait \/ EndBatch \/ \E e \in ready : Callback(e)

Peer(c) == pc # "overrun" /\ (Connect(c) \/ PeerSend(c) \/ PeerRead(c) \/ PeerEnd(c))

Overrun == pc = "overrun" /\ UNCHANGED vars

Next == Run \/ Tick \/ Overrun \/ \E c \in Conns : Peer(c)

Spec == Init /\ [][Next]_vars

\* The thread runs and time passes. Nothing is assumed of the peers.
FairSpec == Spec /\ WF_vars(Run) /\ WF_vars(Tick)

----------------------------------------------------------------------------
(* Properties. *)

\* Every variable has its type.
TypeOK ==
  /\ file \in [Fds -> {"free", "own", "listener"} \cup Conns]
  /\ interest \in [Fds -> {"none", "IN", "OUT"}]
  /\ conn \in [Conns -> {"new", "backlog", "open", "closed"}] /\ ending \in [Conns -> {"no", "fin", "reset"}]
  /\ inq \in [Conns -> 0..MaxBytes] /\ unread \in [Conns -> 0..Room]
  /\ slot \in [Slots -> [status : 0..1, events : {"none", "IN", "OUT"},
                         callback : {"none", "accept", "recv", "send"}, length : 0..BUFFER_LENGTH]]
  /\ idle \in [Slots -> 0..Timeout]
  /\ pc \in {"scan", "wait", "batch", "overrun"} /\ checkpos \in 0..MAX_EPOLL_EVENTS
  /\ ready \subseteq [fd : Fds, events : {"IN", "OUT"}, of : {"listener"} \cup Conns]
  /\ sent \in [Conns -> 0..MaxBytes] /\ got \in [Conns -> 0..MaxBytes] /\ echoed \in [Conns -> 0..MaxBytes]
  /\ short \subseteq Conns /\ addFails \in 0..MaxAddFails

\* A slot with status 1 is that of an open listener or connection, so that the
\* scan never closes a descriptor that has been given to somebody else, and
\* every open one has a slot with status 1, so that none escapes the scan.
StatusIsOpen ==
  \A s \in Slots : slot[s].status = 1 <=> (s \in Fds /\ file[s] \in {"listener"} \cup Conns)

\* What epoll waits for is what the slot's callback is there to do.
InterestMatchesCallback ==
  \A fd \in Fds : interest[fd] # "none" =>
    /\ slot[fd].status = 1 /\ slot[fd].events = interest[fd]
    /\ slot[fd].callback = IF interest[fd] = "OUT" THEN "send"
                           ELSE IF file[fd] = "listener" THEN "accept" ELSE "recv"

\* Slots, descriptors and the epoll set agree at every step of a batch, until a
\* connection is accepted that has no slot.
ReactorInv == TypeOK /\ (pc # "overrun" => StatusIsOpen /\ InterestMatchesCallback)

\* A callback is run for the connection the event was about, although the
\* callbacks of the same batch close descriptors and open new ones.
EventsAreFresh == \A e \in ready : file[e.fd] = e.of

\* A slot that receives has sent back all it received, unless a send was short:
\* the buffer is not overwritten before it was sent.
EchoedBeforeReceiving ==
  pc # "overrun" =>
    \A fd \in Fds : file[fd] \in Conns \ short /\ slot[fd].callback = "recv"
                      => echoed[file[fd]] = got[file[fd]]

\* Every connection comes to its end, whatever its peer does or fails to do,
\* and also when epoll_ctl failed: no descriptor is lost for good.
ConnectionsEnd == \A c \in Conns : conn[c] = "open" ~> (conn[c] = "closed" \/ pc = "overrun")
=============================================================================
