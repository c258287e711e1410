----------------------------- MODULE EventLoops -----------------------------
(***************************************************************************)
(* The servers of code/io/select.c, poll.c and epoll.c: one thread waits   *)
(* for a listener and its clients, accepts one client when the listener is *)
(* ready and reads at most one buffer from each client that is. select and *)
(* poll report what is readable now; epoll, in edge mode for the clients,  *)
(* reports what became readable since it last did. Data is counted in      *)
(* buffers of BUFFER_LENGTH.                                               *)
(***************************************************************************)
EXTENDS Integers, FiniteSets

CONSTANTS FD_SETSIZE,      \* also POLL_SIZE
          FdLimit,         \* descriptors a process may have
          MaxUnread        \* bound: buffers unread on a connection

listenfd == 3
ClientFds == (listenfd + 1)..(FdLimit - 1)

ASSUME EventLoopAssumption == FdLimit \in Nat /\ FD_SETSIZE \in Nat \ 0..listenfd

VARIABLES loopKind,        \* "select", "poll" or "epoll"
          sockets,         \* per client descriptor, [open, unread, eof]
          backlog,         \* connections that wait for accept
          watched,         \* rfds, fds or the interest list
          max_fd,          \* of select and poll
          edges,           \* descriptors with an event epoll has not reported
          ready,           \* the events of the last wait not looked at yet
          loopStage,       \* "wait", "scan" or "ended"
          passedOver,      \* edges that were reported but not followed to the end
          refused          \* descriptors whose latest epoll_ctl failed

loopVars == <<loopKind, sockets, backlog, watched, max_fd, edges, ready, loopStage, passedOver, refused>>

ClosedSocket == [open |-> FALSE, unread |-> 0, eof |-> FALSE]
LoopInit(kinds) ==
  /\ loopKind \in kinds
  /\ sockets = [fd \in ClientFds |-> ClosedSocket] /\ backlog = 0
  /\ watched = {listenfd} /\ max_fd = IF loopKind = "select" THEN listenfd ELSE 0
  /\ edges = {} /\ ready = {} /\ loopStage = "wait" /\ passedOver = {} /\ refused = {}

Readable(fd) == IF fd = listenfd THEN backlog > 0 ELSE sockets[fd].unread > 0 \/ sockets[fd].eof

\* MUTANT EdgeMode: the listener, too, is in edge mode.
EdgeModeAll(fd) == loopKind = "epoll"
\* Whether a descriptor is added with EPOLLET.
EdgeMode(fd) == loopKind = "epoll" /\ fd # listenfd

\* What select, poll and epoll_wait return. poll never gets an entry behind
\* max_fd; the listener is its first.
Reported ==
  {fd \in watched : Readable(fd) /\ (EdgeMode(fd) => fd \in edges)
                    /\ (loopKind # "epoll" => fd <= max_fd \/ fd = listenfd)}
LoopWait ==
  /\ loopStage = "wait" /\ Reported # {}
  /\ ready' = Reported /\ edges' = edges \ Reported /\ loopStage' = "scan"
  /\ UNCHANGED <<loopKind, sockets, backlog, watched, max_fd, passedOver, refused>>

\* A wait that fails: select.c and poll.c try again, epoll.c leaves its loop.
WaitFails ==
  /\ loopStage = "wait" /\ loopKind = "epoll" /\ loopStage' = "ended"
  /\ UNCHANGED <<loopKind, sockets, backlog, watched, max_fd, edges, ready, passedOver, refused>>

\* The rest of the events is left: fine when they are reported again.
NextEvents(rest) ==
  /\ ready' = rest /\ loopStage' = IF rest = {} THEN "wait" ELSE "scan"

\* accept: the lowest free descriptor; without one the pass of select and poll
\* ends. select ends when max_fd is FD_SETSIZE, and sets FD_SETSIZE itself. Nobody
\* looks whether epoll_ctl has added the descriptor.
LoopAccept ==
  LET free == {fd \in ClientFds : ~ sockets[fd].open}
      clientfd == CHOOSE fd \in free : \A other \in free : fd <= other
  IN /\ loopStage = "scan" /\ listenfd \in ready
     /\ IF free = {}
        THEN /\ NextEvents(IF loopKind = "epoll" THEN ready \ {listenfd} ELSE {})
             /\ UNCHANGED <<sockets, backlog, watched, max_fd, edges, passedOver, refused>>
        ELSE /\ backlog' = backlog - 1
             /\ \E unread \in 0..1 : sockets' = [sockets EXCEPT ![clientfd] = [open |-> TRUE, unread |-> unread, eof |-> FALSE]]
             /\ IF loopKind = "select" /\ max_fd = FD_SETSIZE
                THEN /\ loopStage' = "ended" /\ ready' = {}
                     /\ UNCHANGED <<watched, max_fd, edges, passedOver, refused>>
                ELSE /\ \E added \in BOOLEAN :
                          /\ ~ added => loopKind = "epoll"
                          /\ watched' = IF added THEN watched \cup {clientfd} ELSE watched
                          /\ refused' = IF added THEN refused \ {clientfd} ELSE refused \cup {clientfd}
                     /\ max_fd' = IF clientfd > max_fd THEN clientfd ELSE max_fd
                     /\ edges' = IF sockets'[clientfd].unread > 0 THEN edges \cup {clientfd} ELSE edges \ {clientfd}
                     /\ passedOver' = passedOver \ {clientfd}
                     /\ NextEvents(ready \ {listenfd})
     /\ UNCHANGED loopKind

\* recv of one buffer, in the order of the descriptors but with epoll. At the
\* end of the stream, and when the connection was reset, the client is closed;
\* at the end of the stream the scan stops.
LoopRead(fd) ==
  /\ loopStage = "scan" /\ fd \in ready \ {listenfd}
  /\ loopKind # "epoll" => listenfd \notin ready /\ \A other \in ready : fd <= other
  /\ \/ /\ sockets[fd].unread > 0
        /\ sockets' = [sockets EXCEPT ![fd].unread = @ - 1]
        /\ passedOver' = IF sockets[fd].unread > 1 \/ sockets[fd].eof THEN passedOver \cup {fd} ELSE passedOver
        /\ NextEvents(ready \ {fd}) /\ UNCHANGED watched
     \/ /\ sockets[fd].eof
        /\ sockets' = [sockets EXCEPT ![fd] = ClosedSocket] /\ watched' = watched \ {fd}
        /\ \/ sockets[fd].unread = 0 /\ NextEvents({}) /\ passedOver' = passedOver \cup (ready \ {fd})
           \/ NextEvents(ready \ {fd}) /\ UNCHANGED passedOver
  /\ edges' = IF sockets'[fd].open THEN edges ELSE edges \ {fd}
  /\ UNCHANGED <<loopKind, backlog, max_fd, refused>>

\* The clients connect, send and close or reset their connections.
Connects ==
  /\ backlog < 2 /\ backlog' = backlog + 1 /\ edges' = edges \cup {listenfd}
  /\ UNCHANGED <<loopKind, sockets, watched, max_fd, ready, loopStage, passedOver, refused>>
Sends(fd) ==
  /\ sockets[fd].open /\ ~ sockets[fd].eof
  /\ \/ sockets[fd].unread < MaxUnread /\ sockets' = [sockets EXCEPT ![fd].unread = @ + 1]
     \/ sockets' = [sockets EXCEPT ![fd].eof = TRUE]
  /\ edges' = edges \cup {fd} /\ passedOver' = passedOver \ {fd}
  /\ UNCHANGED <<loopKind, backlog, watched, max_fd, ready, loopStage, refused>>

LoopNext == LoopWait \/ WaitFails \/ LoopAccept \/ Connects \/ \E fd \in ClientFds : LoopRead(fd) \/ Sends(fd)

----------------------------------------------------------------------------
\* While the server runs it watches its open connections and no others, but for
\* those epoll_ctl refused, which nobody notices (epoll.c:81), and whatever it
\* watches that is readable is or will be reported, but for the edges of epoll
\* that were passed over: one buffer was read of more (epoll.c:88), or the scan
\* was left at the end of another stream (epoll.c:112). select sets one bit more
\* than it has (select.c:76); poll never asks (poll.c:77).
ReadableIsSeen ==
  loopStage # "ended" =>
    /\ watched = {listenfd} \cup ({fd \in ClientFds : sockets[fd].open} \ refused)
    /\ \A fd \in watched : Readable(fd) => fd \in Reported \cup ready \/ (loopKind = "epoll" /\ fd \in passedOver)
    /\ loopKind = "select" => max_fd <= FD_SETSIZE
=============================================================================
