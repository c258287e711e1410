------------------------------- MODULE ZkLock -------------------------------
(***************************************************************************)
(* code/zookeeper/main.c: processes that take a lock in turn through        *)
(* ephemeral sequential znodes under /lock/res1. Each creates one znode; the*)
(* owner of the smallest one executes and deletes it, the others watch the  *)
(* znode just below their own. A process is its main thread and the         *)
(* completion thread of the ZooKeeper library, which runs all callbacks one *)
(* at a time in the order the library received what they report.           *)
(*                                                                         *)
(* The server and the library (external) are modelled by what main.c uses  *)
(* of them: requests of one session are served and answered in order, a    *)
(* watch fires once, an ended session loses its znode, and the watcher is  *)
(* also called, with an empty path, whenever the session changes state.    *)
(***************************************************************************)
EXTENDS Integers, Sequences, FiniteSets, Functions

CONSTANTS Clients,   \* the processes
          FirstSeq,  \* number of the first znode created: 0 for a fresh parent
          None,      \* no znode, an empty zmt.watch, a null value_self
          Faults,    \* kinds of faults that happen, of "crash" (of a process), "loss"
                     \* (of a connection), "expire" (of the session of a living process)
          MaxFaults  \* bound on the number of faults

ASSUME ClientsAssumption == IsFiniteSet(Clients) /\ Clients # {}
ASSUME NumbersAssumption == FirstSeq \in Nat /\ None \notin Int
ASSUME FaultsAssumption == Faults \subseteq {"crash", "loss", "expire"} /\ MaxFaults \in Nat

VARIABLES
  \* the server
  znode,   \* the znode of each client's session, or None
  nextSeq, \* number of the next sequential znode
  watches, \* <<c, n>>: the session of c is to be told when znode n is deleted
  \* the library
  session, \* "connecting", "connected" or "expired", per client
  requests, replies, \* on their way from and to each client, in order
  \* the process
  phase,   \* "init" until main called zoo_acreate, "running", "closed", "dead"
  seq_me, watch, quit, \* zmt.seq_me, zmt.watch, quit
  execs,   \* how often the client took the right to execute
  faults   \* crashes, connection losses and expiries so far

serverVars == <<znode, nextSeq, watches>>
procVars == <<phase, seq_me, watch, quit, execs>>
vars == <<serverVars, session, requests, replies, procVars, faults>>

Children == {znode[c] : c \in Clients} \ {None}
Smallest(n) == n \in Children /\ \A m \in Children : n <= m

Init ==
  /\ znode = [c \in Clients |-> None] /\ nextSeq = FirstSeq /\ watches = {}
  /\ session = [c \in Clients |-> "connecting"]
  /\ requests = [c \in Clients |-> <<>>] /\ replies = [c \in Clients |-> <<>>]
  /\ phase = [c \in Clients |-> "init"]
  /\ seq_me = [c \in Clients |-> 0] /\ watch = [c \in Clients |-> None]
  /\ quit = [c \in Clients |-> FALSE] /\ execs = [c \in Clients |-> 0]
  /\ faults = [crash |-> 0, loss |-> 0, expire |-> 0]

----------------------------------------------------------------------------
(* The server and the library. *)

SessionEvent == [op |-> "session", rc |-> "ok"]

Alive(c) == phase[c] \in {"init", "running"}

\* The event client c receives when znode n is deleted.
Notice(c, n) ==
  IF <<c, n>> \in watches THEN <<[op |-> "watch", rc |-> "ok", node |-> n]>> ELSE <<>>

\* Znode n disappears and its watches fire; c also receives own.
Remove(n, c, own) ==
  /\ znode' = [d \in Clients |-> IF znode[d] = n THEN None ELSE znode[d]]
  /\ replies' = [d \in Clients |->
       IF Alive(d) THEN replies[d] \o Notice(d, n) \o (IF d = c THEN own ELSE <<>>) ELSE <<>>]

\* The server takes the oldest request of a connected client.
Serve(c, op) ==
  /\ session[c] = "connected"
  /\ requests[c] # <<>> /\ Head(requests[c]).op = op
  /\ requests' = [requests EXCEPT ![c] = Tail(@)]
  /\ UNCHANGED <<session, procVars, faults>>

Answer(c, reply) ==
  replies' = IF Alive(c) THEN [replies EXCEPT ![c] = Append(@, reply)] ELSE replies

ServeCreate(c) ==
  /\ Serve(c, "create")
  /\ znode' = [znode EXCEPT ![c] = nextSeq] /\ nextSeq' = nextSeq + 1
  /\ Answer(c, [op |-> "create", rc |-> "ok", seq |-> nextSeq])
  /\ UNCHANGED watches

ServeChildren(c) ==
  /\ Serve(c, "children")
  /\ Answer(c, [op |-> "children", rc |-> "ok", strings |-> Children])
  /\ UNCHANGED serverVars

\* The watch on a missing znode waits for its creation, which never comes:
\* sequence numbers are not used twice.
ServeExists(c) ==
  LET n == Head(requests[c]).node IN
  /\ Serve(c, "exists")
  /\ watches' = IF n \in Children THEN watches \cup {<<c, n>>} ELSE watches
  /\ Answer(c, [op |-> "exists", rc |-> IF n \in Children THEN "ok" ELSE "nonode", node |-> n])
  /\ UNCHANGED <<znode, nextSeq>>

ServeDelete(c) ==
  LET n == Head(requests[c]).node IN
  /\ Serve(c, "delete")
  /\ IF n \in Children
       THEN /\ Remove(n, c, <<[op |-> "delete", rc |-> "ok"]>>)
            /\ watches' = {p \in watches : p[2] # n}
       ELSE /\ Answer(c, [op |-> "delete", rc |-> "nonode"])
            /\ UNCHANGED <<znode, watches>>
  /\ UNCHANGED nextSeq

\* The session is established; the watcher is told, with an empty path.
Connect(c) ==
  /\ session[c] = "connecting" /\ Alive(c)
  /\ session' = [session EXCEPT ![c] = "connected"]
  /\ replies' = [replies EXCEPT ![c] = Append(@, SessionEvent)]
  /\ UNCHANGED <<serverVars, requests, procVars, faults>>

\* The session of c ends: its znode and its watches go, and c receives own.
EndSession(c, own) ==
  /\ session' = [session EXCEPT ![c] = "expired"]
  /\ requests' = [requests EXCEPT ![c] = <<>>]
  /\ Remove(znode[c], c, own)
  /\ watches' = {p \in watches : p[1] # c /\ p[2] # znode[c]}
  /\ UNCHANGED nextSeq

\* One more fault.
Happens(fault) ==
  /\ fault \in Faults /\ faults.crash + faults.loss + faults.expire < MaxFaults
  /\ faults' = [faults EXCEPT ![fault] = @ + 1]

\* What the completion thread is told of requests that got no answer.
Failed(lost) == [k \in DOMAIN lost |-> [op |-> lost[k].op, rc |-> "error"]]

\* The elements of sequence s that are in S, in their order.
Only(s, S) ==
  LET first[n \in 0..Len(s)] ==
        IF n = 0 THEN <<>> ELSE IF s[n] \in S THEN Append(first[n - 1], s[n]) ELSE first[n - 1]
  IN first[Len(s)]

\* The library has received the first k replies; the others are lost, and so
\* are the requests not yet served. Session events come from the library.
Cut(c, k) == SubSeq(replies[c], k + 1, Len(replies[c]))
Events(c, k) == {r \in Range(Cut(c, k)) : r.op \in {"watch", "session"}}
Lost(c, k) == Only(Cut(c, k), Range(Cut(c, k)) \ Events(c, k)) \o requests[c]
CanCut(c, k) == \A r \in Range(Cut(c, k)) : r.op # "session"

\* The connection breaks and is established again: requests under way fail,
\* served or not. Watches whose exists call was answered are set again, and
\* fire if their znode is gone; the others are forgotten.
LoseConnection(c) ==
  /\ session[c] = "connected" /\ Alive(c)
  /\ Happens("loss")
  /\ \E k \in 0..Len(replies[c]) :
       LET forgotten == {r.node : r \in {q \in Range(Lost(c, k)) : q.op = "exists"}}
           fired == Only(Cut(c, k), {r \in Events(c, k) : r.node \notin forgotten})
       IN /\ CanCut(c, k)
          /\ replies' = [replies EXCEPT ![c] = SubSeq(@, 1, k) \o <<SessionEvent>> \o Failed(Lost(c, k))
                                                 \o fired \o <<SessionEvent>>]
          /\ watches' = {p \in watches : p[1] # c \/ p[2] \notin forgotten}
  /\ requests' = [requests EXCEPT ![c] = <<>>]
  /\ UNCHANGED <<znode, nextSeq, session, procVars>>

\* The server ends the session of a client that lives but was cut off.
Expire(c) ==
  /\ session[c] = "connected" /\ Alive(c)
  /\ Happens("expire")
  /\ EndSession(c, Failed(requests[c]) \o <<SessionEvent>>)
  /\ UNCHANGED procVars

\* The process dies. What it has sent is still served until the server ends
\* its session.
Crash(c) ==
  /\ Alive(c)
  /\ Happens("crash")
  /\ phase' = [phase EXCEPT ![c] = "dead"]
  /\ replies' = [replies EXCEPT ![c] = <<>>]
  /\ UNCHANGED <<serverVars, session, requests, seq_me, watch, quit, execs>>

SessionTimeout(c) ==
  /\ session[c] = "connected" /\ phase[c] = "dead"
  /\ EndSession(c, <<>>)
  /\ UNCHANGED <<procVars, faults>>

----------------------------------------------------------------------------
(* The callbacks, run one at a time by the completion thread. *)

Send(c, request) ==
  requests' = IF session[c] = "expired" THEN requests ELSE [requests EXCEPT ![c] = Append(@, request)]

\* zoo_aget_children; on an expired handle it fails and the process exits.
GetChildren(c) ==
  /\ Send(c, [op |-> "children"])
  /\ phase' = IF session[c] = "expired" THEN [phase EXCEPT ![c] = "dead"] ELSE phase

\* Take the right to execute, execute, and ask for znode n to be deleted.
Execute(c, n) ==
  /\ execs' = [execs EXCEPT ![c] = @ + 1]
  /\ Send(c, [op |-> "delete", node |-> n])

Reply(c) == Head(replies[c])

Receive(c, op) ==
  /\ Alive(c) /\ replies[c] # <<>> /\ Reply(c).op = op
  /\ replies' = [replies EXCEPT ![c] = Tail(@)]
  /\ UNCHANGED <<serverVars, session, faults>>

\* Mutant of CreateDone: a znode number up to 1 is taken for the smallest.
CreateDoneOffByOne(c) ==
  /\ Receive(c, "create")
  /\ IF Reply(c).rc # "ok" THEN UNCHANGED <<requests, procVars>>
     ELSE /\ seq_me' = [seq_me EXCEPT ![c] = Reply(c).seq]
          /\ IF Reply(c).seq > 1
               THEN GetChildren(c) /\ UNCHANGED execs
               ELSE Execute(c, Reply(c).seq) /\ UNCHANGED phase
          /\ UNCHANGED <<watch, quit>>

\* zk_create_lock_res1_es.
CreateDone(c) ==
  /\ Receive(c, "create")
  /\ IF Reply(c).rc # "ok" THEN UNCHANGED <<requests, procVars>>
     ELSE /\ seq_me' = [seq_me EXCEPT ![c] = Reply(c).seq]
          /\ IF Reply(c).seq > 0
               THEN GetChildren(c) /\ UNCHANGED execs
               ELSE Execute(c, Reply(c).seq) /\ UNCHANGED phase
          /\ UNCHANGED <<watch, quit>>

\* Mutant of FoundSmaller: the smallest znode is watched.
FoundSmallerFirst(c) ==
  LET smaller == {v \in Reply(c).strings : v < seq_me[c]}
      other == CHOOSE v \in smaller : \A u \in smaller : u >= v
  IN /\ Receive(c, "children") /\ Reply(c).rc = "ok"
     /\ smaller # {}
     /\ watch' = [watch EXCEPT ![c] = other]
     /\ Send(c, [op |-> "exists", node |-> other])
     /\ UNCHANGED <<phase, seq_me, quit, execs>>

\* zk_get_children_lock_res1, when a smaller znode is found: watch the
\* largest of them.
FoundSmaller(c) ==
  LET smaller == {v \in Reply(c).strings : v < seq_me[c]}
      other == CHOOSE v \in smaller : \A u \in smaller : u <= v
  IN /\ Receive(c, "children") /\ Reply(c).rc = "ok"
     /\ smaller # {}
     /\ watch' = [watch EXCEPT ![c] = other]
     /\ Send(c, [op |-> "exists", node |-> other])
     /\ UNCHANGED <<phase, seq_me, quit, execs>>

\* Mutant of NoneSmaller: smaller znodes do not keep the client from executing.
NoneSmallerAny(c) ==
  /\ Receive(c, "children") /\ Reply(c).rc = "ok"
  /\ Execute(c, IF seq_me[c] \in Reply(c).strings THEN seq_me[c] ELSE None)
  /\ UNCHANGED <<phase, seq_me, watch, quit>>

\* zk_get_children_lock_res1, when none is found. value_self is null if no
\* child has the number seq_me.
NoneSmaller(c) ==
  /\ Receive(c, "children") /\ Reply(c).rc = "ok"
  /\ \A v \in Reply(c).strings : v >= seq_me[c]
  /\ Execute(c, IF seq_me[c] \in Reply(c).strings THEN seq_me[c] ELSE None)
  /\ UNCHANGED <<phase, seq_me, watch, quit>>

ChildrenFailed(c) ==
  /\ Receive(c, "children") /\ Reply(c).rc # "ok"
  /\ UNCHANGED <<requests, procVars>>

\* zk_watch_children only prints rc.
ExistsDone(c) ==
  /\ Receive(c, "exists")
  /\ UNCHANGED <<requests, procVars>>

\* zk_delete_lock_res1_children, whatever rc.
DeleteDone(c) ==
  /\ Receive(c, "delete")
  /\ quit' = [quit EXCEPT ![c] = TRUE]
  /\ UNCHANGED <<requests, phase, seq_me, watch, execs>>

\* Mutant of Watcher: a deleted znode is not recognised.
WatcherIgnoresWatch(c) ==
  /\ Receive(c, "watch") \/ Receive(c, "session")
  /\ IF watch[c] = None THEN GetChildren(c) ELSE UNCHANGED <<requests, phase>>
  /\ UNCHANGED <<seq_me, watch, quit, execs>>

\* zk_watcher_disconnect: the path of the event is compared with zmt.watch.
\* A session event has an empty path, and so has zmt.watch at the start.
Watcher(c) ==
  LET path == IF Reply(c).op = "watch" THEN Reply(c).node ELSE None IN
  /\ Receive(c, "watch") \/ Receive(c, "session")
  /\ IF path = watch[c] THEN GetChildren(c) ELSE UNCHANGED <<requests, phase>>
  /\ UNCHANGED <<seq_me, watch, quit, execs>>

----------------------------------------------------------------------------
(* The main thread. *)

\* zoo_acreate; it fails on an expired handle, and main exits.
MainCreate(c) ==
  /\ phase[c] = "init"
  /\ Send(c, [op |-> "create"])
  /\ phase' = [phase EXCEPT ![c] = IF session[c] = "expired" THEN "dead" ELSE "running"]
  /\ UNCHANGED <<serverVars, session, replies, seq_me, watch, quit, execs, faults>>

\* Mutant of MainClose: zookeeper_close is not called.
MainCloseNoSession(c) ==
  /\ phase[c] = "running" /\ quit[c]
  /\ phase' = [phase EXCEPT ![c] = "closed"]
  /\ UNCHANGED <<serverVars, session, requests, replies, seq_me, watch, quit, execs, faults>>

\* The loop sees quit: zookeeper_close ends the session.
MainClose(c) ==
  /\ phase[c] = "running" /\ quit[c]
  /\ phase' = [phase EXCEPT ![c] = "closed"]
  /\ EndSession(c, <<>>)
  /\ UNCHANGED <<seq_me, watch, quit, execs, faults>>

----------------------------------------------------------------------------
Server(c) ==
  \/ ServeCreate(c) \/ ServeChildren(c) \/ ServeExists(c) \/ ServeDelete(c)
  \/ Connect(c) \/ SessionTimeout(c)

Callback(c) ==
  \/ CreateDone(c) \/ FoundSmaller(c) \/ NoneSmaller(c) \/ ChildrenFailed(c)
  \/ ExistsDone(c) \/ DeleteDone(c) \/ Watcher(c)

MainThread(c) == MainCreate(c) \/ MainClose(c)

Fault(c) == LoseConnection(c) \/ Expire(c) \/ Crash(c)

Next == \E c \in Clients : Server(c) \/ Callback(c) \/ MainThread(c) \/ Fault(c)

Spec == Init /\ [][Next]_vars

\* The server serves every session, and both threads of a living process are
\* scheduled. Nothing is assumed of faults.
FairSpec ==
  /\ Spec
  /\ \A c \in Clients : WF_vars(Server(c)) /\ WF_vars(Callback(c)) /\ WF_vars(MainThread(c))

----------------------------------------------------------------------------
(* Properties. *)

\* Every variable has its type.
Messages ==
  [op : {"create"}, rc : {"ok"}, seq : Int] \cup [op : {"children"}, rc : {"ok"}, strings : SUBSET Int]
  \cup [op : {"exists"}, rc : {"ok", "nonode"}, node : Int] \cup [op : {"watch"}, rc : {"ok"}, node : Int]
  \cup [op : {"delete"}, rc : {"ok", "nonode"}] \cup {SessionEvent}
  \cup [op : {"create", "children", "exists", "delete"}, rc : {"error"}]
Requests ==
  [op : {"create", "children"}] \cup [op : {"exists"}, node : Int] \cup [op : {"delete"}, node : Int \cup {None}]
TypeOK ==
  /\ znode \in [Clients -> Int \cup {None}] /\ nextSeq \in Nat
  /\ watches \subseteq Clients \X Int
  /\ session \in [Clients -> {"connecting", "connected", "expired"}]
  /\ replies \in [Clients -> Seq(Messages)] /\ requests \in [Clients -> Seq(Requests)]
  /\ phase \in [Clients -> {"init", "running", "closed", "dead"}]
  /\ seq_me \in [Clients -> Int] /\ watch \in [Clients -> Int \cup {None}]
  /\ quit \in [Clients -> BOOLEAN] /\ execs \in [Clients -> Nat]
  /\ faults \in [crash : 0..MaxFaults, loss : 0..MaxFaults, expire : 0..MaxFaults]

\* A client whose zoo_acreate was answered with a positive number takes the
\* right to execute for the first time only while its own znode exists and is
\* the smallest: crashes, lost connections, stale lists of children and
\* watches that fire late do not let two such clients in at once. (A client
\* whose session expired cannot know that its znode is gone.)
FirstExecutionOwnsLock ==
  [][\A c \in Clients :
       (execs'[c] > execs[c] /\ execs[c] = 0 /\ seq_me'[c] > 0 /\ session[c] = "connected")
          => Smallest(seq_me'[c]) /\ znode[c] = seq_me'[c]]_vars

\* No herd: an existing znode is watched by at most one client that still has
\* a znode, so a release wakes one client.
NoHerd ==
  \A c, d \in Clients : \A n \in Children :
    (<<c, n>> \in watches /\ <<d, n>> \in watches /\ znode[c] # None /\ znode[d] # None) => c = d

\* A client in session that waits for its turn and has nothing under way.
Waiting(c) ==
  /\ phase[c] = "running" /\ session[c] = "connected" /\ seq_me[c] > 0 /\ execs[c] = 0
  /\ requests[c] = <<>> /\ replies[c] = <<>>

\* As long as no connection is lost, a waiting client whose predecessor still
\* has its znode will be told when it goes: the watch is set at the server.
WaiterIsWatching ==
  faults.loss = 0 =>
    \A c \in Clients : Waiting(c) /\ watch[c] \in Children => <<c, watch[c]>> \in watches

\* What holds of znodes, watches and answers at every moment: the types, one
\* client woken by a release, and a watch for each client that waits.
WatchInv == TypeOK /\ NoHerd /\ WaiterIsWatching

\* "找到可以监听的对象": the znode found can be watched. It fails when that znode
\* is deleted before zoo_aexists is served: nothing will wake the client then.
FoundCanBeWatched ==
  \A c \in Clients : \A r \in Range(replies[c]) : ~(r.op = "exists" /\ r.rc = "nonode")

\* Whatever processes die, every running client gets the lock or ends, unless
\* a client missed the deletion of its predecessor, lost its connection, or
\* lost its session (and nobody has promised anything to it).
LockServed ==
  []FoundCanBeWatched =>
    \A c \in Clients :
      phase[c] = "running" ~> (execs[c] > 0 \/ phase[c] # "running" \/ faults.loss + faults.expire > 0)

\* When all processes have ended, no znode of theirs blocks later ones.
LockReleased ==
  (\A c \in Clients : ~Alive(c)) ~> Children = {}

\* "获取锁, 获取执行权, 释放锁": a client that has created its znode executes
\* between taking the lock and releasing it, thus while its znode is the
\* smallest one.
ExecutesOnlyAsHolder ==
  [][\A c \in Clients :
       (execs'[c] > execs[c] /\ seq_me'[c] > 0 /\ session[c] = "connected")
          => Smallest(seq_me'[c])]_vars
=============================================================================
