---------------------------- MODULE ZkLockProofs ----------------------------
(***************************************************************************)
(* Why the znodes of main.c make a lock, for any number of processes and   *)
(* faults: numbers are drawn once, a list of children that is used later   *)
(* than it was made still has every smaller znode there is, and what is    *)
(* watched is the znode just below one's own.                              *)
(***************************************************************************)
EXTENDS ZkLock, NaturalRecursion

\* Messages on their way: the answer to a create, a list of children, a request.
IsCreated(c, k) == k \in DOMAIN replies[c] /\ replies[c][k].op = "create" /\ replies[c][k].rc = "ok"
IsList(c, k) == k \in DOMAIN replies[c] /\ replies[c][k].op = "children" /\ replies[c][k].rc = "ok"
IsRequest(c, k, op) == k \in DOMAIN requests[c] /\ requests[c][k].op = op

\* Number n was given to client c, and something still tells.
Drawn(c, n) ==
  /\ n \in Nat
  /\ \/ znode[c] = n
     \/ n > 0 /\ seq_me[c] = n
     \/ \E k \in Nat : IsCreated(c, k) /\ replies[c][k].seq = n

\* A number is given to one client, a client gets one number, and there are
\* larger ones left.
NumbersInv ==
  /\ \A c \in Clients : znode[c] \in Nat \cup {None} /\ seq_me[c] \in Nat
  /\ \A c \in Clients, n \in Nat : Drawn(c, n) => n < nextSeq
  /\ \A c, d \in Clients, n \in Nat : Drawn(c, n) /\ Drawn(d, n) => c = d
  /\ \A c \in Clients, m, n \in Nat : Drawn(c, m) /\ Drawn(c, n) => m = n

\* A client asks for one znode, and is told of it once.
NotYet(c) == znode[c] = None /\ seq_me[c] = 0 /\ \A k \in Nat : ~IsCreated(c, k)
CreateInv ==
  \A c \in Clients :
    /\ phase[c] = "init" => NotYet(c) /\ \A k \in Nat : ~IsRequest(c, k, "create")
    /\ session[c] = "connecting" => NotYet(c)
    /\ \A j, k \in Nat : IsRequest(c, j, "create") /\ IsRequest(c, k, "create") => j = k /\ NotYet(c)
    /\ \A j, k \in Nat : IsCreated(c, j) /\ IsCreated(c, k) => j = k
    /\ \A k \in Nat : IsCreated(c, k) => replies[c][k].seq \in Nat /\ seq_me[c] = 0

\* Nobody else deletes a znode with a positive number, and its owner not before
\* it executed.
DeleteInv ==
  \A c \in Clients : \A k \in Nat : IsRequest(c, k, "delete") =>
    \/ requests[c][k].node \in {None, 0}
    \/ requests[c][k].node = seq_me[c] /\ execs[c] > 0
OwnInv ==
  \A c \in Clients : session[c] = "connected" =>
    /\ seq_me[c] > 0 /\ execs[c] = 0 => znode[c] = seq_me[c]
    /\ \A k \in Nat : IsCreated(c, k) /\ replies[c][k].seq > 0 => znode[c] = replies[c][k].seq

\* A list made since the client drew its number has every smaller znode there is.
Has(strings, existing, n) == \A v \in existing : v < n => v \in strings
ListsInv ==
  \A c \in Clients : \A k \in Nat : IsList(c, k) =>
    /\ replies[c][k].strings \subseteq Nat
    /\ seq_me[c] > 0 => Has(replies[c][k].strings, Children, seq_me[c])
    /\ \A j \in Nat : IsCreated(c, j) /\ j < k => Has(replies[c][k].strings, Children, replies[c][j].seq)

\* Znode n is the one just below that of client c, if it is there at all.
Below(c, n) == n \in Nat /\ n < seq_me[c] /\ \A v \in Children : ~(n < v /\ v < seq_me[c])
WatchesInv ==
  /\ \A c \in Clients : \A n \in Int : <<c, n>> \in watches => Below(c, n)
  /\ \A c \in Clients : \A k \in Nat : IsRequest(c, k, "exists") => Below(c, requests[c][k].node)

\* The watch is at the server, or asked for.
WatchingInv ==
  \A c \in Clients :
    /\ watch[c] # None => watch[c] \in Nat /\ watch[c] < nextSeq
    /\ faults.loss = 0 /\ session[c] # "expired" /\ watch[c] \in Children =>
         \/ <<c, watch[c]>> \in watches
         \/ \E k \in Nat : IsRequest(c, k, "exists") /\ requests[c][k].node = watch[c]

\* The inductive invariant.
IInv == TypeOK /\ NumbersInv /\ CreateInv /\ DeleteInv /\ OwnInv /\ ListsInv /\ WatchesInv /\ WatchingInv

----------------------------------------------------------------------------
(* Sequences of messages. *)

\* The elements of s that are in S are in the set that s is made of.
LEMMA OnlyInSet ==
  ASSUME NEW A, NEW s \in Seq(A), NEW S
  PROVE  Only(s, S) \in Seq(A \cap S)
<1> DEFINE T == Seq(A \cap S)
           N == Len(s)
           step(n, t) == IF s[n] \in S THEN Append(t, s[n]) ELSE t
           next == [n \in 1..N |-> [t \in T |-> step(n, t)]]
           Eq(f) == f = [n \in 0..N |-> IF n = 0 THEN <<>> ELSE IF s[n] \in S THEN Append(f[n - 1], s[n]) ELSE f[n - 1]]
           first == CHOOSE f : Eq(f)
<1>1. N \in Nat /\ \A n \in 1..N : s[n] \in A
  OBVIOUS
<1>2. \A n \in 1..N, t \in T : step(n, t) \in T
  BY <1>1
<1>3. next \in Steps(N, T) /\ \A n \in 1..N, t \in T : next[n][t] = step(n, t)
  <2> USE DEF Steps
  <2> HIDE DEF step, T, N
  <2>1. QED
    BY <1>2
<1>4. \E f : Eq(f)
  <2>1. <<>> \in T
    OBVIOUS
  <2>a. next \in Steps(N, T) /\ N \in Nat
    BY <1>1, <1>3
  <2> HIDE DEF next, T, N
  <2>2. PICK f \in [0..N -> T] : f[0] = <<>> /\ \A n \in 1..N : f[n] = next[n][f[n - 1]]
    <3>1. \E f : IsRecursion(f, N, T, <<>>, next)
      BY <2>a, <2>1, RecursionUpTo
    <3>2. QED
      BY <3>1 DEF IsRecursion
  <2>3. \A n \in 0..N : f[n] = IF n = 0 THEN <<>> ELSE IF s[n] \in S THEN Append(f[n - 1], s[n]) ELSE f[n - 1]
    <3>1. SUFFICES ASSUME NEW n \in 0..N, n # 0 PROVE f[n] = step(n, f[n - 1])
      BY <2>2
    <3>2. n \in 1..N /\ n - 1 \in 0..N
      BY <1>1, <3>1
    <3>3. f[n - 1] \in T
      BY <3>2
    <3> HIDE DEF step
    <3>4. QED
      BY <1>3, <2>2, <3>2, <3>3
  <2>4. Eq(f)
    BY <2>3
  <2>5. QED
    BY <2>4
<1>5. Eq(first)
  <2> HIDE DEF Eq
  <2>1. QED
    BY <1>4
<1>6. Only(s, S) = first[N]
  BY DEF Only
<1>7. first[N] \in T
  <2> DEFINE Good == {n \in 0..N : first[n] \in T}
  <2> HIDE DEF first
  <2>1. 0 \in Good
    BY <1>1, <1>5
  <2>2. ASSUME NEW n \in 1..N, n - 1 \in Good PROVE n \in Good
    <3>1. n \in 0..N /\ n # 0 /\ first[n - 1] \in T
      BY <1>1, <2>2
    <3>2. first[n] = step(n, first[n - 1])
      BY <1>5, <3>1
    <3> HIDE DEF step
    <3>3. QED
      BY <1>2, <3>1, <3>2
  <2> HIDE DEF Good
  <2>3. 0..N \subseteq Good
    BY <1>1, <2>1, <2>2, InductionUpTo
  <2> USE DEF Good
  <2>4. N \in Good
    BY <1>1, <2>3
  <2>5. QED
    BY <2>4
<1>8. QED
  BY <1>6, <1>7

\* Sequence new is what is left of old after its first elements went, and
\* elements of H at the end or in their place.
Follows(H, old, new) ==
  \E gone \in Nat : \A k \in DOMAIN new :
    new[k] \in H \/ (k + gone \in DOMAIN old /\ new[k] = old[k + gone])

\* Nothing happens.
LEMMA FollowsSame ==
  ASSUME NEW A, NEW s \in Seq(A), NEW H
  PROVE  Follows(H, s, s)
<1>1. \A k \in DOMAIN s : k + 0 = k
  OBVIOUS
<1>2. QED
  BY <1>1 DEF Follows

\* All is forgotten.
LEMMA FollowsEmpty ==
  ASSUME NEW A, NEW s \in Seq(A), NEW H
  PROVE  Follows(H, s, <<>>)
BY DEF Follows

\* The oldest message is taken.
LEMMA FollowsTail ==
  ASSUME NEW A, NEW s \in Seq(A), NEW H, s # <<>>
  PROVE  Follows(H, s, Tail(s)) /\ Tail(s) \in Seq(A) /\ Head(s) \in A /\ 1 \in DOMAIN s /\ Head(s) = s[1]
<1>1. \A k \in DOMAIN Tail(s) : k + 1 \in DOMAIN s /\ Tail(s)[k] = s[k + 1]
  OBVIOUS
<1>2. Tail(s) \in Seq(A) /\ Head(s) \in A /\ 1 \in DOMAIN s /\ Head(s) = s[1]
  OBVIOUS
<1>3. QED
  BY <1>1, <1>2 DEF Follows

\* Messages of H are added after the first n of s.
LEMMA FollowsCut ==
  ASSUME NEW A, NEW s \in Seq(A), NEW H, NEW t \in Seq(H \cap A), NEW n \in 0..Len(s)
  PROVE  Follows(H, s, SubSeq(s, 1, n) \o t) /\ SubSeq(s, 1, n) \o t \in Seq(A)
<1> DEFINE r == SubSeq(s, 1, n) \o t
<1>1. SubSeq(s, 1, n) \in Seq(A) /\ Len(SubSeq(s, 1, n)) = n /\ \A k \in 1..n : SubSeq(s, 1, n)[k] = s[k]
  OBVIOUS
<1>2. t \in Seq(A)
  OBVIOUS
<1>3. r \in Seq(A) /\ Len(r) = n + Len(t)
  BY <1>1, <1>2
<1>4. ASSUME NEW k \in DOMAIN r PROVE r[k] \in H \/ (k + 0 \in DOMAIN s /\ r[k] = s[k + 0])
  <2>1. k \in 1..(n + Len(t)) /\ k + 0 = k
    BY <1>3
  <2>2. CASE k <= n
    <3>1. r[k] = s[k] /\ k \in DOMAIN s
      BY <1>1, <1>2, <2>1, <2>2
    <3>2. QED
      BY <2>1, <3>1
  <2>3. CASE k > n
    <3>1. k - n \in 1..Len(t) /\ r[k] = t[k - n]
      BY <1>1, <1>2, <2>1, <2>3
    <3>2. t[k - n] \in H
      BY <3>1
    <3>3. QED
      BY <3>1, <3>2
  <2>4. QED
    BY <2>1, <2>2, <2>3
<1>5. QED
  BY <1>3, <1>4 DEF Follows

\* Messages of H are added to s.
LEMMA FollowsJoin ==
  ASSUME NEW A, NEW s \in Seq(A), NEW H, NEW t \in Seq(H \cap A)
  PROVE  Follows(H, s, s \o t) /\ s \o t \in Seq(A)
<1>1. Len(s) \in 0..Len(s) /\ SubSeq(s, 1, Len(s)) = s
  OBVIOUS
<1>2. QED
  BY <1>1, FollowsCut

\* A message of H is added to s.
LEMMA FollowsAppend ==
  ASSUME NEW A, NEW s \in Seq(A), NEW H, NEW m \in H \cap A
  PROVE  Follows(H, s, Append(s, m)) /\ Append(s, m) \in Seq(A)
<1>1. <<m>> \in Seq(H \cap A) /\ Append(s, m) = s \o <<m>>
  OBVIOUS
<1>2. QED
  BY <1>1, FollowsJoin
\* Messages that are neither the answer to a create nor a list of children.
Harmless == {m \in Messages : ~(m.op \in {"create", "children"} /\ m.rc = "ok")}
MessagesBut(op) == {m \in Messages : ~(m.op = op /\ m.rc = "ok")}
RequestsBut(op) == {r \in Requests : r.op # op}

\* What the server and the library send is a message.
LEMMA MessagesMade ==
  /\ Harmless \subseteq Messages
  /\ SessionEvent \in Harmless
  /\ \A n \in Int : [op |-> "watch", rc |-> "ok", node |-> n] \in Harmless
  /\ \A n \in Int : \A rc \in {"ok", "nonode"} : [op |-> "exists", rc |-> rc, node |-> n] \in Harmless
  /\ \A rc \in {"ok", "nonode"} : [op |-> "delete", rc |-> rc] \in Harmless
  /\ \A op \in {"create", "children", "exists", "delete"} : [op |-> op, rc |-> "error"] \in Harmless
  /\ \A n \in Int : [op |-> "create", rc |-> "ok", seq |-> n] \in Messages
  /\ \A strings \in SUBSET Int : [op |-> "children", rc |-> "ok", strings |-> strings] \in Messages
BY DEF Harmless, Messages, SessionEvent

\* What a client sends is a request.
LEMMA RequestsMade ==
  /\ [op |-> "create"] \in Requests /\ [op |-> "children"] \in Requests
  /\ \A n \in Int : [op |-> "exists", node |-> n] \in Requests
  /\ \A n \in Int \cup {None} : [op |-> "delete", node |-> n] \in Requests
BY DEF Requests

\* What a message or request carries.
LEMMA MessagesRead ==
  /\ \A m \in Messages : m.op = "create" /\ m.rc = "ok" => m.seq \in Int
  /\ \A m \in Messages : m.op = "children" /\ m.rc = "ok" => m.strings \in SUBSET Int
  /\ \A m \in Messages : m.op \notin {"watch", "session"} => m.op \in {"create", "children", "exists", "delete"}
  /\ \A m \in Messages : m.op \in {"watch", "session"} => m \in Harmless
  /\ \A r \in Requests : r.op \in {"create", "children", "exists", "delete"}
  /\ \A r \in Requests : r.op = "exists" => r.node \in Int
  /\ \A r \in Requests : r.op = "delete" => r.node \in Int \cup {None}
<1>1. \A m \in Messages : m.op = "create" /\ m.rc = "ok" => m.seq \in Int
  BY DEF Messages, SessionEvent
<1>2. \A m \in Messages : m.op = "children" /\ m.rc = "ok" => m.strings \in SUBSET Int
  BY DEF Messages, SessionEvent
<1>3. \A m \in Messages : m.op \notin {"watch", "session"} => m.op \in {"create", "children", "exists", "delete"}
  BY DEF Messages, SessionEvent
<1>4. \A m \in Messages : m.op \in {"watch", "session"} => m \in Harmless
  BY DEF Harmless
<1>5. \A r \in Requests : r.op \in {"create", "children", "exists", "delete"}
  BY DEF Requests
<1>6. \A r \in Requests : r.op = "exists" => r.node \in Int
  BY DEF Requests
<1>7. \A r \in Requests : r.op = "delete" => r.node \in Int \cup {None}
  BY DEF Requests
<1>8. QED
  BY <1>1, <1>2, <1>3, <1>4, <1>5, <1>6, <1>7

----------------------------------------------------------------------------
(* What the parts of actions do to the messages on their way. *)

\* The types of the messages on their way.
QueuesOK == replies \in [Clients -> Seq(Messages)] /\ requests \in [Clients -> Seq(Requests)]
Replied == \A d \in Clients : Follows(Harmless, replies[d], replies'[d])
RepliedBut(op) == \A d \in Clients : Follows(MessagesBut(op), replies[d], replies'[d])
Requested(H) == \A d \in Clients : Follows(H, requests[d], requests'[d])
ExistsKept ==
  \A d \in Clients : \A k \in DOMAIN requests[d] : requests[d][k].op = "exists" =>
    \E j \in DOMAIN requests'[d] : requests'[d][j] = requests[d][k]

\* The server's answer is the last of the messages.
LEMMA AnswerKeeps ==
  ASSUME QueuesOK, NEW c \in Clients, NEW m \in Messages, Answer(c, m)
  PROVE  /\ replies' \in [Clients -> Seq(Messages)]
         /\ \A H : m \in H => \A d \in Clients : Follows(H, replies[d], replies'[d])
         /\ \A d \in Clients : \A k \in DOMAIN replies'[d] :
              \/ k \in DOMAIN replies[d] /\ replies'[d][k] = replies[d][k]
              \/ d = c /\ replies'[d][k] = m /\ \A j \in DOMAIN replies'[d] : j <= k
<1> USE DEF QueuesOK
<1>1. \A d \in Clients : replies[d] \in Seq(Messages)
  OBVIOUS
<1>2. \A d \in Clients : replies'[d] = replies[d] \/ (d = c /\ replies'[d] = Append(replies[d], m))
  BY DEF Answer
<1>3. ASSUME NEW H, m \in H, NEW d \in Clients PROVE Follows(H, replies[d], replies'[d])
  <2>1. replies[d] \in Seq(Messages) /\ m \in H \cap Messages
    BY <1>1, <1>3
  <2>2. Follows(H, replies[d], replies[d])
    BY <2>1, FollowsSame
  <2>3. Follows(H, replies[d], Append(replies[d], m))
    BY <2>1, FollowsAppend
  <2>4. QED
    BY <1>2, <2>2, <2>3
<1>4. replies' \in [Clients -> Seq(Messages)]
  BY <1>1 DEF Answer
<1>5. ASSUME NEW d \in Clients, NEW k \in DOMAIN replies'[d]
      PROVE  \/ k \in DOMAIN replies[d] /\ replies'[d][k] = replies[d][k]
             \/ d = c /\ replies'[d][k] = m /\ \A j \in DOMAIN replies'[d] : j <= k
  <2>1. CASE replies'[d] = replies[d]
    BY <2>1
  <2>2. CASE d = c /\ replies'[d] = Append(replies[d], m)
    <3>1. replies[d] \in Seq(Messages) /\ k \in 1..(Len(replies[d]) + 1) /\ DOMAIN replies'[d] = 1..(Len(replies[d]) + 1)
      BY <1>1, <2>2
    <3>2. CASE k = Len(replies[d]) + 1
      BY <2>2, <3>1, <3>2
    <3>3. CASE k # Len(replies[d]) + 1
      <4>1. k \in DOMAIN replies[d] /\ Append(replies[d], m)[k] = replies[d][k]
        BY <3>1, <3>3
      <4>2. QED
        BY <2>2, <4>1
    <3>4. QED
      BY <3>2, <3>3
  <2>3. QED
    BY <1>2, <2>1, <2>2
<1>6. QED
  BY <1>3, <1>4, <1>5

\* An answer that is neither of both kinds.
LEMMA AnswerHarmless ==
  ASSUME QueuesOK, NEW c \in Clients, NEW m \in Harmless, Answer(c, m)
  PROVE  Replied /\ replies' \in [Clients -> Seq(Messages)]
<1>1. m \in Messages
  BY MessagesMade
<1>2. QED
  BY <1>1, AnswerKeeps DEF Replied

\* A callback takes the oldest message.
LEMMA ReceiveKeeps ==
  ASSUME QueuesOK, NEW c \in Clients, NEW op, Receive(c, op)
  PROVE  /\ Replied /\ replies' \in [Clients -> Seq(Messages)]
         /\ Reply(c) \in Messages /\ 1 \in DOMAIN replies[c] /\ Reply(c) = replies[c][1] /\ Reply(c).op = op
         /\ \A k \in DOMAIN replies'[c] : k + 1 \in DOMAIN replies[c] /\ replies'[c][k] = replies[c][k + 1]
         /\ \A d \in Clients : d # c => replies'[d] = replies[d]
         /\ Alive(c)
<1> USE DEF QueuesOK
<1>1. \A d \in Clients : replies[d] \in Seq(Messages)
  OBVIOUS
<1>2. replies[c] # <<>> /\ Reply(c) = Head(replies[c]) /\ Reply(c).op = op /\ Alive(c)
      /\ replies' = [replies EXCEPT ![c] = Tail(replies[c])]
  BY DEF Receive, Reply
<1>3. \A H : Follows(H, replies[c], Tail(replies[c])) /\ Tail(replies[c]) \in Seq(Messages)
              /\ Head(replies[c]) \in Messages /\ 1 \in DOMAIN replies[c] /\ Head(replies[c]) = replies[c][1]
  BY <1>1, <1>2, FollowsTail
<1>4. \A d \in Clients : Follows(Harmless, replies[d], replies[d])
  BY <1>1, FollowsSame
<1>5. replies'[c] = Tail(replies[c]) /\ \A d \in Clients : d # c => replies'[d] = replies[d]
  BY <1>2
<1>6. Replied
  BY <1>3, <1>4, <1>5 DEF Replied
<1>7. replies' \in [Clients -> Seq(Messages)]
  BY <1>1, <1>2, <1>3
<1>8. \A k \in DOMAIN Tail(replies[c]) : k + 1 \in DOMAIN replies[c] /\ Tail(replies[c])[k] = replies[c][k + 1]
  BY <1>1, <1>2
<1>9. QED
  BY <1>2, <1>3, <1>5, <1>6, <1>7, <1>8
\* The server takes the oldest request.
LEMMA ServeKeeps ==
  ASSUME QueuesOK, NEW c \in Clients, NEW op, Serve(c, op)
  PROVE  /\ \A H : Requested(H)
         /\ requests' \in [Clients -> Seq(Requests)]
         /\ Head(requests[c]) \in Requests /\ IsRequest(c, 1, op) /\ Head(requests[c]) = requests[c][1]
         /\ op # "exists" => ExistsKept
         /\ \A d \in Clients : d # c => requests'[d] = requests[d]
         /\ \A k \in DOMAIN requests[c] : k # 1 =>
              k - 1 \in DOMAIN requests'[c] /\ requests'[c][k - 1] = requests[c][k]
         /\ \A k \in DOMAIN requests'[c] : k + 1 \in DOMAIN requests[c] /\ requests'[c][k] = requests[c][k + 1]
<1> USE DEF QueuesOK
<1>1. \A d \in Clients : requests[d] \in Seq(Requests)
  OBVIOUS
<1>2. requests[c] # <<>> /\ Head(requests[c]).op = op /\ requests' = [requests EXCEPT ![c] = Tail(requests[c])]
  BY DEF Serve
<1>3. \A H : Follows(H, requests[c], Tail(requests[c])) /\ Tail(requests[c]) \in Seq(Requests)
              /\ Head(requests[c]) \in Requests /\ 1 \in DOMAIN requests[c] /\ Head(requests[c]) = requests[c][1]
  BY <1>1, <1>2, FollowsTail
<1>4. \A H : \A d \in Clients : Follows(H, requests[d], requests[d])
  BY <1>1, FollowsSame
<1>5. requests'[c] = Tail(requests[c]) /\ \A d \in Clients : d # c => requests'[d] = requests[d]
  BY <1>2
<1>6. ASSUME NEW H PROVE Requested(H)
  BY <1>3, <1>4, <1>5 DEF Requested
<1>7. requests' \in [Clients -> Seq(Requests)]
  BY <1>1, <1>2, <1>3
<1>8. \A k \in DOMAIN requests[c] : k # 1 =>
        k - 1 \in DOMAIN Tail(requests[c]) /\ Tail(requests[c])[k - 1] = requests[c][k]
  BY <1>1, <1>2
<1>9. \A k \in DOMAIN Tail(requests[c]) : k + 1 \in DOMAIN requests[c] /\ Tail(requests[c])[k] = requests[c][k + 1]
  BY <1>1, <1>2
<1>10. ASSUME op # "exists" PROVE ExistsKept
  <2>1. ASSUME NEW k \in DOMAIN requests[c], requests[c][k].op = "exists" PROVE k # 1
    BY <1>2, <1>3, <1>10, <2>1
  <2>2. ASSUME NEW k \in DOMAIN requests[c], requests[c][k].op = "exists"
        PROVE  \E j \in DOMAIN requests'[c] : requests'[c][j] = requests[c][k]
    BY <1>5, <1>8, <2>1, <2>2
  <2>3. \A d \in Clients : d # c => \A k \in DOMAIN requests[d] : requests'[d][k] = requests[d][k] /\ k \in DOMAIN requests'[d]
    BY <1>5
  <2>4. QED
    BY <2>2, <2>3 DEF ExistsKept
<1>11. QED
  BY <1>2, <1>3, <1>5, <1>6, <1>7, <1>8, <1>9, <1>10 DEF IsRequest

\* A client sends a request.
LEMMA SendKeeps ==
  ASSUME QueuesOK, NEW c \in Clients, NEW r \in Requests, Send(c, r)
  PROVE  /\ \A op : op # r.op => Requested(RequestsBut(op))
         /\ requests' \in [Clients -> Seq(Requests)]
         /\ ExistsKept
         /\ \A d \in Clients : d # c => requests'[d] = requests[d]
         /\ session[c] = "expired" => requests' = requests
         /\ session[c] # "expired" =>
              /\ Len(requests[c]) \in Nat
              /\ DOMAIN requests'[c] = 1..(Len(requests[c]) + 1)
              /\ requests'[c][Len(requests[c]) + 1] = r
              /\ \A k \in 1..Len(requests[c]) : k \in DOMAIN requests[c] /\ requests'[c][k] = requests[c][k]
<1> USE DEF QueuesOK
<1>1. \A d \in Clients : requests[d] \in Seq(Requests)
  OBVIOUS
<1>2. requests' = IF session[c] = "expired" THEN requests ELSE [requests EXCEPT ![c] = Append(requests[c], r)]
  BY DEF Send
<1>3. \A d \in Clients : requests'[d] \in {requests[d], Append(requests[d], r)}
  BY <1>2
<1>4. ASSUME NEW op, op # r.op PROVE Requested(RequestsBut(op))
  <2>1. r \in RequestsBut(op) \cap Requests
    BY <1>4 DEF RequestsBut
  <2>2. \A d \in Clients : Follows(RequestsBut(op), requests[d], requests[d])
    BY <1>1, FollowsSame
  <2>3. \A d \in Clients : Follows(RequestsBut(op), requests[d], Append(requests[d], r))
    BY <1>1, <2>1, FollowsAppend
  <2>4. QED
    BY <1>3, <2>2, <2>3 DEF Requested
<1>5. requests' \in [Clients -> Seq(Requests)]
  BY <1>1, <1>2
<1>6. \A d \in Clients : \A k \in DOMAIN requests[d] :
        k \in DOMAIN Append(requests[d], r) /\ Append(requests[d], r)[k] = requests[d][k]
  BY <1>1
<1>7. ExistsKept
  BY <1>3, <1>6 DEF ExistsKept
<1>8. ASSUME session[c] # "expired"
      PROVE  /\ Len(requests[c]) \in Nat
             /\ DOMAIN requests'[c] = 1..(Len(requests[c]) + 1)
             /\ requests'[c][Len(requests[c]) + 1] = r
             /\ \A k \in 1..Len(requests[c]) : k \in DOMAIN requests[c] /\ requests'[c][k] = requests[c][k]
  <2>1. requests'[c] = Append(requests[c], r) /\ requests[c] \in Seq(Requests)
    BY <1>1, <1>2, <1>8
  <2>2. QED
    BY <2>1
<1>9. \A d \in Clients : d # c => requests'[d] = requests[d]
  BY <1>2
<1>10. QED
  BY <1>2, <1>4, <1>5, <1>7, <1>8, <1>9

\* Nothing is sent or served.
LEMMA RequestsSame ==
  ASSUME QueuesOK, requests' = requests
  PROVE  /\ \A H : Requested(H)
         /\ requests' \in [Clients -> Seq(Requests)]
         /\ ExistsKept
<1>1. \A d \in Clients : requests[d] \in Seq(Requests)
  BY DEF QueuesOK
<1>2. \A H : Requested(H)
  BY <1>1, FollowsSame DEF Requested
<1>3. QED
  BY <1>2 DEF QueuesOK, ExistsKept

\* The replies stay where they are.
LEMMA RepliesSame ==
  ASSUME QueuesOK, replies' = replies
  PROVE  Replied /\ replies' \in [Clients -> Seq(Messages)]
<1>1. \A d \in Clients : replies[d] \in Seq(Messages)
  BY DEF QueuesOK
<1>2. QED
  BY <1>1, FollowsSame DEF Replied, QueuesOK

\* The requests of one client are dropped.
LEMMA RequestsDropped ==
  ASSUME QueuesOK, NEW c \in Clients, requests' = [requests EXCEPT ![c] = <<>>]
  PROVE  /\ \A H : Requested(H)
         /\ requests' \in [Clients -> Seq(Requests)]
         /\ \A d \in Clients : d # c => requests'[d] = requests[d]
<1>1. \A d \in Clients : requests[d] \in Seq(Requests)
  BY DEF QueuesOK
<1>2. \A H : \A d \in Clients : Follows(H, requests[d], requests[d]) /\ Follows(H, requests[d], <<>>)
  BY <1>1, FollowsSame, FollowsEmpty
<1>3. \A d \in Clients : requests'[d] \in {requests[d], <<>>}
  BY <1>1 DEF QueuesOK
<1>4. \A H : Requested(H)
  BY <1>2, <1>3 DEF Requested
<1>5. QED
  BY <1>1, <1>4 DEF QueuesOK

\* The znodes of which no new one appears.
Forgets == \A d \in Clients : znode'[d] \in {znode[d], None}

\* A znode goes, and its watchers are told.
LEMMA RemoveKeeps ==
  ASSUME TypeOK, NEW n \in Int \cup {None}, NEW c \in Clients, NEW own \in Seq(Harmless), Remove(n, c, own)
  PROVE  /\ Replied /\ replies' \in [Clients -> Seq(Messages)]
         /\ Forgets /\ znode' \in [Clients -> Int \cup {None}]
         /\ \A d \in Clients : znode[d] # n => znode'[d] = znode[d]
         /\ \A d \in Clients : znode[d] = n => znode'[d] = None
         /\ n # None => n \notin Children'
<1>1. znode' = [d \in Clients |-> IF znode[d] = n THEN None ELSE znode[d]]
  BY DEF Remove
<1>2. znode \in [Clients -> Int \cup {None}]
  BY DEF TypeOK
<1>3. Forgets /\ znode' \in [Clients -> Int \cup {None}]
  BY <1>1, <1>2 DEF Forgets
<1>4. /\ \A d \in Clients : znode[d] # n => znode'[d] = znode[d]
      /\ \A d \in Clients : znode[d] = n => znode'[d] = None
  BY <1>1
<1>5. n # None => n \notin Children'
  BY <1>1 DEF Children
<1>6. ASSUME NEW d \in Clients PROVE Follows(Harmless, replies[d], replies'[d]) /\ replies'[d] \in Seq(Messages)
  <2> DEFINE more == Notice(d, n) \o (IF d = c THEN own ELSE <<>>)
  <2>1. replies[d] \in Seq(Messages)
    BY DEF TypeOK
  <2>2. Notice(d, n) \in Seq(Harmless)
    <3>1. CASE <<d, n>> \in watches
      <4>1. n \in Int
        BY <3>1 DEF TypeOK
      <4>2. [op |-> "watch", rc |-> "ok", node |-> n] \in Harmless
        BY <4>1, MessagesMade
      <4>3. QED
        BY <3>1, <4>2 DEF Notice
    <3>2. CASE <<d, n>> \notin watches
      BY <3>2 DEF Notice
    <3>3. QED
      BY <3>1, <3>2
  <2>3. more \in Seq(Harmless)
    <3> HIDE DEF Harmless
    <3>1. QED
      BY <2>2
  <2>4. Harmless \cap Messages = Harmless
    BY MessagesMade
  <2>5. replies'[d] = IF Alive(d) THEN replies[d] \o more ELSE <<>>
    <3>1. replies[d] \o Notice(d, n) \o (IF d = c THEN own ELSE <<>>) = replies[d] \o more
      <4>1. \A p, q, r \in Seq(Messages) : (p \o q) \o r = p \o (q \o r)
        OBVIOUS
      <4>2. Notice(d, n) \in Seq(Messages) /\ (IF d = c THEN own ELSE <<>>) \in Seq(Messages)
        BY <2>2, <2>4
      <4>3. QED
        BY <2>1, <4>1, <4>2
    <3>2. QED
      BY <3>1 DEF Remove
  <2> HIDE DEF more
  <2>6. Follows(Harmless, replies[d], replies[d] \o more) /\ replies[d] \o more \in Seq(Messages)
    BY <2>1, <2>3, <2>4, FollowsJoin
  <2>7. Follows(Harmless, replies[d], <<>>)
    BY <2>1, FollowsEmpty
  <2>8. QED
    BY <2>5, <2>6, <2>7
<1>7. replies' \in [Clients -> Seq(Messages)]
  <2>1. \E f : replies' = [d \in Clients |-> f[d]]
    <3>1. replies' = [d \in Clients |-> replies'[d]]
      BY DEF Remove
    <3>2. QED
      BY <3>1
  <2>2. QED
    BY <1>6, <2>1
<1>8. QED
  BY <1>3, <1>4, <1>5, <1>6, <1>7 DEF Replied
\* A session ends.
LEMMA EndSessionKeeps ==
  ASSUME TypeOK, NEW c \in Clients, NEW own \in Seq(Harmless), EndSession(c, own)
  PROVE  /\ Replied /\ replies' \in [Clients -> Seq(Messages)]
         /\ Forgets /\ znode' \in [Clients -> Int \cup {None}] /\ nextSeq' = nextSeq
         /\ \A d \in Clients : znode[d] # znode[c] => znode'[d] = znode[d]
         /\ \A H : Requested(H)
         /\ requests' \in [Clients -> Seq(Requests)]
         /\ \A d \in Clients : d # c => requests'[d] = requests[d]
         /\ session' \in [Clients -> {"connecting", "connected", "expired"}]
         /\ session'[c] = "expired" /\ \A d \in Clients : d # c => session'[d] = session[d]
         /\ watches' \subseteq watches
         /\ \A d \in Clients : \A n \in Children' : d # c /\ <<d, n>> \in watches => <<d, n>> \in watches'
<1>1. znode[c] \in Int \cup {None} /\ QueuesOK
  BY DEF TypeOK, QueuesOK
<1>2. Remove(znode[c], c, own) /\ requests' = [requests EXCEPT ![c] = <<>>] /\ nextSeq' = nextSeq
      /\ session' = [session EXCEPT ![c] = "expired"]
      /\ watches' = {p \in watches : p[1] # c /\ p[2] # znode[c]}
  BY DEF EndSession
<1>3. /\ Replied /\ replies' \in [Clients -> Seq(Messages)]
      /\ Forgets /\ znode' \in [Clients -> Int \cup {None}]
      /\ \A d \in Clients : znode[d] # znode[c] => znode'[d] = znode[d]
      /\ znode[c] # None => znode[c] \notin Children'
  BY <1>1, <1>2, RemoveKeeps
<1>4. /\ \A H : Requested(H)
      /\ requests' \in [Clients -> Seq(Requests)]
      /\ \A d \in Clients : d # c => requests'[d] = requests[d]
  BY <1>1, <1>2, RequestsDropped
<1>5. /\ session' \in [Clients -> {"connecting", "connected", "expired"}]
      /\ session'[c] = "expired" /\ \A d \in Clients : d # c => session'[d] = session[d]
  BY <1>2 DEF TypeOK
<1>6. \A d \in Clients : \A n \in Children' : d # c /\ <<d, n>> \in watches => <<d, n>> \in watches'
  <2>1. \A n \in Children' : n # None
    BY DEF Children
  <2>2. QED
    BY <1>2, <1>3, <2>1
<1>7. QED
  BY <1>2, <1>3, <1>4, <1>5, <1>6

----------------------------------------------------------------------------
(* What the invariant owes to messages that are only taken, dropped or of   *)
(* no account: one lemma for each of its parts.                            *)

\* The answers to a create and the lists were there before.
LEMMA Carried ==
  ASSUME Replied, NEW c \in Clients
  PROVE  \E gone \in Nat : \A k \in Nat :
           /\ IsCreated(c, k)' => IsCreated(c, k + gone) /\ replies'[c][k] = replies[c][k + gone]
           /\ IsList(c, k)' => IsList(c, k + gone) /\ replies'[c][k] = replies[c][k + gone]
<1>1. PICK gone \in Nat : \A k \in DOMAIN replies'[c] :
        replies'[c][k] \in Harmless \/ (k + gone \in DOMAIN replies[c] /\ replies'[c][k] = replies[c][k + gone])
  BY DEF Replied, Follows
<1>2. ASSUME NEW k \in Nat, IsCreated(c, k)'
      PROVE  IsCreated(c, k + gone) /\ replies'[c][k] = replies[c][k + gone]
  <2>1. k \in DOMAIN replies'[c] /\ replies'[c][k].op = "create" /\ replies'[c][k].rc = "ok"
    BY <1>2 DEF IsCreated
  <2>2. replies'[c][k] \notin Harmless
    BY <2>1 DEF Harmless
  <2>3. QED
    BY <1>1, <2>1, <2>2 DEF IsCreated
<1>3. ASSUME NEW k \in Nat, IsList(c, k)'
      PROVE  IsList(c, k + gone) /\ replies'[c][k] = replies[c][k + gone]
  <2>1. k \in DOMAIN replies'[c] /\ replies'[c][k].op = "children" /\ replies'[c][k].rc = "ok"
    BY <1>3 DEF IsList
  <2>2. replies'[c][k] \notin Harmless
    BY <2>1 DEF Harmless
  <2>3. QED
    BY <1>1, <2>1, <2>2 DEF IsList
<1>4. QED
  BY <1>2, <1>3

\* The answers to a create were there before, whatever lists are made.
LEMMA CarriedCreated ==
  ASSUME RepliedBut("create"), NEW c \in Clients
  PROVE  \E gone \in Nat : \A k \in Nat :
           IsCreated(c, k)' => IsCreated(c, k + gone) /\ replies'[c][k] = replies[c][k + gone]
<1>1. PICK gone \in Nat : \A k \in DOMAIN replies'[c] :
        replies'[c][k] \in MessagesBut("create")
          \/ (k + gone \in DOMAIN replies[c] /\ replies'[c][k] = replies[c][k + gone])
  BY DEF RepliedBut, Follows
<1>2. ASSUME NEW k \in Nat, IsCreated(c, k)'
      PROVE  IsCreated(c, k + gone) /\ replies'[c][k] = replies[c][k + gone]
  BY <1>1, <1>2 DEF IsCreated, MessagesBut
<1>3. QED
  BY <1>2

\* Harmless messages are no answers to a create.
LEMMA HarmlessReplies ==
  ASSUME Replied
  PROVE  RepliedBut("create")
<1>1. Harmless \subseteq MessagesBut("create")
  BY DEF Harmless, MessagesBut
<1>2. QED
  BY <1>1 DEF Replied, RepliedBut, Follows

\* A request of kind op was there before, further up by gone.
CarriedFrom(c, op, gone) ==
  \A k \in Nat : IsRequest(c, k, op)' => IsRequest(c, k + gone, op) /\ requests'[c][k] = requests[c][k + gone]

\* The requests of a kind that nobody sends were there before.
LEMMA CarriedRequests ==
  ASSUME NEW op, Requested(RequestsBut(op)), NEW c \in Clients
  PROVE  \E gone \in Nat : CarriedFrom(c, op, gone)
<1>1. PICK gone \in Nat : \A k \in DOMAIN requests'[c] :
        requests'[c][k] \in RequestsBut(op)
          \/ (k + gone \in DOMAIN requests[c] /\ requests'[c][k] = requests[c][k + gone])
  BY DEF Requested, Follows
<1>2. ASSUME NEW k \in Nat, IsRequest(c, k, op)'
      PROVE  IsRequest(c, k + gone, op) /\ requests'[c][k] = requests[c][k + gone]
  BY <1>1, <1>2 DEF IsRequest, RequestsBut
<1>3. CarriedFrom(c, op, gone)
  BY <1>2 DEF CarriedFrom
<1>4. QED
  BY <1>3

\* No znode appears.
LEMMA FewerChildren ==
  ASSUME Forgets
  PROVE  Children' \subseteq Children
BY DEF Forgets, Children

\* No number is drawn.
LEMMA NumbersQuiet ==
  ASSUME NumbersInv, Forgets, nextSeq' = nextSeq, seq_me' = seq_me, RepliedBut("create")
  PROVE  NumbersInv'
<1>1. ASSUME NEW c \in Clients, NEW n \in Nat, Drawn(c, n)' PROVE Drawn(c, n)
  <2>1. PICK gone \in Nat : \A k \in Nat :
          IsCreated(c, k)' => IsCreated(c, k + gone) /\ replies'[c][k] = replies[c][k + gone]
    BY CarriedCreated
  <2>2. CASE znode'[c] = n
    BY <2>2, NumbersAssumption DEF Drawn, Forgets
  <2>3. CASE n > 0 /\ seq_me[c] = n
    BY <2>3 DEF Drawn
  <2>4. CASE \E k \in Nat : IsCreated(c, k)' /\ replies'[c][k].seq = n
    <3>1. PICK k \in Nat : IsCreated(c, k)' /\ replies'[c][k].seq = n
      BY <2>4
    <3>2. k + gone \in Nat /\ IsCreated(c, k + gone) /\ replies[c][k + gone].seq = n
      BY <2>1, <3>1
    <3>3. QED
      BY <3>2 DEF Drawn
  <2>5. QED
    BY <1>1, <2>2, <2>3, <2>4 DEF Drawn
<1>2. \A c \in Clients : znode'[c] \in Nat \cup {None} /\ seq_me'[c] \in Nat
  BY DEF NumbersInv, Forgets
<1>3. QED
  BY <1>1, <1>2 DEF NumbersInv

\* No znode is asked for, no process or session starts.
LEMMA CreateQuiet ==
  ASSUME CreateInv, Forgets, seq_me' = seq_me, RepliedBut("create"), Requested(RequestsBut("create")),
         \A c \in Clients : phase'[c] = "init" => phase[c] = "init",
         \A c \in Clients : session'[c] = "connecting" => session[c] = "connecting"
  PROVE  CreateInv'
<1> SUFFICES ASSUME NEW c \in Clients
             PROVE  /\ phase'[c] = "init" => NotYet(c)' /\ \A k \in Nat : ~IsRequest(c, k, "create")'
                    /\ session'[c] = "connecting" => NotYet(c)'
                    /\ \A j, k \in Nat : IsRequest(c, j, "create")' /\ IsRequest(c, k, "create")' => j = k /\ NotYet(c)'
                    /\ \A j, k \in Nat : IsCreated(c, j)' /\ IsCreated(c, k)' => j = k
                    /\ \A k \in Nat : IsCreated(c, k)' => replies'[c][k].seq \in Nat /\ seq_me'[c] = 0
  BY DEF CreateInv
<1>1. PICK g \in Nat : \A k \in Nat : IsCreated(c, k)' => IsCreated(c, k + g) /\ replies'[c][k] = replies[c][k + g]
  BY CarriedCreated
<1>2. PICK h \in Nat : CarriedFrom(c, "create", h)
  BY CarriedRequests
<1>3. /\ \A k \in Nat : k + g \in Nat /\ k + h \in Nat
      /\ \A k \in Nat : IsRequest(c, k, "create")' => IsRequest(c, k + h, "create")
  BY <1>2 DEF CarriedFrom
<1>4. NotYet(c) => NotYet(c)'
  BY <1>1, <1>3 DEF NotYet, Forgets
<1>5. phase'[c] = "init" => NotYet(c)' /\ \A k \in Nat : ~IsRequest(c, k, "create")'
  BY <1>2, <1>3, <1>4 DEF CreateInv
<1>6. session'[c] = "connecting" => NotYet(c)'
  BY <1>4 DEF CreateInv
<1>7. ASSUME NEW j \in Nat, NEW k \in Nat, IsRequest(c, j, "create")', IsRequest(c, k, "create")'
      PROVE  j = k /\ NotYet(c)'
  <2>1. j + h = k + h /\ NotYet(c)
    BY <1>2, <1>3, <1>7 DEF CreateInv
  <2>2. QED
    BY <1>4, <2>1
<1>8. ASSUME NEW j \in Nat, NEW k \in Nat, IsCreated(c, j)', IsCreated(c, k)'
      PROVE  j = k
  <2>1. j + g = k + g
    BY <1>1, <1>3, <1>8 DEF CreateInv
  <2>2. QED
    BY <2>1
<1>9. ASSUME NEW k \in Nat, IsCreated(c, k)' PROVE replies'[c][k].seq \in Nat /\ seq_me'[c] = 0
  BY <1>1, <1>3, <1>9 DEF CreateInv
<1>10. QED
  BY <1>5, <1>6, <1>7, <1>8, <1>9

\* Nobody asks for a znode to be deleted.
LEMMA DeleteQuiet ==
  ASSUME DeleteInv, seq_me' = seq_me, \A c \in Clients : execs[c] > 0 => execs'[c] > 0,
         Requested(RequestsBut("delete"))
  PROVE  DeleteInv'
<1> SUFFICES ASSUME NEW c \in Clients, NEW k \in Nat, IsRequest(c, k, "delete")'
             PROVE  requests'[c][k].node \in {None, 0} \/ (requests'[c][k].node = seq_me'[c] /\ execs'[c] > 0)
  BY DEF DeleteInv
<1>1. PICK h \in Nat : CarriedFrom(c, "delete", h)
  BY CarriedRequests
<1>2. k + h \in Nat /\ IsRequest(c, k + h, "delete") /\ requests'[c][k] = requests[c][k + h]
  BY <1>1 DEF CarriedFrom
<1>3. QED
  BY <1>2 DEF DeleteInv

\* Only a znode that its owner is done with goes.
LEMMA OwnQuiet ==
  ASSUME OwnInv, CreateInv, NumbersInv, seq_me' = seq_me, \A c \in Clients : execs'[c] = 0 => execs[c] = 0, RepliedBut("create"),
         execs \in [Clients -> Nat],
         \A c \in Clients : session'[c] = "connected" => session[c] = "connected" \/ NotYet(c),
         \A c \in Clients : \/ znode'[c] = znode[c] \/ session'[c] # "connected" \/ znode[c] = 0
                            \/ seq_me[c] > 0 /\ execs[c] > 0
  PROVE  OwnInv'
<1> SUFFICES ASSUME NEW c \in Clients, session'[c] = "connected"
             PROVE  /\ seq_me'[c] > 0 /\ execs'[c] = 0 => znode'[c] = seq_me'[c]
                    /\ \A k \in Nat : IsCreated(c, k)' /\ replies'[c][k].seq > 0 => znode'[c] = replies'[c][k].seq
  BY DEF OwnInv
<1>1. PICK g \in Nat : \A k \in Nat : IsCreated(c, k)' => IsCreated(c, k + g) /\ replies'[c][k] = replies[c][k + g]
  BY CarriedCreated
<1>2. \A k \in Nat : k + g \in Nat
  OBVIOUS
<1>3. CASE NotYet(c)
  BY <1>1, <1>2, <1>3 DEF NotYet
<1>4. CASE ~NotYet(c)
  <2>1. session[c] = "connected" /\ seq_me[c] \in Nat /\ execs[c] \in Nat
    BY <1>4 DEF NumbersInv
  <2>2. ASSUME seq_me'[c] > 0, execs'[c] = 0 PROVE znode'[c] = seq_me'[c]
    BY <2>1, <2>2 DEF OwnInv
  <2>3. ASSUME NEW k \in Nat, IsCreated(c, k)', replies'[c][k].seq > 0 PROVE znode'[c] = replies'[c][k].seq
    <3>1. IsCreated(c, k + g) /\ replies'[c][k] = replies[c][k + g] /\ k + g \in Nat
      BY <1>1, <1>2, <2>3
    <3>2. seq_me[c] = 0 /\ replies[c][k + g].seq \in Nat
      BY <3>1 DEF CreateInv
    <3>3. znode[c] = replies[c][k + g].seq
      BY <2>1, <2>3, <3>1 DEF OwnInv
    <3>4. znode'[c] = znode[c]
      BY <2>1, <2>3, <3>1, <3>2, <3>3
    <3>5. QED
      BY <3>1, <3>3, <3>4
  <2>4. QED
    BY <2>2, <2>3
<1>5. QED
  BY <1>3, <1>4
\* No list is made.
LEMMA ListsQuiet ==
  ASSUME ListsInv, Forgets, seq_me' = seq_me, Replied
  PROVE  ListsInv'
<1> SUFFICES ASSUME NEW c \in Clients, NEW k \in Nat, IsList(c, k)'
             PROVE  /\ replies'[c][k].strings \subseteq Nat
                    /\ seq_me'[c] > 0 => Has(replies'[c][k].strings, Children', seq_me'[c])
                    /\ \A j \in Nat : IsCreated(c, j)' /\ j < k => Has(replies'[c][k].strings, Children', replies'[c][j].seq)
  BY DEF ListsInv
<1>1. PICK g \in Nat : \A j \in Nat :
        /\ IsCreated(c, j)' => IsCreated(c, j + g) /\ replies'[c][j] = replies[c][j + g]
        /\ IsList(c, j)' => IsList(c, j + g) /\ replies'[c][j] = replies[c][j + g]
  BY Carried
<1>2. \A j \in Nat : j + g \in Nat /\ (j < k => j + g < k + g)
  OBVIOUS
<1>3. \A strings, n : Has(strings, Children, n) => Has(strings, Children', n)
  BY FewerChildren DEF Has
<1>4. IsList(c, k + g) /\ replies'[c][k] = replies[c][k + g]
  BY <1>1
<1>5. /\ replies[c][k + g].strings \subseteq Nat
      /\ seq_me[c] > 0 => Has(replies[c][k + g].strings, Children, seq_me[c])
      /\ \A j \in Nat : IsCreated(c, j) /\ j < k + g => Has(replies[c][k + g].strings, Children, replies[c][j].seq)
  BY <1>2, <1>4 DEF ListsInv
<1>6. seq_me'[c] > 0 => Has(replies'[c][k].strings, Children', seq_me'[c])
  BY <1>3, <1>4, <1>5 DEF Has
<1>7. ASSUME NEW j \in Nat, IsCreated(c, j)', j < k PROVE Has(replies'[c][k].strings, Children', replies'[c][j].seq)
  <2>1. IsCreated(c, j + g) /\ replies'[c][j] = replies[c][j + g] /\ j + g < k + g /\ j + g \in Nat
    BY <1>1, <1>2, <1>7
  <2>2. Has(replies[c][k + g].strings, Children, replies[c][j + g].seq)
    BY <1>5, <2>1
  <2>3. QED
    BY <1>4, <2>1, <2>2, FewerChildren DEF Has
<1>8. QED
  BY <1>4, <1>5, <1>6, <1>7

\* The watches are as before, or at znodes just below.
LEMMA WatchesQuiet ==
  ASSUME WatchesInv, Forgets, seq_me' = seq_me, Requested(RequestsBut("exists")),
         \A c \in Clients : \A n \in Int : <<c, n>> \in watches' => <<c, n>> \in watches \/ Below(c, n)
  PROVE  WatchesInv'
<1>1. \A c \in Clients : \A n : Below(c, n) => Below(c, n)'
  BY FewerChildren DEF Below
<1>2. ASSUME NEW c \in Clients, NEW k \in Nat, IsRequest(c, k, "exists")' PROVE Below(c, requests[c][k].node)'
  <2>1. PICK h \in Nat : CarriedFrom(c, "exists", h)
    BY CarriedRequests
  <2>2. k + h \in Nat /\ IsRequest(c, k + h, "exists") /\ requests'[c][k] = requests[c][k + h]
    BY <1>2, <2>1 DEF CarriedFrom
  <2>3. Below(c, requests[c][k + h].node)
    BY <2>2 DEF WatchesInv
  <2>4. QED
    BY <2>2, <2>3, FewerChildren DEF Below
<1>3. QED
  BY <1>1, <1>2 DEF WatchesInv

\* What is watched stays watched, or asked for.
LEMMA WatchingQuiet ==
  ASSUME WatchingInv, watch' = watch, nextSeq \in Nat, nextSeq' \in Nat, nextSeq' >= nextSeq,
         \A v \in Children' : v \in Children \/ v = nextSeq,
         faults'.loss = 0 => faults.loss = 0,
         \A c \in Clients : session'[c] # "expired" => session[c] # "expired",
         \A c \in Clients : session'[c] # "expired" /\ faults'.loss = 0 /\ watch[c] \in Children' =>
           /\ <<c, watch[c]>> \in watches => <<c, watch[c]>> \in watches'
           /\ \A k \in DOMAIN requests[c] : requests[c][k].op = "exists" /\ requests[c][k].node = watch[c] =>
                \/ <<c, watch[c]>> \in watches'
                \/ \E j \in DOMAIN requests'[c] : requests'[c][j] = requests[c][k],
         requests' \in [Clients -> Seq(Requests)]
  PROVE  WatchingInv'
<1> SUFFICES ASSUME NEW c \in Clients
             PROVE  /\ watch'[c] # None => watch'[c] \in Nat /\ watch'[c] < nextSeq'
                    /\ faults'.loss = 0 /\ session'[c] # "expired" /\ watch'[c] \in Children' =>
                         \/ <<c, watch'[c]>> \in watches'
                         \/ \E k \in Nat : IsRequest(c, k, "exists")' /\ requests'[c][k].node = watch'[c]
  BY DEF WatchingInv
<1>1. watch[c] # None => watch[c] \in Nat /\ watch[c] < nextSeq
  BY DEF WatchingInv
<1>2. ASSUME faults'.loss = 0, session'[c] # "expired", watch[c] \in Children'
      PROVE  \/ <<c, watch[c]>> \in watches'
             \/ \E k \in Nat : IsRequest(c, k, "exists")' /\ requests'[c][k].node = watch[c]
  <2>1. watch[c] # None
    BY <1>2 DEF Children
  <2>2. watch[c] \in Children /\ faults.loss = 0 /\ session[c] # "expired"
    BY <1>1, <1>2, <2>1
  <2>3. CASE <<c, watch[c]>> \in watches
    BY <1>2, <2>3
  <2>4. CASE \E k \in Nat : IsRequest(c, k, "exists") /\ requests[c][k].node = watch[c]
    <3>1. PICK k \in Nat : IsRequest(c, k, "exists") /\ requests[c][k].node = watch[c]
      BY <2>4
    <3>2. k \in DOMAIN requests[c] /\ requests[c][k].op = "exists"
      BY <3>1 DEF IsRequest
    <3>3. CASE <<c, watch[c]>> \in watches'
      BY <3>3
    <3>4. CASE \E j \in DOMAIN requests'[c] : requests'[c][j] = requests[c][k]
      <4>1. PICK j \in DOMAIN requests'[c] : requests'[c][j] = requests[c][k]
        BY <3>4
      <4>2. j \in Nat
        OBVIOUS
      <4>3. IsRequest(c, j, "exists")' /\ requests'[c][j].node = watch[c]
        BY <3>1, <3>2, <4>1 DEF IsRequest
      <4>4. QED
        BY <4>2, <4>3
    <3>5. QED
      BY <1>2, <3>1, <3>2, <3>3, <3>4
  <2>5. QED
    BY <2>2, <2>3, <2>4 DEF WatchingInv
<1>3. QED
  BY <1>1, <1>2
\* Nothing is drawn, listed, found or asked for: sessions and processes come
\* to their end, znodes go when their owners are done, and messages are taken.
MovesOn(d) ==
  /\ phase'[d] = "init" => phase[d] = "init"
  /\ \/ session'[d] = session[d] \/ session'[d] = "expired"
     \/ session'[d] = "connected" /\ session[d] = "connecting"
KeepsZnode(d) ==
  \/ znode'[d] = znode[d] \/ session'[d] # "connected" \/ znode[d] = 0
  \/ seq_me[d] > 0 /\ execs[d] > 0
KeepsWatching(d) ==
  session'[d] # "expired" /\ faults'.loss = 0 =>
    /\ \A n \in Children' : <<d, n>> \in watches => <<d, n>> \in watches'
    /\ \A k \in DOMAIN requests[d] : requests[d][k].op = "exists" =>
         \/ requests[d][k].node \notin Children' \/ <<d, requests[d][k].node>> \in watches'
         \/ \E j \in DOMAIN requests'[d] : requests'[d][j] = requests[d][k]
WatchesBelow ==
  \A d \in Clients : \A n \in Int : <<d, n>> \in watches' => <<d, n>> \in watches \/ Below(d, n)
QuietMessages == Replied /\ \A op \in {"create", "delete", "exists"} : Requested(RequestsBut(op))
QuietState ==
  /\ Forgets /\ UNCHANGED <<nextSeq, seq_me, execs, watch>> /\ WatchesBelow
  /\ faults'.loss = 0 => faults.loss = 0
  /\ \A d \in Clients : MovesOn(d) /\ KeepsZnode(d) /\ KeepsWatching(d)

\* Such a step keeps the invariant.
LEMMA QuietKeepsIInv ==
  ASSUME IInv, TypeOK', QuietMessages, QuietState
  PROVE  IInv'
<1>1. Forgets /\ Replied /\ nextSeq' = nextSeq /\ seq_me' = seq_me /\ execs' = execs /\ watch' = watch /\ WatchesBelow
      /\ (faults'.loss = 0 => faults.loss = 0)
  BY DEF QuietMessages, QuietState
<1>0. RepliedBut("create")
  BY <1>1, HarmlessReplies
<1>2. Requested(RequestsBut("create")) /\ Requested(RequestsBut("delete")) /\ Requested(RequestsBut("exists"))
  BY DEF QuietMessages
<1>3. \A d \in Clients : MovesOn(d) /\ KeepsZnode(d) /\ KeepsWatching(d)
  BY DEF QuietState
<1>4. NumbersInv'
  BY <1>0, <1>1, NumbersQuiet DEF IInv
<1>5. CreateInv'
  BY <1>0, <1>1, <1>2, <1>3, CreateQuiet DEF IInv, MovesOn
<1>6. DeleteInv'
  BY <1>1, <1>2, DeleteQuiet DEF IInv
<1>7. OwnInv'
  <2>1. \A d \in Clients : session'[d] = "connected" => session[d] = "connected" \/ NotYet(d)
    BY <1>3 DEF IInv, MovesOn, CreateInv
  <2>2. \A d \in Clients : \/ znode'[d] = znode[d] \/ session'[d] # "connected" \/ znode[d] = 0
                           \/ seq_me[d] > 0 /\ execs[d] > 0
    BY <1>3 DEF KeepsZnode
  <2>3. OwnInv /\ CreateInv /\ NumbersInv /\ execs \in [Clients -> Nat]
    BY DEF IInv, TypeOK
  <2>4. QED
    BY <1>0, <1>1, <2>1, <2>2, <2>3, OwnQuiet
<1>8. ListsInv'
  BY <1>1, ListsQuiet DEF IInv
<1>9. WatchesInv'
  BY <1>1, <1>2, WatchesQuiet DEF IInv, WatchesBelow
<1>10. WatchingInv'
  <2>1. \A d \in Clients : session'[d] # "expired" => session[d] # "expired"
    BY <1>3 DEF MovesOn
  <2>2. \A d \in Clients : session'[d] # "expired" /\ faults'.loss = 0 /\ watch[d] \in Children' =>
          /\ <<d, watch[d]>> \in watches => <<d, watch[d]>> \in watches'
          /\ \A k \in DOMAIN requests[d] : requests[d][k].op = "exists" /\ requests[d][k].node = watch[d] =>
               \/ <<d, watch[d]>> \in watches'
               \/ \E j \in DOMAIN requests'[d] : requests'[d][j] = requests[d][k]
    BY <1>3 DEF KeepsWatching
  <2>3. nextSeq \in Nat /\ nextSeq' \in Nat /\ nextSeq' >= nextSeq /\ WatchingInv
        /\ requests' \in [Clients -> Seq(Requests)]
    BY <1>1 DEF IInv, TypeOK
  <2>4. \A v \in Children' : v \in Children \/ v = nextSeq
    BY <1>1, FewerChildren
  <2>5. QED
    BY <1>1, <2>1, <2>2, <2>3, <2>4, WatchingQuiet
<1>11. QED
  BY <1>4, <1>5, <1>6, <1>7, <1>8, <1>9, <1>10 DEF IInv

----------------------------------------------------------------------------
(* The steps. *)

\* A callback that at most asks for the children, or reports the end.
LEMMA CallbackQuiet ==
  ASSUME IInv, NEW c \in Clients, NEW op, Receive(c, op),
         UNCHANGED <<seq_me, watch, execs>>, quit' \in [Clients -> BOOLEAN],
         GetChildren(c) \/ UNCHANGED <<requests, phase>>
  PROVE  IInv'
<1>1. TypeOK /\ QueuesOK
  BY DEF IInv, TypeOK, QueuesOK
<1>2. Replied /\ replies' \in [Clients -> Seq(Messages)]
  BY <1>1, ReceiveKeeps
<1>3. UNCHANGED <<znode, nextSeq, watches, session, faults>>
  BY DEF Receive, serverVars
<1>4. /\ requests' \in [Clients -> Seq(Requests)] /\ ExistsKept
      /\ \A o \in {"create", "delete", "exists"} : Requested(RequestsBut(o))
      /\ phase' = phase \/ phase' = [phase EXCEPT ![c] = "dead"]
  <2>1. CASE GetChildren(c)
    <3>1. [op |-> "children"] \in Requests /\ [op |-> "children"].op = "children"
      BY RequestsMade
    <3>2. Send(c, [op |-> "children"]) /\ (phase' = phase \/ phase' = [phase EXCEPT ![c] = "dead"])
      BY <2>1 DEF GetChildren
    <3>3. QED
      BY <1>1, <3>1, <3>2, SendKeeps
  <2>2. CASE UNCHANGED <<requests, phase>>
    BY <1>1, <2>2, RequestsSame
  <2>3. QED
    BY <2>1, <2>2
<1>5. TypeOK'
  BY <1>1, <1>2, <1>3, <1>4 DEF TypeOK
<1>6. QuietMessages
  BY <1>2, <1>4 DEF QuietMessages
<1>7. Forgets /\ WatchesBelow
  BY <1>3 DEF Forgets, WatchesBelow
<1>8. ASSUME NEW d \in Clients PROVE MovesOn(d) /\ KeepsZnode(d) /\ KeepsWatching(d)
  <2>1. MovesOn(d) /\ KeepsZnode(d)
    BY <1>1, <1>3, <1>4 DEF MovesOn, KeepsZnode, TypeOK
  <2>2. KeepsWatching(d)
    BY <1>3, <1>4 DEF KeepsWatching, ExistsKept
  <2>3. QED
    BY <2>1, <2>2
<1>9. QuietState
  BY <1>3, <1>7, <1>8 DEF QuietState
<1>10. QED
  BY <1>5, <1>6, <1>9, QuietKeepsIInv

\* The callbacks that do nothing, or only ask for the children.
LEMMA QuietCallbacks ==
  ASSUME IInv, NEW c \in Clients, ChildrenFailed(c) \/ ExistsDone(c) \/ DeleteDone(c) \/ Watcher(c)
  PROVE  IInv'
<1>1. quit \in [Clients -> BOOLEAN]
  BY DEF IInv, TypeOK
<1>2. CASE ChildrenFailed(c)
  <2>1. Receive(c, "children") /\ UNCHANGED <<seq_me, watch, execs>> /\ quit' = quit /\ UNCHANGED <<requests, phase>>
    BY <1>2 DEF ChildrenFailed, procVars
  <2>2. QED
    BY <1>1, <2>1, CallbackQuiet
<1>3. CASE ExistsDone(c)
  <2>1. Receive(c, "exists") /\ UNCHANGED <<seq_me, watch, execs>> /\ quit' = quit /\ UNCHANGED <<requests, phase>>
    BY <1>3 DEF ExistsDone, procVars
  <2>2. QED
    BY <1>1, <2>1, CallbackQuiet
<1>4. CASE DeleteDone(c)
  <2>1. Receive(c, "delete") /\ UNCHANGED <<seq_me, watch, execs>> /\ quit' = [quit EXCEPT ![c] = TRUE]
        /\ UNCHANGED <<requests, phase>>
    BY <1>4 DEF DeleteDone
  <2>2. quit' \in [Clients -> BOOLEAN]
    BY <1>1, <2>1
  <2>3. QED
    BY <2>1, <2>2, CallbackQuiet
<1>5. CASE Watcher(c)
  <2>1. PICK op \in {"watch", "session"} : Receive(c, op)
    BY <1>5 DEF Watcher
  <2>2. UNCHANGED <<seq_me, watch, execs>> /\ quit' = quit /\ (GetChildren(c) \/ UNCHANGED <<requests, phase>>)
    BY <1>5 DEF Watcher
  <2>3. QED
    BY <1>1, <2>1, <2>2, CallbackQuiet
<1>6. QED
  BY <1>2, <1>3, <1>4, <1>5
\* A watch is set.
LEMMA ServeExistsKeeps ==
  ASSUME IInv, NEW c \in Clients, ServeExists(c)
  PROVE  IInv'
<1> DEFINE n == Head(requests[c]).node
           rc == IF n \in Children THEN "ok" ELSE "nonode"
<1>1. TypeOK /\ QueuesOK
  BY DEF IInv, TypeOK, QueuesOK
<1>2. /\ Serve(c, "exists") /\ UNCHANGED <<session, procVars, faults, znode, nextSeq>>
      /\ watches' = IF n \in Children THEN watches \cup {<<c, n>>} ELSE watches
      /\ Answer(c, [op |-> "exists", rc |-> rc, node |-> n])
  BY DEF ServeExists, Serve
<1>3. /\ \A H : Requested(H)
      /\ requests' \in [Clients -> Seq(Requests)]
      /\ Head(requests[c]) \in Requests /\ IsRequest(c, 1, "exists") /\ Head(requests[c]) = requests[c][1]
      /\ \A d \in Clients : d # c => requests'[d] = requests[d]
      /\ \A k \in DOMAIN requests[c] : k # 1 =>
           k - 1 \in DOMAIN requests'[c] /\ requests'[c][k - 1] = requests[c][k]
  BY <1>1, <1>2, ServeKeeps
<1>4. n \in Int /\ Below(c, n)
  <2>1. n = requests[c][1].node /\ requests[c][1].op = "exists"
    BY <1>3 DEF IsRequest
  <2>2. n \in Int
    BY <1>3, <2>1, MessagesRead
  <2>3. Below(c, n)
    BY <1>3, <2>1 DEF IInv, WatchesInv
  <2>4. QED
    BY <2>2, <2>3
<1>5. Replied /\ replies' \in [Clients -> Seq(Messages)]
  <2>1. rc \in {"ok", "nonode"}
    OBVIOUS
  <2> HIDE DEF n, rc
  <2>2. [op |-> "exists", rc |-> rc, node |-> n] \in Harmless
    BY <1>4, <2>1, MessagesMade
  <2>3. QED
    BY <1>1, <1>2, <2>2, AnswerHarmless
<1> HIDE DEF n
<1>6. TypeOK'
  BY <1>1, <1>2, <1>3, <1>4, <1>5 DEF TypeOK, procVars
<1>7. QuietMessages
  BY <1>3, <1>5 DEF QuietMessages
<1>8. Forgets /\ WatchesBelow
  BY <1>2, <1>4 DEF Forgets, WatchesBelow
<1>9. ASSUME NEW d \in Clients PROVE MovesOn(d) /\ KeepsZnode(d) /\ KeepsWatching(d)
  <2>1. MovesOn(d) /\ KeepsZnode(d)
    BY <1>2 DEF MovesOn, KeepsZnode, procVars
  <2>2. Children' = Children /\ watches \subseteq watches'
    BY <1>2 DEF Children
  <2>3. CASE d # c
    BY <1>3, <2>1, <2>2, <2>3 DEF KeepsWatching
  <2>4. CASE d = c
    <3>1. n \in Children => <<c, n>> \in watches'
      BY <1>2
    <3>2. ASSUME NEW k \in DOMAIN requests[c], requests[c][k].op = "exists"
          PROVE  \/ requests[c][k].node \notin Children' \/ <<c, requests[c][k].node>> \in watches'
                 \/ \E j \in DOMAIN requests'[c] : requests'[c][j] = requests[c][k]
      <4>1. CASE k = 1
        BY <1>3, <2>2, <3>1, <4>1 DEF n
      <4>2. CASE k # 1
        BY <1>3, <4>2
      <4>3. QED
        BY <4>1, <4>2
    <3>3. QED
      BY <2>1, <2>2, <2>4, <3>2 DEF KeepsWatching
  <2>5. QED
    BY <2>1, <2>3, <2>4
<1>10. QuietState
  BY <1>2, <1>8, <1>9 DEF QuietState, procVars
<1>11. QED
  BY <1>1, <1>6, <1>7, <1>10, QuietKeepsIInv

\* A znode is deleted at the request of its owner, or was the first of all.
LEMMA ServeDeleteKeeps ==
  ASSUME IInv, NEW c \in Clients, ServeDelete(c)
  PROVE  IInv'
<1> DEFINE n == Head(requests[c]).node
<1>1. TypeOK /\ QueuesOK
  BY DEF IInv, TypeOK, QueuesOK
<1>2. Serve(c, "delete") /\ UNCHANGED <<session, procVars, faults, nextSeq>>
  BY DEF ServeDelete, Serve
<1>3. /\ \A H : Requested(H)
      /\ requests' \in [Clients -> Seq(Requests)] /\ ExistsKept
      /\ Head(requests[c]) \in Requests /\ IsRequest(c, 1, "delete") /\ Head(requests[c]) = requests[c][1]
  BY <1>1, <1>2, ServeKeeps
<1>4. n \in {None, 0} \/ (n = seq_me[c] /\ execs[c] > 0)
  BY <1>3 DEF IInv, DeleteInv
<1>5. n \in Int \cup {None}
  BY <1>3, MessagesRead DEF IsRequest
<1>6. /\ Replied /\ replies' \in [Clients -> Seq(Messages)]
      /\ Forgets /\ znode' \in [Clients -> Int \cup {None}]
      /\ watches' \subseteq watches
      /\ \A d \in Clients : znode[d] # n => znode'[d] = znode[d]
      /\ \A d \in Clients, v \in Children' : <<d, v>> \in watches => <<d, v>> \in watches'
  <2>1. CASE n \in Children
    <3>1. Remove(n, c, <<[op |-> "delete", rc |-> "ok"]>>) /\ watches' = {p \in watches : p[2] # n}
      BY <2>1 DEF ServeDelete
    <3>2. [op |-> "delete", rc |-> "ok"] \in Harmless
      BY MessagesMade
    <3>3. <<[op |-> "delete", rc |-> "ok"]>> \in Seq(Harmless)
      BY <3>2
    <3>4. n # None
      BY <2>1 DEF Children
    <3>5. /\ Replied /\ replies' \in [Clients -> Seq(Messages)]
          /\ Forgets /\ znode' \in [Clients -> Int \cup {None}]
          /\ \A d \in Clients : znode[d] # n => znode'[d] = znode[d]
          /\ n \notin Children'
      <4> HIDE DEF n
      <4>1. QED
        BY <1>1, <1>5, <3>1, <3>3, <3>4, RemoveKeeps
    <3>6. QED
      BY <3>1, <3>5
  <2>2. CASE n \notin Children
    <3>1. Answer(c, [op |-> "delete", rc |-> "nonode"]) /\ UNCHANGED <<znode, watches>>
      BY <2>2 DEF ServeDelete
    <3>2. [op |-> "delete", rc |-> "nonode"] \in Harmless
      BY MessagesMade
    <3>3. Replied /\ replies' \in [Clients -> Seq(Messages)]
      BY <1>1, <3>1, <3>2, AnswerHarmless
    <3>4. QED
      BY <1>1, <3>1, <3>3 DEF Forgets, TypeOK
  <2>3. QED
    BY <2>1, <2>2
<1> HIDE DEF n
<1>7. TypeOK'
  BY <1>1, <1>2, <1>3, <1>6 DEF TypeOK, procVars
<1>8. QuietMessages
  BY <1>3, <1>6 DEF QuietMessages
<1>9. ASSUME NEW d \in Clients PROVE MovesOn(d) /\ KeepsZnode(d) /\ KeepsWatching(d)
  <2>1. MovesOn(d) /\ KeepsWatching(d)
    BY <1>2, <1>3, <1>6 DEF MovesOn, KeepsWatching, ExistsKept, procVars
  <2>2. KeepsZnode(d)
    <3>1. CASE znode[d] # n
      BY <1>6, <3>1 DEF KeepsZnode
    <3>2. CASE n = 0 /\ znode[d] = n
      BY <3>2 DEF KeepsZnode
    <3>3. CASE n = None /\ znode[d] = n
      BY <1>6, <3>3 DEF KeepsZnode, Forgets
    <3>4. CASE n = seq_me[c] /\ execs[c] > 0 /\ znode[d] = n /\ n # 0
      <4>1. n \in Nat /\ n > 0
        BY <3>4 DEF IInv, NumbersInv
      <4>2. Drawn(c, n) /\ Drawn(d, n)
        BY <3>4, <4>1 DEF Drawn
      <4>3. c = d
        BY <4>1, <4>2 DEF IInv, NumbersInv
      <4>4. QED
        BY <3>4, <4>1, <4>3 DEF KeepsZnode
    <3>5. QED
      BY <1>4, <3>1, <3>2, <3>3, <3>4
  <2>3. QED
    BY <2>1, <2>2
<1>10. QuietState
  BY <1>2, <1>6, <1>9 DEF QuietState, WatchesBelow, procVars
<1>11. QED
  BY <1>7, <1>8, <1>10, QuietKeepsIInv

\* A session is established.
LEMMA ConnectKeeps ==
  ASSUME IInv, NEW c \in Clients, Connect(c)
  PROVE  IInv'
<1>1. TypeOK /\ QueuesOK
  BY DEF IInv, TypeOK, QueuesOK
<1>2. /\ session[c] = "connecting" /\ session' = [session EXCEPT ![c] = "connected"]
      /\ Answer(c, SessionEvent)
      /\ UNCHANGED <<znode, nextSeq, watches, requests, phase, seq_me, watch, quit, execs, faults>>
  BY DEF Connect, Answer, serverVars, procVars
<1>3. SessionEvent \in Harmless
  BY MessagesMade
<1>4. Replied /\ replies' \in [Clients -> Seq(Messages)]
  BY <1>1, <1>2, <1>3, AnswerHarmless
<1>5. (\A H : Requested(H)) /\ ExistsKept
  BY <1>1, <1>2, RequestsSame
<1>6. TypeOK'
  BY <1>1, <1>2, <1>4 DEF TypeOK
<1>7. QuietMessages
  BY <1>4, <1>5 DEF QuietMessages
<1>8. \A d \in Clients : MovesOn(d) /\ KeepsZnode(d) /\ KeepsWatching(d)
  BY <1>1, <1>2, <1>5 DEF MovesOn, KeepsZnode, KeepsWatching, ExistsKept, TypeOK
<1>9. QuietState
  BY <1>2, <1>8 DEF QuietState, WatchesBelow, Forgets
<1>10. QED
  BY <1>6, <1>7, <1>9, QuietKeepsIInv

\* A session ends, whatever else is told.
LEMMA EndSessionQuiet ==
  ASSUME IInv, NEW c \in Clients, NEW own \in Seq(Harmless), EndSession(c, own),
         UNCHANGED <<seq_me, watch, quit, execs>>,
         phase' = phase \/ phase' = [phase EXCEPT ![c] = "closed"],
         faults' \in [crash : 0..MaxFaults, loss : 0..MaxFaults, expire : 0..MaxFaults], faults'.loss = faults.loss
  PROVE  IInv'
<1>1. TypeOK /\ QueuesOK
  BY DEF IInv, TypeOK, QueuesOK
<1>2. /\ Replied /\ replies' \in [Clients -> Seq(Messages)]
      /\ Forgets /\ znode' \in [Clients -> Int \cup {None}] /\ nextSeq' = nextSeq
      /\ \A d \in Clients : znode[d] # znode[c] => znode'[d] = znode[d]
      /\ \A H : Requested(H)
      /\ requests' \in [Clients -> Seq(Requests)]
      /\ \A d \in Clients : d # c => requests'[d] = requests[d]
      /\ session' \in [Clients -> {"connecting", "connected", "expired"}]
      /\ session'[c] = "expired" /\ \A d \in Clients : d # c => session'[d] = session[d]
      /\ watches' \subseteq watches
      /\ \A d \in Clients : \A n \in Children' : d # c /\ <<d, n>> \in watches => <<d, n>> \in watches'
  BY <1>1, EndSessionKeeps
<1>3. TypeOK'
  BY <1>1, <1>2 DEF TypeOK
<1>4. QuietMessages
  BY <1>2 DEF QuietMessages
<1>5. ASSUME NEW d \in Clients PROVE MovesOn(d) /\ KeepsZnode(d) /\ KeepsWatching(d)
  <2>1. MovesOn(d) /\ KeepsWatching(d)
    <3>1. MovesOn(d)
      <4>1. phase'[d] = "init" => phase[d] = "init"
        BY <1>1 DEF TypeOK
      <4>2. session'[d] = session[d] \/ session'[d] = "expired"
        BY <1>2
      <4>3. QED
        BY <4>1, <4>2 DEF MovesOn
    <3>2. KeepsWatching(d)
      <4>1. CASE d = c
        BY <1>2, <4>1 DEF KeepsWatching
      <4>2. CASE d # c
        BY <1>2, <4>2 DEF KeepsWatching
      <4>3. QED
        BY <4>1, <4>2
    <3>3. QED
      BY <3>1, <3>2
  <2>2. KeepsZnode(d)
    <3>1. CASE d = c
      BY <1>2, <3>1 DEF KeepsZnode
    <3>2. CASE znode[d] # znode[c] \/ znode[d] = None
      BY <1>2, <3>2 DEF KeepsZnode, Forgets
    <3>3. CASE d # c /\ znode[d] = znode[c] /\ znode[d] # None
      <4>1. Drawn(c, znode[c]) /\ Drawn(d, znode[c]) /\ znode[c] \in Nat
        BY <3>3 DEF Drawn, IInv, NumbersInv
      <4>2. QED
        BY <3>3, <4>1 DEF IInv, NumbersInv
    <3>4. QED
      BY <3>1, <3>2, <3>3
  <2>3. QED
    BY <2>1, <2>2
<1>6. QuietState
  BY <1>2, <1>5 DEF QuietState, WatchesBelow
<1>7. QED
  BY <1>3, <1>4, <1>6, QuietKeepsIInv
\* One more fault is counted.
LEMMA FaultCounted ==
  ASSUME TypeOK, NEW fault \in {"crash", "loss", "expire"}, Happens(fault)
  PROVE  /\ faults' \in [crash : 0..MaxFaults, loss : 0..MaxFaults, expire : 0..MaxFaults]
         /\ fault = "loss" => faults'.loss > 0
         /\ fault # "loss" => faults'.loss = faults.loss
<1>1. faults.crash \in 0..MaxFaults /\ faults.loss \in 0..MaxFaults /\ faults.expire \in 0..MaxFaults
      /\ faults = [crash |-> faults.crash, loss |-> faults.loss, expire |-> faults.expire]
  BY DEF TypeOK
<1>2. faults.crash + faults.loss + faults.expire < MaxFaults /\ faults' = [faults EXCEPT ![fault] = @ + 1]
  BY DEF Happens
<1>3. MaxFaults \in Nat
  BY FaultsAssumption
<1>4. CASE fault = "crash"
  <2>1. faults' = [crash |-> faults.crash + 1, loss |-> faults.loss, expire |-> faults.expire]
    BY <1>1, <1>2, <1>4
  <2>2. faults.crash + 1 \in 0..MaxFaults
    BY <1>1, <1>2, <1>3
  <2>3. QED
    BY <1>1, <1>4, <2>1, <2>2
<1>5. CASE fault = "loss"
  <2>1. faults' = [crash |-> faults.crash, loss |-> faults.loss + 1, expire |-> faults.expire]
    BY <1>1, <1>2, <1>5
  <2>2. faults.loss + 1 \in 0..MaxFaults /\ faults.loss + 1 > 0
    BY <1>1, <1>2, <1>3
  <2>3. QED
    BY <1>1, <1>5, <2>1, <2>2
<1>6. CASE fault = "expire"
  <2>1. faults' = [crash |-> faults.crash, loss |-> faults.loss, expire |-> faults.expire + 1]
    BY <1>1, <1>2, <1>6
  <2>2. faults.expire + 1 \in 0..MaxFaults
    BY <1>1, <1>2, <1>3
  <2>3. QED
    BY <1>1, <1>6, <2>1, <2>2
<1>7. QED
  BY <1>4, <1>5, <1>6

\* What is told of requests that got no answer says nothing of numbers.
LEMMA FailedHarmless ==
  ASSUME NEW A, NEW lost \in Seq(A), \A m \in A : m.op \in {"create", "children", "exists", "delete"}
  PROVE  Failed(lost) \in Seq(Harmless)
<1>1. \A k \in 1..Len(lost) : lost[k] \in A
  OBVIOUS
<1>2. \A k \in 1..Len(lost) : [op |-> lost[k].op, rc |-> "error"] \in Harmless
  BY <1>1, MessagesMade
<1>3. Failed(lost) = [k \in 1..Len(lost) |-> [op |-> lost[k].op, rc |-> "error"]] /\ Len(lost) \in Nat
  BY DEF Failed
<1>4. \A H : \A s : (\E n \in Nat : s \in [1..n -> H]) => s \in Seq(H)
  OBVIOUS
<1>5. Failed(lost) \in [1..Len(lost) -> Harmless]
  BY <1>2, <1>3
<1>6. QED
  BY <1>3, <1>4, <1>5

\* The ends of sessions: of a dead, an ending and a cut off process.
LEMMA SessionEndsKeep ==
  ASSUME IInv, NEW c \in Clients, SessionTimeout(c) \/ MainClose(c) \/ Expire(c)
  PROVE  IInv'
<1>1. TypeOK
  BY DEF IInv
<1>2. faults \in [crash : 0..MaxFaults, loss : 0..MaxFaults, expire : 0..MaxFaults] /\ <<>> \in Seq(Harmless)
  BY <1>1 DEF TypeOK
<1>3. CASE SessionTimeout(c)
  <2>1. EndSession(c, <<>>) /\ UNCHANGED <<seq_me, watch, quit, execs>> /\ phase' = phase /\ faults' = faults
    BY <1>3 DEF SessionTimeout, procVars
  <2>2. QED
    BY <1>2, <2>1, EndSessionQuiet
<1>4. CASE MainClose(c)
  <2>1. EndSession(c, <<>>) /\ UNCHANGED <<seq_me, watch, quit, execs>> /\ phase' = [phase EXCEPT ![c] = "closed"]
        /\ faults' = faults
    BY <1>4 DEF MainClose
  <2>2. QED
    BY <1>2, <2>1, EndSessionQuiet
<1>5. CASE Expire(c)
  <2>1. EndSession(c, Failed(requests[c]) \o <<SessionEvent>>) /\ UNCHANGED <<seq_me, watch, quit, execs>>
        /\ phase' = phase /\ Happens("expire")
    BY <1>5 DEF Expire, procVars
  <2>2. requests[c] \in Seq(Requests) /\ \A r \in Requests : r.op \in {"create", "children", "exists", "delete"}
    BY <1>1, MessagesRead DEF TypeOK
  <2>3. Failed(requests[c]) \in Seq(Harmless)
    BY <2>2, FailedHarmless
  <2>4. <<SessionEvent>> \in Seq(Harmless)
    BY MessagesMade
  <2>5. Failed(requests[c]) \o <<SessionEvent>> \in Seq(Harmless)
    BY <2>3, <2>4
  <2>6. faults' \in [crash : 0..MaxFaults, loss : 0..MaxFaults, expire : 0..MaxFaults] /\ faults'.loss = faults.loss
    BY <1>1, <2>1, FaultCounted
  <2>7. QED
    BY <2>1, <2>5, <2>6, EndSessionQuiet
<1>6. QED
  BY <1>3, <1>4, <1>5

\* A process dies.
LEMMA CrashKeeps ==
  ASSUME IInv, NEW c \in Clients, Crash(c)
  PROVE  IInv'
<1>1. TypeOK /\ QueuesOK
  BY DEF IInv, TypeOK, QueuesOK
<1>2. /\ Happens("crash") /\ phase' = [phase EXCEPT ![c] = "dead"] /\ replies' = [replies EXCEPT ![c] = <<>>]
      /\ UNCHANGED <<znode, nextSeq, watches, session, requests, seq_me, watch, quit, execs>>
  BY DEF Crash, serverVars
<1>3. Replied /\ replies' \in [Clients -> Seq(Messages)]
  <2>1. \A d \in Clients : replies[d] \in Seq(Messages)
    BY <1>1 DEF TypeOK
  <2>2. \A d \in Clients : Follows(Harmless, replies[d], replies[d]) /\ Follows(Harmless, replies[d], <<>>)
    BY <2>1, FollowsSame, FollowsEmpty
  <2>3. \A d \in Clients : replies'[d] \in {replies[d], <<>>}
    BY <1>2, <2>1 DEF QueuesOK
  <2>4. Replied
    BY <2>2, <2>3 DEF Replied
  <2>5. QED
    BY <1>1, <1>2, <2>4 DEF QueuesOK
<1>4. (\A H : Requested(H)) /\ ExistsKept
  BY <1>1, <1>2, RequestsSame
<1>5. faults' \in [crash : 0..MaxFaults, loss : 0..MaxFaults, expire : 0..MaxFaults] /\ faults'.loss = faults.loss
  BY <1>1, <1>2, FaultCounted
<1>6. TypeOK'
  BY <1>1, <1>2, <1>3, <1>5 DEF TypeOK
<1>7. QuietMessages
  BY <1>3, <1>4 DEF QuietMessages
<1>8. \A d \in Clients : MovesOn(d) /\ KeepsZnode(d) /\ KeepsWatching(d)
  BY <1>1, <1>2, <1>4 DEF MovesOn, KeepsZnode, KeepsWatching, ExistsKept, TypeOK
<1>9. QuietState
  BY <1>2, <1>5, <1>8 DEF QuietState, WatchesBelow, Forgets
<1>10. QED
  BY <1>6, <1>7, <1>9, QuietKeepsIInv

\* A connection is lost: what is told then says nothing of numbers.
LEMMA LoseConnectionKeeps ==
  ASSUME IInv, NEW c \in Clients, LoseConnection(c)
  PROVE  IInv'
<1>1. TypeOK /\ QueuesOK
  BY DEF IInv, TypeOK, QueuesOK
<1>2. Happens("loss") /\ requests' = [requests EXCEPT ![c] = <<>>]
      /\ UNCHANGED <<znode, nextSeq, session, phase, seq_me, watch, quit, execs>>
  BY DEF LoseConnection, procVars
<1>3. PICK k \in 0..Len(replies[c]) :
       LET forgotten == {r.node : r \in {q \in Range(Lost(c, k)) : q.op = "exists"}}
           fired == Only(Cut(c, k), {r \in Events(c, k) : r.node \notin forgotten})
       IN /\ CanCut(c, k)
          /\ replies' = [replies EXCEPT ![c] = SubSeq(@, 1, k) \o <<SessionEvent>> \o Failed(Lost(c, k))
                                                 \o fired \o <<SessionEvent>>]
          /\ watches' = {p \in watches : p[1] # c \/ p[2] \notin forgotten}
  BY DEF LoseConnection
<1> DEFINE forgotten == {r.node : r \in {q \in Range(Lost(c, k)) : q.op = "exists"}}
           keep == {r \in Events(c, k) : r.node \notin forgotten}
           fired == Only(Cut(c, k), keep)
           more == <<SessionEvent>> \o Failed(Lost(c, k)) \o fired \o <<SessionEvent>>
<1>4. replies[c] \in Seq(Messages) /\ requests[c] \in Seq(Requests)
  BY <1>1 DEF TypeOK
<1>5. Cut(c, k) \in Seq(Messages)
  BY <1>4 DEF Cut
<1>6. Failed(Lost(c, k)) \in Seq(Harmless)
  <2> DEFINE others == Range(Cut(c, k)) \ Events(c, k)
             A == (Messages \cap others) \cup Requests
  <2>1. Only(Cut(c, k), others) \in Seq(Messages \cap others)
    BY <1>5, OnlyInSet
  <2>2. Lost(c, k) \in Seq(A)
    <3>1. Lost(c, k) = Only(Cut(c, k), others) \o requests[c]
      BY DEF Lost
    <3>2. Only(Cut(c, k), others) \in Seq(A) /\ requests[c] \in Seq(A)
      BY <1>4, <2>1
    <3> HIDE DEF others, A
    <3>3. QED
      BY <3>1, <3>2
  <2>3. \A m \in A : m.op \in {"create", "children", "exists", "delete"}
    <3>1. \A m \in others : m.op \notin {"watch", "session"}
      BY DEF Events
    <3> HIDE DEF others
    <3>2. QED
      BY <3>1, MessagesRead
  <2> HIDE DEF A
  <2>4. QED
    BY <2>2, <2>3, FailedHarmless
<1>7. fired \in Seq(Harmless)
  <2>1. fired \in Seq(Messages \cap keep)
    <3> HIDE DEF keep
    <3>1. QED
      BY <1>5, OnlyInSet
  <2>2. Messages \cap keep \subseteq Harmless
    BY MessagesRead DEF Events
  <2> HIDE DEF fired, keep
  <2>3. QED
    BY <2>1, <2>2
<1>8. <<SessionEvent>> \in Seq(Harmless) /\ <<SessionEvent>> \in Seq(Messages)
  BY MessagesMade
<1>9. Harmless \cap Messages = Harmless /\ \A s \in Seq(Harmless) : s \in Seq(Messages)
  BY MessagesMade
<1> HIDE DEF keep, fired, forgotten
<1>10. more \in Seq(Harmless)
  <2>1. \A p, q, r, t \in Seq(Harmless) : p \o q \o r \o t \in Seq(Harmless)
    OBVIOUS
  <2>2. QED
    BY <1>6, <1>7, <1>8, <2>1
<1>11. replies' = [replies EXCEPT ![c] = SubSeq(replies[c], 1, k) \o more]
  <2>1. SubSeq(replies[c], 1, k) \in Seq(Messages)
    BY <1>4
  <2>3. SubSeq(replies[c], 1, k) \o <<SessionEvent>> \o Failed(Lost(c, k)) \o fired \o <<SessionEvent>>
          = SubSeq(replies[c], 1, k) \o more
    <3> DEFINE lost == Failed(Lost(c, k))
               event == <<SessionEvent>>
               kept == SubSeq(replies[c], 1, k)
    <3>1. lost \in Seq(Messages) /\ fired \in Seq(Messages) /\ event \in Seq(Messages) /\ kept \in Seq(Messages)
      BY <1>6, <1>7, <1>8, <1>9, <2>1
    <3> HIDE DEF lost, event, kept
    <3>2. kept \o event \o lost \o fired \o event = kept \o (event \o lost \o fired \o event)
      <4>1. event \o lost \in Seq(Messages) /\ (event \o lost) \o fired \in Seq(Messages)
        BY <3>1
      <4> DEFINE told == event \o lost
                 all == told \o fired
      <4> HIDE DEF told, all
      <4>2. told \in Seq(Messages) /\ all \in Seq(Messages)
        BY <4>1 DEF told, all
      <4>3. kept \o (all \o event) = (kept \o all) \o event
        BY <3>1, <4>2
      <4>4. kept \o (told \o fired) = (kept \o told) \o fired
        BY <3>1, <4>2
      <4>5. kept \o (event \o lost) = (kept \o event) \o lost
        BY <3>1
      <4>6. kept \o (all \o event) = (((kept \o event) \o lost) \o fired) \o event
        <5>1. kept \o all = (kept \o told) \o fired
          BY <4>4 DEF all
        <5>2. kept \o told = (kept \o event) \o lost
          BY <4>5 DEF told
        <5>3. QED
          BY <4>3, <5>1, <5>2
      <4>7. QED
        BY <4>6 DEF all, told
    <3>3. QED
      BY <3>2 DEF lost, event, kept
  <2>4. replies' = [replies EXCEPT ![c] = SubSeq(@, 1, k) \o <<SessionEvent>> \o Failed(Lost(c, k))
                                                 \o fired \o <<SessionEvent>>]
    BY <1>3 DEF forgotten, fired, keep
  <2>5. QED
    BY <2>3, <2>4
<1> HIDE DEF more
<1>12. Replied /\ replies' \in [Clients -> Seq(Messages)]
  <2>1. \A d \in Clients : replies[d] \in Seq(Messages)
    BY <1>1 DEF TypeOK
  <2>2. \A d \in Clients : Follows(Harmless, replies[d], replies[d])
    BY <2>1, FollowsSame
  <2>3. Follows(Harmless, replies[c], SubSeq(replies[c], 1, k) \o more)
        /\ SubSeq(replies[c], 1, k) \o more \in Seq(Messages)
    BY <1>4, <1>9, <1>10, FollowsCut
  <2>4. Replied
    BY <1>11, <2>2, <2>3 DEF Replied, QueuesOK, TypeOK
  <2>5. QED
    BY <1>1, <1>11, <2>3, <2>4 DEF QueuesOK
<1>13. (\A H : Requested(H)) /\ requests' \in [Clients -> Seq(Requests)]
  BY <1>1, <1>2, RequestsDropped
<1>14. faults' \in [crash : 0..MaxFaults, loss : 0..MaxFaults, expire : 0..MaxFaults] /\ faults'.loss > 0
  BY <1>1, <1>2, FaultCounted
<1>15. watches' \subseteq watches
  BY <1>3
<1>16. TypeOK'
  BY <1>1, <1>2, <1>12, <1>13, <1>14, <1>15 DEF TypeOK
<1>17. QuietMessages
  BY <1>12, <1>13 DEF QuietMessages
<1>18. \A d \in Clients : MovesOn(d) /\ KeepsZnode(d) /\ KeepsWatching(d)
  BY <1>2, <1>14 DEF MovesOn, KeepsZnode, KeepsWatching
<1>19. QuietState
  BY <1>2, <1>14, <1>15, <1>18 DEF QuietState, WatchesBelow, Forgets
<1>20. QED
  BY <1>16, <1>17, <1>19, QuietKeepsIInv
\* A process asks for its znode, once.
LEMMA MainCreateKeeps ==
  ASSUME IInv, NEW c \in Clients, MainCreate(c)
  PROVE  IInv'
<1>1. TypeOK /\ QueuesOK
  BY DEF IInv, TypeOK, QueuesOK
<1>2. /\ phase[c] = "init" /\ Send(c, [op |-> "create"])
      /\ UNCHANGED <<znode, nextSeq, watches, session, replies, seq_me, watch, quit, execs, faults>>
      /\ phase' = [phase EXCEPT ![c] = IF session[c] = "expired" THEN "dead" ELSE "running"]
  BY DEF MainCreate, serverVars
<1>3. [op |-> "create"] \in Requests /\ [op |-> "create"].op = "create"
  BY RequestsMade
<1>4. /\ \A o : o # "create" => Requested(RequestsBut(o))
      /\ requests' \in [Clients -> Seq(Requests)]
      /\ ExistsKept
      /\ \A d \in Clients : d # c => requests'[d] = requests[d]
      /\ session[c] = "expired" => requests' = requests
      /\ session[c] # "expired" =>
           /\ DOMAIN requests'[c] = 1..(Len(requests[c]) + 1)
           /\ \A k \in 1..Len(requests[c]) : k \in DOMAIN requests[c] /\ requests'[c][k] = requests[c][k]
  BY <1>1, <1>2, <1>3, SendKeeps
<1>5. Replied /\ RepliedBut("create") /\ Forgets
  BY <1>1, <1>2, RepliesSame, HarmlessReplies DEF Forgets
<1>6. \A d \in Clients : d # c => phase'[d] = phase[d]
  BY <1>1, <1>2 DEF TypeOK
<1>7. phase'[c] \in {"dead", "running"}
  BY <1>1, <1>2 DEF TypeOK
<1>8. TypeOK'
  BY <1>1, <1>2, <1>4, <1>7 DEF TypeOK
<1>9. NumbersInv'
  BY <1>2, <1>5, NumbersQuiet DEF IInv
<1>10. CreateInv'
  <2>1. \A d \in Clients : NotYet(d) => NotYet(d)'
    BY <1>2 DEF NotYet, IsCreated
  <2>2. \A d \in Clients, k \in Nat : IsCreated(d, k)' => IsCreated(d, k)
    BY <1>2 DEF IsCreated
  <2>3. NotYet(c) /\ \A k \in Nat : ~IsRequest(c, k, "create")
    BY <1>2 DEF IInv, CreateInv
  <2>4. ASSUME NEW j \in Nat, NEW k \in Nat, IsRequest(c, j, "create")', IsRequest(c, k, "create")' PROVE j = k
    <3>1. CASE session[c] = "expired"
      BY <1>4, <2>3, <2>4, <3>1 DEF IsRequest
    <3>2. CASE session[c] # "expired"
      <4>1. ASSUME NEW i \in Nat, IsRequest(c, i, "create")' PROVE i = Len(requests[c]) + 1
        <5>1. i \in 1..(Len(requests[c]) + 1) /\ Len(requests[c]) \in Nat
          BY <1>1, <1>4, <3>2, <4>1 DEF IsRequest, TypeOK
        <5>2. CASE i \in 1..Len(requests[c])
          BY <1>4, <2>3, <3>2, <4>1, <5>2 DEF IsRequest
        <5>3. QED
          BY <5>1, <5>2
      <4>2. QED
        BY <2>4, <4>1
    <3>3. QED
      BY <3>1, <3>2
  <2>5. ASSUME NEW d \in Clients, d # c, NEW k \in Nat, IsRequest(d, k, "create")' PROVE IsRequest(d, k, "create")
    BY <1>4, <2>5 DEF IsRequest
  <2>6. ASSUME NEW d \in Clients
        PROVE  /\ phase'[d] = "init" => NotYet(d)' /\ \A k \in Nat : ~IsRequest(d, k, "create")'
               /\ session'[d] = "connecting" => NotYet(d)'
               /\ \A j, k \in Nat : IsRequest(d, j, "create")' /\ IsRequest(d, k, "create")' => j = k /\ NotYet(d)'
    <3>1. CASE d = c
      BY <1>7, <2>1, <2>3, <2>4, <3>1
    <3>2. CASE d # c
      BY <1>2, <1>6, <2>1, <2>5, <3>2 DEF IInv, CreateInv
    <3>3. QED
      BY <3>1, <3>2
  <2>7. ASSUME NEW d \in Clients
        PROVE  /\ \A j, k \in Nat : IsCreated(d, j)' /\ IsCreated(d, k)' => j = k
               /\ \A k \in Nat : IsCreated(d, k)' => replies'[d][k].seq \in Nat /\ seq_me'[d] = 0
    BY <1>2, <2>2 DEF IInv, CreateInv
  <2>8. QED
    BY <2>6, <2>7 DEF CreateInv
<1>11. DeleteInv'
  BY <1>2, <1>4, DeleteQuiet DEF IInv
<1>12. OwnInv'
  <2>1. execs \in [Clients -> Nat]
    BY <1>1 DEF TypeOK
  <2>2. QED
    BY <1>2, <1>5, <2>1, OwnQuiet DEF IInv
<1>13. ListsInv'
  BY <1>2, <1>5, ListsQuiet DEF IInv
<1>14. WatchesInv'
  BY <1>2, <1>4, <1>5, WatchesQuiet DEF IInv
<1>15. WatchingInv'
  <2>1. nextSeq \in Nat /\ nextSeq' \in Nat /\ nextSeq' >= nextSeq
    BY <1>1, <1>2 DEF TypeOK
  <2>2. \A v \in Children' : v \in Children \/ v = nextSeq
    BY <1>5, FewerChildren
  <2>3. QED
    BY <1>2, <1>4, <2>1, <2>2, WatchingQuiet DEF IInv, ExistsKept
<1>16. QED
  BY <1>8, <1>9, <1>10, <1>11, <1>12, <1>13, <1>14, <1>15 DEF IInv

\* A list of children is made.
LEMMA ServeChildrenKeeps ==
  ASSUME IInv, NEW c \in Clients, ServeChildren(c)
  PROVE  IInv'
<1> DEFINE m == [op |-> "children", rc |-> "ok", strings |-> Children]
<1>1. TypeOK /\ QueuesOK
  BY DEF IInv, TypeOK, QueuesOK
<1>2. /\ Serve(c, "children") /\ Answer(c, m)
      /\ UNCHANGED <<znode, nextSeq, watches, session, phase, seq_me, watch, quit, execs, faults>>
  BY DEF ServeChildren, Serve, serverVars, procVars
<1>3. (\A H : Requested(H)) /\ requests' \in [Clients -> Seq(Requests)] /\ ExistsKept
  BY <1>1, <1>2, ServeKeeps
<1>4. Children \subseteq Nat
  BY DEF IInv, NumbersInv, Children
<1>5. m \in Messages
  BY <1>4, MessagesMade
<1>6. /\ m.op = "children" /\ m.rc = "ok" /\ m.strings = Children
      /\ m \in MessagesBut("create")
  BY <1>5 DEF MessagesBut
<1> HIDE DEF m
<1>7. /\ replies' \in [Clients -> Seq(Messages)]
      /\ \A H : m \in H => \A d \in Clients : Follows(H, replies[d], replies'[d])
      /\ \A d \in Clients : \A k \in DOMAIN replies'[d] :
           \/ k \in DOMAIN replies[d] /\ replies'[d][k] = replies[d][k]
           \/ d = c /\ replies'[d][k] = m /\ \A j \in DOMAIN replies'[d] : j <= k
  BY <1>1, <1>2, <1>5, AnswerKeeps
<1>8. RepliedBut("create") /\ Forgets
  BY <1>2, <1>6, <1>7 DEF RepliedBut, Forgets
<1>9. TypeOK'
  BY <1>1, <1>2, <1>3, <1>7 DEF TypeOK
<1>10. NumbersInv'
  BY <1>2, <1>8, NumbersQuiet DEF IInv
<1>11. CreateInv'
  BY <1>2, <1>3, <1>8, CreateQuiet DEF IInv
<1>12. DeleteInv'
  BY <1>2, <1>3, DeleteQuiet DEF IInv
<1>13. OwnInv'
  <2>1. execs \in [Clients -> Nat]
    BY <1>1 DEF TypeOK
  <2>2. QED
    BY <1>2, <1>8, <2>1, OwnQuiet DEF IInv
<1>14. ListsInv'
  <2>1. Children' = Children /\ seq_me' = seq_me
    BY <1>2 DEF Children
  <2>2. \A d \in Clients, j \in Nat : IsCreated(d, j)' => IsCreated(d, j) /\ replies'[d][j] = replies[d][j]
    BY <1>6, <1>7 DEF IsCreated
  <2>3. SUFFICES ASSUME NEW d \in Clients, NEW k \in Nat, IsList(d, k)'
                 PROVE  /\ replies'[d][k].strings \subseteq Nat
                        /\ seq_me[d] > 0 => Has(replies'[d][k].strings, Children, seq_me[d])
                        /\ \A j \in Nat : IsCreated(d, j)' /\ j < k => Has(replies'[d][k].strings, Children, replies'[d][j].seq)
    BY <2>1 DEF ListsInv
  <2>4. CASE k \in DOMAIN replies[d] /\ replies'[d][k] = replies[d][k]
    <3>1. IsList(d, k)
      BY <2>3, <2>4 DEF IsList
    <3>2. QED
      BY <2>2, <2>4, <3>1 DEF IInv, ListsInv
  <2>5. CASE replies'[d][k] = m
    BY <1>4, <1>6, <2>5 DEF Has
  <2>6. QED
    BY <1>7, <2>3, <2>4, <2>5 DEF IsList
<1>15. WatchesInv'
  BY <1>2, <1>3, <1>8, WatchesQuiet DEF IInv
<1>16. WatchingInv'
  <2>1. nextSeq \in Nat /\ nextSeq' \in Nat /\ nextSeq' >= nextSeq
    BY <1>1, <1>2 DEF TypeOK
  <2>2. \A v \in Children' : v \in Children \/ v = nextSeq
    BY <1>8, FewerChildren
  <2>3. QED
    BY <1>2, <1>3, <2>1, <2>2, WatchingQuiet DEF IInv, ExistsKept
<1>17. QED
  BY <1>9, <1>10, <1>11, <1>12, <1>13, <1>14, <1>15, <1>16 DEF IInv
\* A number is drawn.
LEMMA ServeCreateKeeps ==
  ASSUME IInv, NEW c \in Clients, ServeCreate(c)
  PROVE  IInv'
<1> DEFINE m == [op |-> "create", rc |-> "ok", seq |-> nextSeq]
<1>1. TypeOK /\ QueuesOK /\ nextSeq \in Nat
  BY DEF IInv, TypeOK, QueuesOK
<1>2. /\ Serve(c, "create") /\ Answer(c, m) /\ session[c] = "connected"
      /\ znode' = [znode EXCEPT ![c] = nextSeq] /\ nextSeq' = nextSeq + 1
      /\ UNCHANGED <<watches, session, phase, seq_me, watch, quit, execs, faults>>
  BY DEF ServeCreate, Serve, procVars
<1>3. /\ \A H : Requested(H)
      /\ requests' \in [Clients -> Seq(Requests)]
      /\ ExistsKept /\ IsRequest(c, 1, "create")
      /\ \A d \in Clients : d # c => requests'[d] = requests[d]
      /\ \A k \in DOMAIN requests'[c] : k + 1 \in DOMAIN requests[c] /\ requests'[c][k] = requests[c][k + 1]
  BY <1>1, <1>2, ServeKeeps
<1>4. m \in Messages
  BY <1>1, MessagesMade
<1>5. m.op = "create" /\ m.rc = "ok" /\ m.seq = nextSeq
  OBVIOUS
<1> HIDE DEF m
<1>6. /\ replies' \in [Clients -> Seq(Messages)]
      /\ \A d \in Clients : \A k \in DOMAIN replies'[d] :
           \/ k \in DOMAIN replies[d] /\ replies'[d][k] = replies[d][k]
           \/ d = c /\ replies'[d][k] = m /\ \A j \in DOMAIN replies'[d] : j <= k
  BY <1>1, <1>2, <1>4, AnswerKeeps
<1>7. NotYet(c) /\ phase[c] # "init"
  BY <1>3 DEF IInv, CreateInv
<1>8. znode'[c] = nextSeq /\ (\A d \in Clients : d # c => znode'[d] = znode[d])
      /\ \A v \in Children' : v \in Children \/ v = nextSeq
  <2>1. znode'[c] = nextSeq /\ \A d \in Clients : d # c => znode'[d] = znode[d]
    BY <1>1, <1>2 DEF TypeOK
  <2>2. QED
    BY <2>1 DEF Children
<1>9. \A d \in Clients, k \in Nat : IsCreated(d, k)' =>
        \/ IsCreated(d, k) /\ replies'[d][k] = replies[d][k]
        \/ d = c /\ replies'[d][k] = m /\ \A j \in DOMAIN replies'[d] : j <= k
  BY <1>6 DEF IsCreated
<1>10. \A d \in Clients, k \in Nat : IsList(d, k)' => IsList(d, k) /\ replies'[d][k] = replies[d][k]
  BY <1>5, <1>6 DEF IsList
<1>11. TypeOK'
  <2>1. nextSeq' \in Nat /\ nextSeq \in Int
    BY <1>1, <1>2
  <2>2. znode' \in [Clients -> Int \cup {None}]
    BY <1>1, <1>2, <2>1 DEF TypeOK
  <2>3. QED
    BY <1>1, <1>2, <1>3, <1>6, <2>1, <2>2 DEF TypeOK
<1>12. \A d \in Clients, n \in Nat : Drawn(d, n) => n < nextSeq
  BY DEF IInv, NumbersInv
<1>13. NumbersInv'
  <2>1. \A n \in Nat : ~Drawn(c, n)
    BY <1>7, NumbersAssumption DEF Drawn, NotYet
  <2>2. ASSUME NEW d \in Clients, NEW n \in Nat, Drawn(d, n)' PROVE Drawn(d, n) \/ (d = c /\ n = nextSeq)
    <3>1. CASE znode'[d] = n
      BY <1>8, <3>1 DEF Drawn
    <3>2. CASE n > 0 /\ seq_me'[d] = n
      BY <1>2, <3>2 DEF Drawn
    <3>3. CASE \E k \in Nat : IsCreated(d, k)' /\ replies'[d][k].seq = n
      <4>1. PICK k \in Nat : IsCreated(d, k)' /\ replies'[d][k].seq = n
        BY <3>3
      <4>2. QED
        BY <1>5, <1>9, <4>1 DEF Drawn
    <3>4. QED
      BY <2>2, <3>1, <3>2, <3>3 DEF Drawn
  <2>3. \A d \in Clients : znode'[d] \in Nat \cup {None} /\ seq_me'[d] \in Nat
    BY <1>1, <1>2, <1>8 DEF IInv, NumbersInv
  <2>4. \A d \in Clients, n \in Nat : Drawn(d, n)' => n < nextSeq'
    BY <1>1, <1>2, <1>12, <2>2
  <2>5. \A d, e \in Clients, n \in Nat : Drawn(d, n)' /\ Drawn(e, n)' => d = e
    BY <1>1, <1>12, <2>2 DEF IInv, NumbersInv
  <2>6. \A d \in Clients, i, n \in Nat : Drawn(d, i)' /\ Drawn(d, n)' => i = n
    BY <2>1, <2>2 DEF IInv, NumbersInv
  <2>7. QED
    BY <2>3, <2>4, <2>5, <2>6 DEF NumbersInv
<1>14. CreateInv'
  <2>1. ASSUME NEW k \in Nat PROVE ~IsRequest(c, k, "create")'
    <3>1. SUFFICES ASSUME IsRequest(c, k, "create")' PROVE FALSE
      OBVIOUS
    <3>2. k + 1 \in Nat /\ IsRequest(c, k + 1, "create") /\ k \in DOMAIN requests'[c]
      BY <1>3, <3>1 DEF IsRequest
    <3>3. k + 1 = 1
      BY <1>3, <3>2 DEF IInv, CreateInv
    <3>4. requests'[c] \in Seq(Requests)
      BY <1>3
    <3>5. QED
      BY <3>2, <3>3, <3>4
  <2>2. ASSUME NEW d \in Clients, d # c
        PROVE  /\ \A k \in Nat : IsRequest(d, k, "create")' => IsRequest(d, k, "create")
               /\ \A k \in Nat : IsCreated(d, k)' => IsCreated(d, k) /\ replies'[d][k] = replies[d][k]
               /\ NotYet(d) => NotYet(d)'
    <3>1. \A k \in Nat : IsRequest(d, k, "create")' => IsRequest(d, k, "create")
      BY <1>3, <2>2 DEF IsRequest
    <3>2. \A k \in Nat : IsCreated(d, k)' => IsCreated(d, k) /\ replies'[d][k] = replies[d][k]
      BY <1>9, <2>2
    <3>3. QED
      BY <1>2, <1>8, <2>2, <3>1, <3>2 DEF NotYet
  <2>3. ASSUME NEW k \in Nat, IsCreated(c, k)'
        PROVE  replies'[c][k].seq \in Nat /\ k \in DOMAIN replies'[c] /\ \A j \in DOMAIN replies'[c] : j <= k
    BY <1>1, <1>5, <1>7, <1>9, <2>3 DEF NotYet, IsCreated
  <2>4. ASSUME NEW j \in Nat, NEW k \in Nat, IsCreated(c, j)', IsCreated(c, k)' PROVE j = k
    BY <2>3, <2>4
  <2>5. seq_me'[c] = 0 /\ phase'[c] # "init" /\ session'[c] # "connecting"
    BY <1>2, <1>7 DEF NotYet
  <2>6. ASSUME NEW d \in Clients
        PROVE  /\ phase'[d] = "init" => NotYet(d)' /\ \A k \in Nat : ~IsRequest(d, k, "create")'
               /\ session'[d] = "connecting" => NotYet(d)'
               /\ \A j, k \in Nat : IsRequest(d, j, "create")' /\ IsRequest(d, k, "create")' => j = k /\ NotYet(d)'
               /\ \A j, k \in Nat : IsCreated(d, j)' /\ IsCreated(d, k)' => j = k
               /\ \A k \in Nat : IsCreated(d, k)' => replies'[d][k].seq \in Nat /\ seq_me'[d] = 0
    <3>1. CASE d = c
      BY <2>1, <2>3, <2>4, <2>5, <3>1
    <3>2. CASE d # c
      BY <1>2, <2>2, <3>2 DEF IInv, CreateInv
    <3>3. QED
      BY <3>1, <3>2
  <2>7. QED
    BY <2>6 DEF CreateInv
<1>15. DeleteInv'
  BY <1>2, <1>3, DeleteQuiet DEF IInv
<1>16. OwnInv'
  <2>1. SUFFICES ASSUME NEW d \in Clients, session'[d] = "connected"
                 PROVE  /\ seq_me'[d] > 0 /\ execs'[d] = 0 => znode'[d] = seq_me'[d]
                        /\ \A k \in Nat : IsCreated(d, k)' /\ replies'[d][k].seq > 0 => znode'[d] = replies'[d][k].seq
    BY DEF OwnInv
  <2>2. CASE d = c
    <3>1. seq_me'[c] = 0 /\ \A k \in Nat : ~IsCreated(c, k)
      BY <1>2, <1>7 DEF NotYet
    <3>2. QED
      BY <1>5, <1>8, <1>9, <2>2, <3>1
  <2>3. CASE d # c
    BY <1>2, <1>8, <1>9, <2>1, <2>3 DEF IInv, OwnInv
  <2>4. QED
    BY <2>2, <2>3
<1>17. \A d \in Clients : seq_me[d] \in Nat /\ (seq_me[d] > 0 => seq_me[d] < nextSeq)
  BY <1>12 DEF IInv, NumbersInv, Drawn
<1>18. ListsInv'
  <2>1. SUFFICES ASSUME NEW d \in Clients, NEW k \in Nat, IsList(d, k)'
                 PROVE  /\ replies'[d][k].strings \subseteq Nat
                        /\ seq_me'[d] > 0 => Has(replies'[d][k].strings, Children', seq_me'[d])
                        /\ \A j \in Nat : IsCreated(d, j)' /\ j < k => Has(replies'[d][k].strings, Children', replies'[d][j].seq)
    BY DEF ListsInv
  <2>2. IsList(d, k) /\ replies'[d][k] = replies[d][k]
    BY <1>10, <2>1
  <2>3. ASSUME NEW strings, NEW n \in Nat, n < nextSeq, Has(strings, Children, n) PROVE Has(strings, Children', n)
    BY <1>1, <1>8, <2>3 DEF Has
  <2>4. replies'[d][k].strings \subseteq Nat
    BY <2>2 DEF IInv, ListsInv
  <2>5. ASSUME seq_me'[d] > 0 PROVE Has(replies'[d][k].strings, Children', seq_me'[d])
    <3>1. Has(replies[d][k].strings, Children, seq_me[d])
      BY <1>2, <2>2, <2>5 DEF IInv, ListsInv
    <3>2. seq_me[d] \in Nat /\ seq_me[d] < nextSeq
      BY <1>2, <1>17, <2>5
    <3>3. QED
      BY <1>2, <2>2, <2>3, <3>1, <3>2
  <2>6. ASSUME NEW j \in Nat, IsCreated(d, j)', j < k PROVE Has(replies'[d][k].strings, Children', replies'[d][j].seq)
    <3>1. k \in DOMAIN replies'[d]
      BY <2>1 DEF IsList
    <3>2. IsCreated(d, j) /\ replies'[d][j] = replies[d][j]
      BY <1>9, <2>6, <3>1
    <3>3. replies[d][j].seq \in Nat /\ Has(replies[d][k].strings, Children, replies[d][j].seq)
      BY <2>2, <2>6, <3>2 DEF IInv, ListsInv, CreateInv
    <3>4. Drawn(d, replies[d][j].seq)
      BY <3>2, <3>3 DEF Drawn
    <3>5. replies[d][j].seq < nextSeq
      BY <1>12, <3>3, <3>4
    <3>6. QED
      BY <2>2, <2>3, <3>2, <3>3, <3>5
  <2>7. QED
    BY <2>4, <2>5, <2>6
<1>19. WatchesInv'
  <2>1. ASSUME NEW d \in Clients, NEW n, Below(d, n) PROVE Below(d, n)'
    <3>1. n \in Nat /\ n < seq_me[d]
      BY <2>1 DEF Below
    <3>2. seq_me[d] > 0 /\ seq_me[d] \in Nat /\ seq_me[d] < nextSeq
      BY <1>17, <3>1
    <3>3. QED
      BY <1>1, <1>2, <1>8, <2>1, <3>2 DEF Below
  <2>2. ASSUME NEW d \in Clients, NEW k \in Nat, IsRequest(d, k, "exists")' PROVE Below(d, requests[d][k].node)'
    <3>1. k \in DOMAIN requests'[d] /\ requests'[d][k].op = "exists"
      BY <2>2 DEF IsRequest
    <3>2. CASE d = c
      <4>1. k + 1 \in DOMAIN requests[c] /\ requests'[c][k] = requests[c][k + 1] /\ k + 1 \in Nat
        BY <1>3, <3>1, <3>2
      <4>2. IsRequest(c, k + 1, "exists")
        BY <3>1, <3>2, <4>1 DEF IsRequest
      <4>3. Below(c, requests[c][k + 1].node)
        BY <4>1, <4>2 DEF IInv, WatchesInv
      <4>4. QED
        BY <2>1, <3>2, <4>1, <4>3 DEF Below
    <3>3. CASE d # c
      <4>1. requests'[d] = requests[d] /\ IsRequest(d, k, "exists")
        BY <1>3, <3>1, <3>3 DEF IsRequest
      <4>2. Below(d, requests[d][k].node)
        BY <4>1 DEF IInv, WatchesInv
      <4>3. QED
        BY <2>1, <4>1, <4>2 DEF Below
    <3>4. QED
      BY <3>2, <3>3
  <2>3. QED
    BY <1>2, <2>1, <2>2 DEF IInv, WatchesInv
<1>20. WatchingInv'
  <2>1. nextSeq' \in Nat /\ nextSeq' >= nextSeq
    BY <1>1, <1>2
  <2>2. QED
    BY <1>1, <1>2, <1>3, <1>8, <2>1, WatchingQuiet DEF IInv, ExistsKept
<1>21. QED
  BY <1>11, <1>13, <1>14, <1>15, <1>16, <1>18, <1>19, <1>20 DEF IInv
\* A process learns its number.
LEMMA CreateDoneKeeps ==
  ASSUME IInv, NEW c \in Clients, CreateDone(c)
  PROVE  IInv'
<1> DEFINE n == Reply(c).seq
<1>1. TypeOK /\ QueuesOK
  BY DEF IInv, TypeOK, QueuesOK
<1>2. Receive(c, "create")
  BY DEF CreateDone
<1>3. CASE Reply(c).rc # "ok"
  <2>1. UNCHANGED <<seq_me, watch, execs>> /\ quit' \in [Clients -> BOOLEAN] /\ UNCHANGED <<requests, phase>>
    BY <1>1, <1>3 DEF CreateDone, procVars, TypeOK
  <2>2. QED
    BY <1>2, <2>1, CallbackQuiet
<1>4. CASE Reply(c).rc = "ok"
  <2>1. /\ seq_me' = [seq_me EXCEPT ![c] = n]
        /\ \/ n > 0 /\ GetChildren(c) /\ execs' = execs
           \/ ~(n > 0) /\ Execute(c, n) /\ phase' = phase
        /\ UNCHANGED <<znode, nextSeq, watches, session, faults, watch, quit>>
    BY <1>4 DEF CreateDone, Receive, serverVars
  <2>2. /\ Replied /\ RepliedBut("create") /\ replies' \in [Clients -> Seq(Messages)]
        /\ 1 \in DOMAIN replies[c] /\ Reply(c) = replies[c][1] /\ Reply(c).op = "create"
        /\ \A k \in DOMAIN replies'[c] : k + 1 \in DOMAIN replies[c] /\ replies'[c][k] = replies[c][k + 1]
        /\ \A d \in Clients : d # c => replies'[d] = replies[d]
    BY <1>1, <1>2, ReceiveKeeps, HarmlessReplies
  <2>3. IsCreated(c, 1) /\ n = replies[c][1].seq
    BY <1>4, <2>2 DEF IsCreated
  <2>4. n \in Nat /\ seq_me[c] = 0 /\ Drawn(c, n) /\ ~NotYet(c)
    BY <2>3 DEF IInv, CreateInv, Drawn, NotYet
  <2> HIDE DEF n
  <2>5. seq_me'[c] = n /\ \A d \in Clients : d # c => seq_me'[d] = seq_me[d]
    BY <1>1, <2>1 DEF TypeOK
  <2>6. \A k \in Nat : ~IsCreated(c, k)'
    <3>1. SUFFICES ASSUME NEW k \in Nat, IsCreated(c, k)' PROVE FALSE
      OBVIOUS
    <3>2. k \in DOMAIN replies'[c] /\ k + 1 \in Nat /\ IsCreated(c, k + 1)
      BY <2>2, <3>1 DEF IsCreated
    <3>3. k + 1 = 1
      BY <2>3, <3>2 DEF IInv, CreateInv
    <3>4. replies'[c] \in Seq(Messages)
      BY <2>2
    <3>5. QED
      BY <3>2, <3>3, <3>4
  <2>7. /\ requests' \in [Clients -> Seq(Requests)] /\ ExistsKept
        /\ Requested(RequestsBut("create")) /\ Requested(RequestsBut("exists"))
        /\ n > 0 => Requested(RequestsBut("delete"))
        /\ phase' = phase \/ phase' = [phase EXCEPT ![c] = "dead"]
        /\ execs' \in [Clients -> Nat]
        /\ \A d \in Clients : execs[d] > 0 => execs'[d] > 0
        /\ \A d \in Clients : d # c => requests'[d] = requests[d] /\ execs'[d] = execs[d]
    <3>1. CASE n > 0
      <4>1. [op |-> "children"] \in Requests /\ [op |-> "children"].op = "children"
        BY RequestsMade
      <4>2. Send(c, [op |-> "children"]) /\ (phase' = phase \/ phase' = [phase EXCEPT ![c] = "dead"]) /\ execs' = execs
        BY <2>1, <3>1 DEF GetChildren
      <4>3. QED
        BY <1>1, <4>1, <4>2, SendKeeps DEF TypeOK
    <3>2. CASE ~(n > 0)
      <4>1. [op |-> "delete", node |-> n] \in Requests /\ [op |-> "delete", node |-> n].op = "delete"
        BY <2>4, RequestsMade
      <4>2. Send(c, [op |-> "delete", node |-> n]) /\ phase' = phase /\ execs' = [execs EXCEPT ![c] = @ + 1]
        BY <2>1, <3>2 DEF Execute
      <4>3. execs' \in [Clients -> Nat] /\ \A d \in Clients : (execs[d] > 0 => execs'[d] > 0) /\ (d # c => execs'[d] = execs[d])
        BY <1>1, <4>2 DEF TypeOK
      <4>4. QED
        BY <1>1, <3>2, <4>1, <4>2, <4>3, SendKeeps
    <3>3. QED
      BY <3>1, <3>2
  <2>8. n = 0 => \A k \in Nat : IsRequest(c, k, "delete")' =>
          (IsRequest(c, k, "delete") /\ requests'[c][k] = requests[c][k]) \/ requests'[c][k].node = 0
    <3>1. SUFFICES ASSUME n = 0, NEW k \in Nat, IsRequest(c, k, "delete")'
                   PROVE  (IsRequest(c, k, "delete") /\ requests'[c][k] = requests[c][k]) \/ requests'[c][k].node = 0
      OBVIOUS
    <3> DEFINE r == [op |-> "delete", node |-> n]
    <3>2. Send(c, r) /\ r \in Requests /\ r.node = 0
      BY <2>1, <2>4, <3>1, RequestsMade DEF Execute
    <3> HIDE DEF r
    <3>3. CASE session[c] = "expired"
      <4>1. requests' = requests
        BY <1>1, <3>2, <3>3, SendKeeps
      <4>2. QED
        BY <3>1, <4>1 DEF IsRequest
    <3>4. CASE session[c] # "expired"
      <4>1. /\ Len(requests[c]) \in Nat
            /\ DOMAIN requests'[c] = 1..(Len(requests[c]) + 1)
            /\ requests'[c][Len(requests[c]) + 1] = r
            /\ \A j \in 1..Len(requests[c]) : j \in DOMAIN requests[c] /\ requests'[c][j] = requests[c][j]
        BY <1>1, <3>2, <3>4, SendKeeps
      <4>2. k \in 1..(Len(requests[c]) + 1)
        BY <3>1, <4>1 DEF IsRequest
      <4>3. CASE k = Len(requests[c]) + 1
        BY <3>2, <4>1, <4>3
      <4>4. CASE k \in 1..Len(requests[c])
        BY <3>1, <4>1, <4>4 DEF IsRequest
      <4>5. QED
        BY <4>1, <4>2, <4>3, <4>4
    <3>5. QED
      BY <3>3, <3>4
  <2>9. Forgets /\ Children' = Children
    BY <2>1 DEF Forgets, Children
  <2>10. TypeOK'
    <3>1. seq_me' \in [Clients -> Int]
      BY <1>1, <2>1, <2>4 DEF TypeOK
    <3>2. QED
      BY <1>1, <2>1, <2>2, <2>7, <3>1 DEF TypeOK
  <2>11. NumbersInv'
    <3>1. ASSUME NEW d \in Clients, NEW x \in Nat, Drawn(d, x)' PROVE Drawn(d, x)
      <4>1. CASE znode'[d] = x
        BY <2>1, <4>1 DEF Drawn
      <4>2. CASE x > 0 /\ seq_me'[d] = x
        BY <2>4, <2>5, <4>2 DEF Drawn
      <4>3. CASE \E k \in Nat : IsCreated(d, k)' /\ replies'[d][k].seq = x
        <5>1. PICK k \in Nat : IsCreated(d, k)' /\ replies'[d][k].seq = x
          BY <4>3
        <5>2. d # c
          BY <2>6, <5>1
        <5>3. QED
          BY <2>2, <5>1, <5>2 DEF Drawn, IsCreated
      <4>4. QED
        BY <3>1, <4>1, <4>2, <4>3 DEF Drawn
    <3>2. \A d \in Clients : znode'[d] \in Nat \cup {None} /\ seq_me'[d] \in Nat
      BY <2>1, <2>4, <2>5 DEF IInv, NumbersInv
    <3>3. QED
      BY <2>1, <3>1, <3>2 DEF IInv, NumbersInv
  <2>12. CreateInv'
    <3>1. phase[c] # "init" /\ session[c] # "connecting" /\ \A k \in Nat : ~IsRequest(c, k, "create")
      BY <2>4 DEF IInv, CreateInv
    <3>2. \A k \in Nat : ~IsRequest(c, k, "create")'
      <4>1. PICK h \in Nat : CarriedFrom(c, "create", h)
        BY <2>7, CarriedRequests
      <4>2. QED
        BY <3>1, <4>1 DEF CarriedFrom
    <3>3. phase'[c] # "init" /\ session'[c] # "connecting" /\ \A d \in Clients : d # c => phase'[d] = phase[d]
      BY <1>1, <2>1, <2>7, <3>1 DEF TypeOK
    <3>4. ASSUME NEW d \in Clients, d # c
          PROVE  /\ \A k \in Nat : IsRequest(d, k, "create")' <=> IsRequest(d, k, "create")
                 /\ \A k \in Nat : IsCreated(d, k)' <=> IsCreated(d, k)
                 /\ NotYet(d)' <=> NotYet(d)
                 /\ replies'[d] = replies[d] /\ seq_me'[d] = seq_me[d]
      BY <2>1, <2>2, <2>5, <2>7, <3>4 DEF NotYet, IsCreated, IsRequest
    <3>5. ASSUME NEW d \in Clients
          PROVE  /\ phase'[d] = "init" => NotYet(d)' /\ \A k \in Nat : ~IsRequest(d, k, "create")'
                 /\ session'[d] = "connecting" => NotYet(d)'
                 /\ \A j, k \in Nat : IsRequest(d, j, "create")' /\ IsRequest(d, k, "create")' => j = k /\ NotYet(d)'
                 /\ \A j, k \in Nat : IsCreated(d, j)' /\ IsCreated(d, k)' => j = k
                 /\ \A k \in Nat : IsCreated(d, k)' => replies'[d][k].seq \in Nat /\ seq_me'[d] = 0
      <4>1. CASE d = c
        BY <2>6, <3>2, <3>3, <4>1
      <4>2. CASE d # c
        BY <2>1, <3>3, <3>4, <4>2 DEF IInv, CreateInv
      <4>3. QED
        BY <4>1, <4>2
    <3>6. QED
      BY <3>5 DEF CreateInv
  <2>13. DeleteInv'
    <3>1. ASSUME NEW d \in Clients, NEW k \in Nat, IsRequest(d, k, "delete")'
          PROVE  requests'[d][k].node \in {None, 0} \/ (requests'[d][k].node = seq_me'[d] /\ execs'[d] > 0)
      <4>1. CASE d # c
        <5>1. IsRequest(d, k, "delete") /\ requests'[d][k] = requests[d][k] /\ seq_me'[d] = seq_me[d]
          BY <2>5, <2>7, <3>1, <4>1 DEF IsRequest
        <5>2. QED
          BY <2>7, <5>1 DEF IInv, DeleteInv
      <4>2. CASE d = c /\ n > 0
        <5>1. Requested(RequestsBut("delete"))
          BY <2>7, <4>2
        <5>2. PICK h \in Nat : CarriedFrom(c, "delete", h)
          BY <5>1, CarriedRequests
        <5>3. k + h \in Nat /\ IsRequest(c, k + h, "delete") /\ requests'[c][k] = requests[c][k + h]
          BY <3>1, <4>2, <5>2 DEF CarriedFrom
        <5>4. QED
          BY <2>4, <4>2, <5>3 DEF IInv, DeleteInv
      <4>3. CASE d = c /\ n = 0
        BY <2>4, <2>8, <3>1, <4>3 DEF IInv, DeleteInv
      <4>4. QED
        BY <2>4, <4>1, <4>2, <4>3
    <3>2. QED
      BY <3>1 DEF DeleteInv
  <2>14. OwnInv'
    <3>1. ASSUME NEW d \in Clients, session'[d] = "connected"
          PROVE  /\ seq_me'[d] > 0 /\ execs'[d] = 0 => znode'[d] = seq_me'[d]
                 /\ \A k \in Nat : IsCreated(d, k)' /\ replies'[d][k].seq > 0 => znode'[d] = replies'[d][k].seq
      <4>1. CASE d = c
        BY <2>1, <2>3, <2>5, <2>6, <3>1, <4>1 DEF IInv, OwnInv
      <4>2. CASE d # c
        <5>1. /\ session'[d] = session[d] /\ znode'[d] = znode[d] /\ seq_me'[d] = seq_me[d] /\ execs'[d] = execs[d]
              /\ replies'[d] = replies[d] /\ \A k \in Nat : IsCreated(d, k)' <=> IsCreated(d, k)
          BY <2>1, <2>2, <2>5, <2>7, <4>2 DEF IsCreated
        <5>2. QED
          BY <3>1, <5>1 DEF IInv, OwnInv
      <4>3. QED
        BY <4>1, <4>2
    <3>2. QED
      BY <3>1 DEF OwnInv
  <2>15. ListsInv'
    <3>1. SUFFICES ASSUME NEW d \in Clients, NEW k \in Nat, IsList(d, k)'
                   PROVE  /\ replies'[d][k].strings \subseteq Nat
                          /\ seq_me'[d] > 0 => Has(replies'[d][k].strings, Children, seq_me'[d])
                          /\ \A j \in Nat : IsCreated(d, j)' /\ j < k => Has(replies'[d][k].strings, Children, replies'[d][j].seq)
      BY <2>9 DEF ListsInv
    <3>2. CASE d = c
      <4>1. k \in DOMAIN replies'[c] /\ k + 1 \in Nat /\ IsList(c, k + 1) /\ replies'[c][k] = replies[c][k + 1]
        BY <2>2, <3>1, <3>2 DEF IsList
      <4>2. 1 < k + 1
        <5>1. replies'[c] \in Seq(Messages)
          BY <2>2
        <5>2. QED
          BY <4>1, <5>1
      <4>3. Has(replies[c][k + 1].strings, Children, n) /\ replies[c][k + 1].strings \subseteq Nat
        BY <2>3, <4>1, <4>2 DEF IInv, ListsInv
      <4>4. QED
        BY <2>5, <2>6, <3>2, <4>1, <4>3
    <3>3. CASE d # c
      BY <2>2, <2>5, <3>1, <3>3 DEF IInv, ListsInv, IsList, IsCreated
    <3>4. QED
      BY <3>2, <3>3
  <2>16. WatchesInv'
    <3>1. \A x : ~Below(c, x)
      BY <2>4 DEF Below
    <3>2. ASSUME NEW d \in Clients, d # c, NEW x, Below(d, x) PROVE Below(d, x)'
      BY <2>5, <2>9, <3>2 DEF Below
    <3>3. \A d \in Clients : \A x \in Int : <<d, x>> \in watches' => Below(d, x)'
      BY <2>1, <3>1, <3>2 DEF IInv, WatchesInv
    <3>4. ASSUME NEW d \in Clients, NEW k \in Nat, IsRequest(d, k, "exists")' PROVE Below(d, requests[d][k].node)'
      <4>1. CASE d = c
        <5>1. PICK h \in Nat : CarriedFrom(c, "exists", h)
          BY <2>7, CarriedRequests
        <5>2. IsRequest(c, k + h, "exists") /\ k + h \in Nat
          BY <3>4, <4>1, <5>1 DEF CarriedFrom
        <5>3. QED
          BY <3>1, <5>2 DEF IInv, WatchesInv
      <4>2. CASE d # c
        <5>1. requests'[d] = requests[d] /\ IsRequest(d, k, "exists")
          BY <2>7, <3>4, <4>2 DEF IsRequest
        <5>2. Below(d, requests[d][k].node)
          BY <5>1 DEF IInv, WatchesInv
        <5>3. QED
          BY <2>5, <2>9, <4>2, <5>1, <5>2 DEF Below
      <4>3. QED
        BY <4>1, <4>2
    <3>5. QED
      BY <3>3, <3>4 DEF WatchesInv
  <2>17. WatchingInv'
    <3>1. nextSeq \in Nat /\ nextSeq' \in Nat /\ nextSeq' >= nextSeq
      BY <1>1, <2>1 DEF TypeOK
    <3>2. QED
      BY <2>1, <2>7, <2>9, <3>1, WatchingQuiet DEF IInv, ExistsKept
  <2>18. QED
    BY <2>10, <2>11, <2>12, <2>13, <2>14, <2>15, <2>16, <2>17 DEF IInv
<1>5. QED
  BY <1>3, <1>4
\* A process finds the znode below its own, and asks for a watch.
LEMMA FoundSmallerKeeps ==
  ASSUME IInv, NEW c \in Clients, FoundSmaller(c)
  PROVE  IInv'
<1> DEFINE smaller == {v \in Reply(c).strings : v < seq_me[c]}
           other == CHOOSE v \in smaller : \A u \in smaller : u <= v
           r == [op |-> "exists", node |-> other]
<1>1. TypeOK /\ QueuesOK
  BY DEF IInv, TypeOK, QueuesOK
<1>2. /\ Receive(c, "children") /\ Reply(c).rc = "ok" /\ smaller # {} /\ watch' = [watch EXCEPT ![c] = other]
      /\ Send(c, r)
      /\ UNCHANGED <<znode, nextSeq, watches, session, faults, phase, seq_me, quit, execs>>
  BY DEF FoundSmaller, Receive, serverVars
<1>3. /\ Replied /\ RepliedBut("create") /\ replies' \in [Clients -> Seq(Messages)]
      /\ 1 \in DOMAIN replies[c] /\ Reply(c) = replies[c][1] /\ Reply(c).op = "children"
  BY <1>1, <1>2, ReceiveKeeps, HarmlessReplies
<1>4. IsList(c, 1)
  BY <1>2, <1>3 DEF IsList
<1>5. Reply(c).strings \subseteq Nat /\ (seq_me[c] > 0 => Has(Reply(c).strings, Children, seq_me[c]))
  BY <1>3, <1>4 DEF IInv, ListsInv
<1>6. seq_me[c] \in Nat /\ seq_me[c] > 0
  <2>1. seq_me[c] \in Nat
    BY DEF IInv, NumbersInv
  <2>2. QED
    BY <1>2, <1>5, <2>1
<1>7. other \in smaller /\ \A u \in smaller : u <= other
  <2>1. smaller \in SUBSET Nat /\ \A u \in smaller : u <= seq_me[c]
    BY <1>5, <1>6
  <2> HIDE DEF smaller
  <2>2. \E v \in smaller : \A u \in smaller : u <= v
    BY <1>2, <1>6, <2>1, GreatestOf
  <2>3. QED
    BY <2>2
<1> HIDE DEF other
<1>8. other \in Nat /\ other < seq_me[c] /\ other # None
  BY <1>5, <1>7, NumbersAssumption
<1>9. Below(c, other)
  <2>1. \A v \in Children : v \in Nat
    BY DEF IInv, NumbersInv, Children
  <2>2. ASSUME NEW v \in Children, other < v, v < seq_me[c] PROVE FALSE
    <3>1. v \in smaller
      BY <1>5, <1>6, <2>2 DEF Has
    <3>2. v <= other
      BY <1>7, <3>1
    <3>3. QED
      BY <1>8, <2>1, <2>2, <3>2
  <2>3. QED
    BY <1>8, <2>2 DEF Below
<1> HIDE DEF smaller
<1>10. r \in Requests /\ r.op = "exists" /\ r.node = other
  BY <1>8, RequestsMade
<1> HIDE DEF r
<1>11. /\ \A o : o # "exists" => Requested(RequestsBut(o))
       /\ requests' \in [Clients -> Seq(Requests)]
       /\ ExistsKept
       /\ \A d \in Clients : d # c => requests'[d] = requests[d]
       /\ session[c] = "expired" => requests' = requests
       /\ session[c] # "expired" =>
            /\ Len(requests[c]) \in Nat
            /\ DOMAIN requests'[c] = 1..(Len(requests[c]) + 1)
            /\ requests'[c][Len(requests[c]) + 1] = r
            /\ \A k \in 1..Len(requests[c]) : k \in DOMAIN requests[c] /\ requests'[c][k] = requests[c][k]
  BY <1>1, <1>2, <1>10, SendKeeps
<1>12. Forgets /\ Children' = Children
  BY <1>2 DEF Forgets, Children
<1>13. watch'[c] = other /\ \A d \in Clients : d # c => watch'[d] = watch[d]
  BY <1>1, <1>2 DEF TypeOK
<1>14. TypeOK'
  <2>1. watch' \in [Clients -> Int \cup {None}]
    BY <1>1, <1>2, <1>8 DEF TypeOK
  <2>2. QED
    BY <1>1, <1>2, <1>3, <1>11, <2>1 DEF TypeOK
<1>15. NumbersInv'
  BY <1>2, <1>3, <1>12, NumbersQuiet DEF IInv
<1>16. CreateInv'
  BY <1>2, <1>3, <1>11, <1>12, CreateQuiet DEF IInv
<1>17. DeleteInv'
  BY <1>2, <1>11, DeleteQuiet DEF IInv
<1>18. OwnInv'
  <2>1. execs \in [Clients -> Nat]
    BY <1>1 DEF TypeOK
  <2>2. QED
    BY <1>2, <1>3, <2>1, OwnQuiet DEF IInv
<1>19. ListsInv'
  BY <1>2, <1>3, <1>12, ListsQuiet DEF IInv
<1>20. ASSUME NEW d \in Clients, NEW k \in Nat, IsRequest(d, k, "exists")'
       PROVE  \/ IsRequest(d, k, "exists") /\ requests'[d][k] = requests[d][k]
              \/ d = c /\ requests'[d][k] = r
  <2>1. CASE d # c \/ session[c] = "expired"
    BY <1>11, <1>20, <2>1 DEF IsRequest
  <2>2. CASE d = c /\ session[c] # "expired"
    <3>1. k \in 1..(Len(requests[c]) + 1)
      BY <1>11, <1>20, <2>2 DEF IsRequest
    <3>2. CASE k = Len(requests[c]) + 1
      BY <1>11, <2>2, <3>2
    <3>3. CASE k \in 1..Len(requests[c])
      BY <1>11, <1>20, <2>2, <3>3 DEF IsRequest
    <3>4. QED
      BY <1>11, <2>2, <3>1, <3>2, <3>3
  <2>3. QED
    BY <2>1, <2>2
<1>21. WatchesInv'
  <2>1. \A d \in Clients : \A n : Below(d, n) => Below(d, n)'
    BY <1>2, <1>12 DEF Below
  <2>2. ASSUME NEW d \in Clients, NEW k \in Nat, IsRequest(d, k, "exists")' PROVE Below(d, requests[d][k].node)'
    <3>1. CASE IsRequest(d, k, "exists") /\ requests'[d][k] = requests[d][k]
      <4>1. Below(d, requests[d][k].node)
        BY <3>1 DEF IInv, WatchesInv
      <4>2. QED
        BY <1>2, <1>12, <3>1, <4>1 DEF Below
    <3>2. CASE d = c /\ requests'[d][k] = r
      BY <1>2, <1>9, <1>10, <1>12, <3>2 DEF Below
    <3>3. QED
      BY <1>20, <2>2, <3>1, <3>2
  <2>3. QED
    BY <1>2, <2>1, <2>2 DEF IInv, WatchesInv
<1>22. WatchingInv'
  <2>1. ASSUME NEW d \in Clients
        PROVE  /\ watch'[d] # None => watch'[d] \in Nat /\ watch'[d] < nextSeq'
               /\ faults'.loss = 0 /\ session'[d] # "expired" /\ watch'[d] \in Children' =>
                    \/ <<d, watch'[d]>> \in watches'
                    \/ \E k \in Nat : IsRequest(d, k, "exists")' /\ requests'[d][k].node = watch'[d]
    <3>1. CASE d = c
      <4>1. seq_me[c] < nextSeq /\ nextSeq \in Nat
        BY <1>1, <1>6 DEF IInv, NumbersInv, Drawn, TypeOK
      <4>2. other < nextSeq
        BY <1>6, <1>8, <4>1
      <4>3. ASSUME session[c] # "expired" PROVE \E k \in Nat : IsRequest(c, k, "exists")' /\ requests'[c][k].node = other
        <5>1. PICK k \in Nat : k \in DOMAIN requests'[c] /\ requests'[c][k] = r
          BY <1>11, <4>3
        <5>2. IsRequest(c, k, "exists")' /\ requests'[c][k].node = other
          BY <1>10, <5>1 DEF IsRequest
        <5>3. QED
          BY <5>2
      <4>4. QED
        BY <1>2, <1>8, <1>13, <3>1, <4>2, <4>3
    <3>2. CASE d # c
      BY <1>2, <1>11, <1>12, <1>13, <3>2 DEF IInv, WatchingInv, IsRequest
    <3>3. QED
      BY <3>1, <3>2
  <2>2. QED
    BY <2>1 DEF WatchingInv
<1>23. QED
  BY <1>14, <1>15, <1>16, <1>17, <1>18, <1>19, <1>21, <1>22 DEF IInv

\* A process executes, and asks for its znode to be deleted.
LEMMA NoneSmallerKeeps ==
  ASSUME IInv, NEW c \in Clients, NoneSmaller(c)
  PROVE  IInv'
<1> DEFINE n == IF seq_me[c] \in Reply(c).strings THEN seq_me[c] ELSE None
           r == [op |-> "delete", node |-> n]
<1>1. TypeOK /\ QueuesOK
  BY DEF IInv, TypeOK, QueuesOK
<1>2. /\ Receive(c, "children") /\ Send(c, r) /\ execs' = [execs EXCEPT ![c] = @ + 1]
      /\ UNCHANGED <<znode, nextSeq, watches, session, faults, phase, seq_me, watch, quit>>
  BY DEF NoneSmaller, Execute, Receive, serverVars
<1>3. Replied /\ RepliedBut("create") /\ replies' \in [Clients -> Seq(Messages)]
  BY <1>1, <1>2, ReceiveKeeps, HarmlessReplies
<1>4. n \in {seq_me[c], None} /\ n \in Int \cup {None}
  BY <1>1 DEF TypeOK
<1> HIDE DEF n
<1>5. r \in Requests /\ r.op = "delete" /\ r.node = n
  BY <1>4, RequestsMade
<1> HIDE DEF r
<1>6. /\ \A o : o # "delete" => Requested(RequestsBut(o))
      /\ requests' \in [Clients -> Seq(Requests)]
      /\ ExistsKept
      /\ \A d \in Clients : d # c => requests'[d] = requests[d]
      /\ session[c] = "expired" => requests' = requests
      /\ session[c] # "expired" =>
           /\ Len(requests[c]) \in Nat
           /\ DOMAIN requests'[c] = 1..(Len(requests[c]) + 1)
           /\ requests'[c][Len(requests[c]) + 1] = r
           /\ \A k \in 1..Len(requests[c]) : k \in DOMAIN requests[c] /\ requests'[c][k] = requests[c][k]
  BY <1>1, <1>2, <1>5, SendKeeps
<1>7. Forgets /\ Children' = Children
  BY <1>2 DEF Forgets, Children
<1>8. execs' \in [Clients -> Nat] /\ execs \in [Clients -> Nat] /\ execs'[c] > 0
      /\ \A d \in Clients : (execs[d] > 0 => execs'[d] > 0) /\ (execs'[d] = 0 => execs[d] = 0)
  BY <1>1, <1>2 DEF TypeOK
<1>9. TypeOK'
  BY <1>1, <1>2, <1>3, <1>6, <1>8 DEF TypeOK
<1>10. NumbersInv'
  BY <1>2, <1>3, <1>7, NumbersQuiet DEF IInv
<1>11. CreateInv'
  BY <1>2, <1>3, <1>6, <1>7, CreateQuiet DEF IInv
<1>12. DeleteInv'
  <2>1. ASSUME NEW d \in Clients, NEW k \in Nat, IsRequest(d, k, "delete")'
        PROVE  requests'[d][k].node \in {None, 0} \/ (requests'[d][k].node = seq_me'[d] /\ execs'[d] > 0)
    <3>1. CASE IsRequest(d, k, "delete") /\ requests'[d][k] = requests[d][k]
      BY <1>2, <1>8, <3>1 DEF IInv, DeleteInv
    <3>2. CASE d = c /\ requests'[d][k] = r
      BY <1>2, <1>4, <1>5, <1>8, <3>2
    <3>3. (IsRequest(d, k, "delete") /\ requests'[d][k] = requests[d][k]) \/ (d = c /\ requests'[d][k] = r)
      <4>1. CASE d # c \/ session[c] = "expired"
        BY <1>6, <2>1, <4>1 DEF IsRequest
      <4>2. CASE d = c /\ session[c] # "expired"
        <5>1. k \in 1..(Len(requests[c]) + 1)
          BY <1>6, <2>1, <4>2 DEF IsRequest
        <5>2. CASE k = Len(requests[c]) + 1
          BY <1>6, <4>2, <5>2
        <5>3. CASE k \in 1..Len(requests[c])
          BY <1>6, <2>1, <4>2, <5>3 DEF IsRequest
        <5>4. QED
          BY <1>6, <4>2, <5>1, <5>2, <5>3
      <4>3. QED
        BY <4>1, <4>2
    <3>4. QED
      BY <3>1, <3>2, <3>3
  <2>2. QED
    BY <2>1 DEF DeleteInv
<1>13. OwnInv'
  BY <1>2, <1>3, <1>8, OwnQuiet DEF IInv
<1>14. ListsInv'
  BY <1>2, <1>3, <1>7, ListsQuiet DEF IInv
<1>15. WatchesInv'
  BY <1>2, <1>6, <1>7, WatchesQuiet DEF IInv
<1>16. WatchingInv'
  <2>1. nextSeq \in Nat /\ nextSeq' \in Nat /\ nextSeq' >= nextSeq
    BY <1>1, <1>2 DEF TypeOK
  <2>2. QED
    BY <1>2, <1>6, <1>7, <2>1, WatchingQuiet DEF IInv, ExistsKept
<1>17. QED
  BY <1>9, <1>10, <1>11, <1>12, <1>13, <1>14, <1>15, <1>16 DEF IInv

----------------------------------------------------------------------------
(* The theorems. *)

\* The invariant holds at the start.
LEMMA InitIInv ==
  Init => IInv
<1>1. SUFFICES ASSUME Init PROVE IInv
  OBVIOUS
<1> USE NumbersAssumption, FaultsAssumption
<1>2. TypeOK
  BY <1>1 DEF Init, TypeOK
<1>3. \A c \in Clients, k \in Nat : ~IsCreated(c, k) /\ ~IsList(c, k) /\ \A op : ~IsRequest(c, k, op)
  BY <1>1 DEF Init, IsCreated, IsList, IsRequest
<1>4. \A c \in Clients : znode[c] = None /\ seq_me[c] = 0 /\ watch[c] = None /\ watches = {}
  BY <1>1 DEF Init
<1>5. \A c \in Clients, n \in Nat : ~Drawn(c, n)
  BY <1>3, <1>4 DEF Drawn
<1>6. NumbersInv
  BY <1>4, <1>5 DEF NumbersInv
<1>7. CreateInv /\ DeleteInv /\ ListsInv
  BY <1>3, <1>4 DEF CreateInv, DeleteInv, ListsInv, NotYet
<1>8. OwnInv
  BY <1>3, <1>4 DEF OwnInv
<1>9. WatchesInv
  BY <1>3, <1>4 DEF WatchesInv
<1>10. WatchingInv
  BY <1>4 DEF WatchingInv, Children
<1>11. QED
  BY <1>2, <1>6, <1>7, <1>8, <1>9, <1>10 DEF IInv

\* Every step keeps the invariant.
LEMMA NextIInv ==
  IInv /\ [Next]_vars => IInv'
<1>1. SUFFICES ASSUME IInv, [Next]_vars PROVE IInv'
  OBVIOUS
<1>2. CASE UNCHANGED vars
  <2>1. /\ UNCHANGED <<znode, nextSeq, watches, session, requests, replies>>
        /\ UNCHANGED <<phase, seq_me, watch, quit, execs, faults>>
    BY <1>2 DEF vars, serverVars, procVars
  <2>2. TypeOK'
    BY <1>1, <2>1 DEF IInv, TypeOK
  <2>3. QuietMessages
    BY <1>1, <2>1, RequestsSame, RepliesSame DEF QuietMessages, QueuesOK, IInv, TypeOK
  <2>4. \A d \in Clients : MovesOn(d) /\ KeepsZnode(d) /\ KeepsWatching(d)
    BY <2>1 DEF MovesOn, KeepsZnode, KeepsWatching
  <2>5. QuietState
    BY <2>1, <2>4 DEF QuietState, WatchesBelow, Forgets
  <2>6. QED
    BY <1>1, <2>2, <2>3, <2>5, QuietKeepsIInv
<1>3. ASSUME NEW c \in Clients, Server(c) PROVE IInv'
  BY <1>1, <1>3, ServeCreateKeeps, ServeChildrenKeeps, ServeExistsKeeps, ServeDeleteKeeps, ConnectKeeps, SessionEndsKeep
     DEF Server
<1>4. ASSUME NEW c \in Clients, Callback(c) PROVE IInv'
  BY <1>1, <1>4, CreateDoneKeeps, FoundSmallerKeeps, NoneSmallerKeeps, QuietCallbacks DEF Callback
<1>5. ASSUME NEW c \in Clients, MainThread(c) PROVE IInv'
  BY <1>1, <1>5, MainCreateKeeps, SessionEndsKeep DEF MainThread
<1>6. ASSUME NEW c \in Clients, Fault(c) PROVE IInv'
  BY <1>1, <1>6, LoseConnectionKeeps, SessionEndsKeep, CrashKeeps DEF Fault
<1>7. QED
  BY <1>1, <1>2, <1>3, <1>4, <1>5, <1>6 DEF Next

\* The invariant holds at every moment, whatever processes die and whatever
\* connections and sessions are lost.
THEOREM ZkLockInvariant == Spec => []IInv
<1>1. Init => IInv
  BY InitIInv
<1>2. IInv /\ [Next]_vars => IInv'
  BY NextIInv
<1>3. QED
  BY <1>1, <1>2, PTL DEF Spec

\* What the invariant says of the watches.
LEMMA WatchInvHolds ==
  IInv => WatchInv
<1>1. SUFFICES ASSUME IInv PROVE WatchInv
  OBVIOUS
<1>2. TypeOK
  BY <1>1 DEF IInv
<1>3. NoHerd
  <2>1. SUFFICES ASSUME NEW c \in Clients, NEW d \in Clients, NEW n \in Children,
                        <<c, n>> \in watches, <<d, n>> \in watches, znode[c] # None, znode[d] # None
                 PROVE  c = d
    BY DEF NoHerd
  <2>2. n \in Int /\ Below(c, n) /\ Below(d, n)
    BY <1>1, <2>1 DEF IInv, TypeOK, WatchesInv
  <2>3. ASSUME NEW e \in Clients, znode[e] # None, Below(e, n)
        PROVE  znode[e] = seq_me[e] /\ seq_me[e] \in Children /\ seq_me[e] \in Nat
    <3>1. seq_me[e] \in Nat /\ seq_me[e] > 0 /\ znode[e] \in Nat
      BY <1>1, <2>3 DEF IInv, NumbersInv, Below
    <3>2. Drawn(e, seq_me[e]) /\ Drawn(e, znode[e])
      BY <3>1 DEF Drawn
    <3>3. znode[e] = seq_me[e]
      BY <1>1, <3>1, <3>2 DEF IInv, NumbersInv
    <3>4. QED
      BY <2>3, <3>1, <3>3 DEF Children
  <2>4. ~(seq_me[c] < seq_me[d]) /\ ~(seq_me[d] < seq_me[c])
    BY <2>1, <2>2, <2>3 DEF Below
  <2>5. seq_me[c] = seq_me[d]
    BY <2>1, <2>2, <2>3, <2>4
  <2>6. Drawn(c, seq_me[c]) /\ Drawn(d, seq_me[c])
    BY <2>1, <2>2, <2>3, <2>5 DEF Drawn
  <2>7. QED
    BY <1>1, <2>1, <2>2, <2>3, <2>6 DEF IInv, NumbersInv
<1>4. WaiterIsWatching
  <2>1. SUFFICES ASSUME faults.loss = 0, NEW c \in Clients, Waiting(c), watch[c] \in Children
                 PROVE  <<c, watch[c]>> \in watches
    BY DEF WaiterIsWatching
  <2>2. session[c] # "expired" /\ \A k \in Nat : ~IsRequest(c, k, "exists")
    BY <2>1 DEF Waiting, IsRequest
  <2>3. QED
    BY <1>1, <2>1, <2>2 DEF IInv, WatchingInv
<1>5. QED
  BY <1>2, <1>3, <1>4 DEF WatchInv

\* At every moment the types are right, a release wakes one process, and a
\* process that waits will be told when the znode below its own goes.
THEOREM ZkLockWatches == Spec => []WatchInv
BY ZkLockInvariant, WatchInvHolds, PTL

\* A process that takes the right to execute for the first time owns the
\* smallest znode: at most one process at a time does, with a number above 0.
LEMMA FirstExecution ==
  ASSUME IInv, [Next]_vars
  PROVE  \A c \in Clients :
           (execs'[c] > execs[c] /\ execs[c] = 0 /\ seq_me'[c] > 0 /\ session[c] = "connected")
             => Smallest(seq_me'[c]) /\ znode[c] = seq_me'[c]
<1>1. SUFFICES ASSUME NEW c \in Clients, execs'[c] > execs[c], execs[c] = 0, seq_me'[c] > 0, session[c] = "connected"
               PROVE  Smallest(seq_me'[c]) /\ znode[c] = seq_me'[c]
  OBVIOUS
<1>2. TypeOK /\ QueuesOK /\ execs \in [Clients -> Nat]
  BY DEF IInv, TypeOK, QueuesOK
<1>3. PICK d \in Clients : CreateDone(d) \/ NoneSmaller(d)
  <2>1. execs' # execs
    BY <1>1, <1>2
  <2>2. \A d \in Clients : Server(d) => execs' = execs
    BY DEF Server, ServeCreate, ServeChildren, ServeExists, ServeDelete, Connect, SessionTimeout, Serve, procVars
  <2>3. \A d \in Clients : MainThread(d) \/ Fault(d) => execs' = execs
    BY DEF MainThread, MainCreate, MainClose, Fault, LoseConnection, Expire, Crash, procVars
  <2>4. \A d \in Clients : FoundSmaller(d) \/ ChildrenFailed(d) \/ ExistsDone(d) \/ DeleteDone(d) \/ Watcher(d)
           => execs' = execs
    BY DEF FoundSmaller, ChildrenFailed, ExistsDone, DeleteDone, Watcher, procVars
  <2>5. UNCHANGED vars => execs' = execs
    BY DEF vars, procVars
  <2>6. QED
    BY <2>1, <2>2, <2>3, <2>4, <2>5 DEF Next, Callback
<1>4. CASE CreateDone(d)
  <2>1. d = c
    BY <1>1, <1>2, <1>4 DEF CreateDone, Execute, procVars
  <2>2. Reply(c).rc = "ok" /\ seq_me' = [seq_me EXCEPT ![c] = Reply(c).seq] /\ ~(Reply(c).seq > 0)
    BY <1>1, <1>2, <1>4, <2>1 DEF CreateDone, procVars
  <2>3. QED
    BY <1>1, <1>2, <2>2 DEF TypeOK
<1>5. CASE NoneSmaller(d)
  <2>1. execs' = [execs EXCEPT ![d] = @ + 1] /\ seq_me' = seq_me
    BY <1>5 DEF NoneSmaller, Execute
  <2>2. d = c /\ seq_me'[c] = seq_me[c]
    BY <1>1, <1>2, <2>1
  <2>3. Receive(c, "children") /\ Reply(c).rc = "ok" /\ \A v \in Reply(c).strings : v >= seq_me[c]
    BY <1>5, <2>2 DEF NoneSmaller
  <2>4. IsList(c, 1) /\ Reply(c) = replies[c][1]
    BY <1>2, <2>3, ReceiveKeeps DEF IsList
  <2>5. seq_me[c] \in Nat /\ seq_me[c] > 0
    BY <1>1, <2>2 DEF IInv, NumbersInv
  <2>6. znode[c] = seq_me[c]
    BY <1>1, <2>5 DEF IInv, OwnInv
  <2>7. Has(Reply(c).strings, Children, seq_me[c]) /\ Reply(c).strings \subseteq Nat
    BY <2>4, <2>5 DEF IInv, ListsInv
  <2>8. \A v \in Children : v \in Nat
    BY DEF IInv, NumbersInv, Children
  <2>9. \A v \in Children : seq_me[c] <= v
    BY <2>3, <2>5, <2>7, <2>8 DEF Has
  <2>10. seq_me[c] \in Children
    BY <2>5, <2>6, NumbersAssumption DEF Children
  <2>11. QED
    BY <2>2, <2>6, <2>9, <2>10 DEF Smallest
<1>6. QED
  BY <1>3, <1>4, <1>5

\* The first execution of every process is that of the owner of the lock.
THEOREM ZkLockOwned == Spec => FirstExecutionOwnsLock
<1>1. IInv /\ [Next]_vars =>
        [\A c \in Clients :
           (execs'[c] > execs[c] /\ execs[c] = 0 /\ seq_me'[c] > 0 /\ session[c] = "connected")
             => Smallest(seq_me'[c]) /\ znode[c] = seq_me'[c]]_vars
  BY FirstExecution
<1>2. QED
  BY <1>1, ZkLockInvariant, PTL DEF Spec, FirstExecutionOwnsLock
=============================================================================
