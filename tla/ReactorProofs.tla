--------------------------- MODULE ReactorProofs ----------------------------
(***************************************************************************)
(* Why the callbacks of reactor.c never work on a descriptor that is not   *)
(* theirs any more, and never overwrite a buffer before it was sent, for   *)
(* any number of peers, descriptors and slots, and whatever calls of       *)
(* epoll_ctl fail, until a connection is accepted on a descriptor that has *)
(* no slot (reactor.c:214).                                                *)
(***************************************************************************)
EXTENDS Reactor, TLAPS

\* A connection has one descriptor, and only while it is open.
FileInv ==
  /\ \A fd \in Fds : file[fd] \in Conns => conn[file[fd]] = "open"
  /\ \A fd, g \in Fds : file[fd] \in Conns /\ file[fd] = file[g] => fd = g

\* An open descriptor has a slot.
SlotInv == \A fd \in Fds : file[fd] # "free" \/ interest[fd] # "none" => fd \in Slots

\* What the callback of a slot is there to do, also when epoll does not wait.
CallbackInv ==
  \A fd \in Fds :
    /\ file[fd] = "listener" => slot[fd].callback = "accept"
    /\ file[fd] \in Conns => slot[fd].callback \in {"recv", "send"}

\* A batch has one event for a descriptor, and there is none outside a batch.
ReadyInv ==
  /\ pc # "batch" => ready = {}
  /\ \A d, e \in ready : d.fd = e.fd => d = e

\* Bytes are neither made up nor sent twice.
BytesInv ==
  \A c \in Conns :
    /\ got[c] + inq[c] = sent[c] /\ echoed[c] <= got[c]
    /\ conn[c] \in {"new", "backlog"} => got[c] = 0
    /\ \A fd \in Fds : file[fd] = c =>
         IF slot[fd].callback = "send"
         THEN /\ echoed[c] + slot[fd].length <= got[c]
              /\ c \notin short => echoed[c] + slot[fd].length = got[c]
         ELSE c \notin short => echoed[c] = got[c]

\* What holds until memory behind the slots is written.
Running ==
  /\ pc # "overrun" /\ ReactorInv /\ EventsAreFresh
  /\ FileInv /\ SlotInv /\ CallbackInv /\ ReadyInv /\ BytesInv

\* The inductive invariant.
IInv == TypeOK /\ ((pc = "overrun" /\ ready = {}) \/ Running)

----------------------------------------------------------------------------
(* What is used of the operators the actions are built from. *)

USE FdsAssumption, SizesAssumption, BoundsAssumption, ConnsAssumption DEF Fds, Slots

\* The sizes are numbers, and none is 0.
LEMMA Sizes ==
  /\ ScanCount \in Nat \ {0} /\ BUFFER_LENGTH \in Nat \ {0} /\ Timeout \in Nat \ {0} /\ Room \in Nat \ {0}
  /\ NumFds \in Nat /\ MAX_EPOLL_EVENTS \in Nat /\ MAX_EPOLL_EVENTS # 0
  /\ 0 \in Fds /\ 1 \in Fds /\ 0 \in Slots /\ 1 \in Slots
OBVIOUS

\* A slot whose status is written is a slot.
LEMMA StatusWritten ==
  ASSUME NEW S, NEW E, NEW C, NEW L, NEW r \in [status : S, events : E, callback : C, length : L], NEW z \in S
  PROVE  [r EXCEPT !.status = z] \in [status : S, events : E, callback : C, length : L]
OBVIOUS

\* What is no connection is not among the peers.
LEMMA Marks == "free" \notin Conns /\ "own" \notin Conns /\ "listener" \notin Conns
OBVIOUS

\* Min of two numbers is one of them and exceeds neither.
LEMMA MinOfTwo ==
  ASSUME NEW a \in Int, NEW b \in Int
  PROVE  Min({a, b}) \in {a, b} /\ Min({a, b}) <= a /\ Min({a, b}) <= b
<1>1. \E x \in {a, b} : \A y \in {a, b} : x <= y
  <2>1. CASE a <= b
    BY <2>1
  <2>2. CASE b <= a
    BY <2>2
  <2>3. QED
    BY <2>1, <2>2
<1>2. QED
  BY <1>1 DEF Min

\* A remainder is at least 0 and less than the divisor.
LEMMA Remainder ==
  ASSUME NEW a \in Int, NEW b \in Nat \ {0}
  PROVE  a % b \in 0..(b - 1)
OBVIOUS

\* A descriptor of the batch is open, its slot is in use, and no other event of
\* the batch is about it.
LEMMA EventOpen ==
  ASSUME Running, NEW e \in ready
  PROVE  /\ e.fd \in Fds /\ e.fd \in Slots /\ file[e.fd] \in {"listener"} \cup Conns
         /\ slot[e.fd].status = 1 /\ pc = "batch"
         /\ \A d \in ready \ {e} : d.fd # e.fd /\ d.fd \in Fds
<1>1. e \in [fd : Fds, events : {"IN", "OUT"}, of : {"listener"} \cup Conns]
  BY DEF Running, ReactorInv, TypeOK
<1>2. e.fd \in Fds /\ e.fd \in Slots /\ e.of \in {"listener"} \cup Conns
  <2>1. e.fd \in Fds /\ e.of \in {"listener"} \cup Conns /\ file[e.fd] = e.of
    BY <1>1 DEF Running, EventsAreFresh
  <2>2. QED
    BY <2>1, Marks DEF Running, SlotInv
<1>3. \A d \in ready \ {e} : d.fd # e.fd /\ d.fd \in Fds
  BY DEF Running, ReactorInv, TypeOK, ReadyInv
<1>4. QED
  BY <1>2, <1>3 DEF Running, ReactorInv, StatusIsOpen, EventsAreFresh, ReadyInv

----------------------------------------------------------------------------
(* The invariant is inductive. *)

\* It holds when the loop begins: one listener, no connection.
LEMMA InitInv == Init => IInv
<1> SUFFICES ASSUME Init PROVE IInv
  OBVIOUS
<1>1. TypeOK
  BY DEF Init, TypeOK, Empty
<1>2. StatusIsOpen /\ InterestMatchesCallback
  BY DEF Init, StatusIsOpen, InterestMatchesCallback, Empty
<1>3. EventsAreFresh /\ FileInv /\ SlotInv /\ CallbackInv /\ ReadyInv
  BY DEF Init, EventsAreFresh, FileInv, SlotInv, CallbackInv, ReadyInv
<1>4. BytesInv
  BY DEF Init, BytesInv
<1>5. QED
  BY <1>1, <1>2, <1>3, <1>4 DEF IInv, Running, ReactorInv, Init

\* The peers change neither slots nor descriptors.
LEMMA PeerInv == ASSUME Running, NEW c \in Conns, Peer(c) PROVE Running'
<1>1. /\ UNCHANGED <<file, interest, slotVars, pc, checkpos, ready, got, echoed, short, addFails>>
      /\ pc' # "overrun"
      /\ \A d \in Conns : conn[d] = "open" => conn'[d] = "open"
      /\ \A d \in Conns : conn'[d] \in {"new", "backlog"} => conn[d] \in {"new", "backlog"}
      /\ \A d \in Conns : got[d] + inq'[d] = sent'[d]
  <2> USE DEF Running
  <2>1. CASE Connect(c)
    BY <2>1 DEF Connect, countVars, BytesInv, ReactorInv, TypeOK
  <2>2. CASE PeerSend(c)
    <3>1. \A d \in Conns : got[d] + inq[d] = sent[d] /\ got[d] \in Nat /\ inq[d] \in Nat /\ sent[d] \in Nat
      BY DEF Running, BytesInv, ReactorInv, TypeOK
    <3>2. /\ sent' = [sent EXCEPT ![c] = @ + 1] /\ sent \in [Conns -> 0..MaxBytes]
          /\ inq' = [inq EXCEPT ![c] = @ + 1] /\ inq \in [Conns -> 0..MaxBytes]
      BY <2>2 DEF PeerSend, Running, ReactorInv, TypeOK
    <3>3. \A d \in Conns : got[d] + inq'[d] = sent'[d]
      BY <3>1, <3>2
    <3>4. QED
      BY <2>2, <3>3 DEF PeerSend
  <2>3. CASE PeerRead(c)
    BY <2>3 DEF PeerRead, countVars, Running, BytesInv
  <2>4. CASE PeerEnd(c)
    BY <2>4 DEF PeerEnd, countVars, Running, BytesInv
  <2>5. QED
    BY <2>1, <2>2, <2>3, <2>4 DEF Peer
<1>2. TypeOK'
  <2>1. CASE Connect(c)
    BY <2>1 DEF Connect, countVars, slotVars, Running, ReactorInv, TypeOK
  <2>2. CASE PeerSend(c)
    <3>1. got[c] + inq[c] = sent[c] /\ got[c] \in Nat /\ inq[c] \in Nat /\ sent[c] \in Nat /\ sent[c] < MaxBytes
      BY <2>2 DEF PeerSend, Running, BytesInv, ReactorInv, TypeOK
    <3>2. sent[c] + 1 \in 0..MaxBytes /\ inq[c] + 1 \in 0..MaxBytes
      BY <3>1
    <3>3. QED
      BY <2>2, <3>2 DEF PeerSend, slotVars, Running, ReactorInv, TypeOK
  <2>3. CASE PeerRead(c)
    <3>1. unread' = [unread EXCEPT ![c] = 0] /\ unread \in [Conns -> 0..Room] /\ 0 \in 0..Room
      BY <2>3, Sizes DEF PeerRead, Running, ReactorInv, TypeOK
    <3>2. unread' \in [Conns -> 0..Room]
      BY <3>1
    <3>3. QED
      BY <2>3, <3>2 DEF PeerRead, countVars, slotVars, Running, ReactorInv, TypeOK
  <2>4. CASE PeerEnd(c)
    BY <2>4 DEF PeerEnd, countVars, slotVars, Running, ReactorInv, TypeOK
  <2>5. QED
    BY <2>1, <2>2, <2>3, <2>4 DEF Peer
<1>3. (StatusIsOpen /\ InterestMatchesCallback /\ EventsAreFresh)'
  BY <1>1 DEF Running, ReactorInv, StatusIsOpen, InterestMatchesCallback, EventsAreFresh, slotVars
<1>4. (FileInv /\ SlotInv /\ CallbackInv /\ ReadyInv)'
  BY <1>1 DEF Running, FileInv, SlotInv, CallbackInv, ReadyInv, slotVars
<1>5. BytesInv'
  BY <1>1 DEF Running, BytesInv, slotVars
<1>6. QED
  BY <1>1, <1>2, <1>3, <1>4, <1>5 DEF Running, ReactorInv

\* The clock changes only last_active.
LEMMA TickInv == ASSUME Running, Tick PROVE Running'
<1>1. idle' \in [Slots -> 0..Timeout]
  <2>1. ASSUME NEW s \in Slots PROVE Min({idle[s] + 1, Timeout}) \in 0..Timeout
    <3>1. idle[s] \in 0..Timeout /\ Timeout \in Nat
      BY Sizes DEF Running, ReactorInv, TypeOK
    <3>2. idle[s] + 1 \in Int /\ Timeout \in Int
      BY <3>1
    <3>3. /\ Min({idle[s] + 1, Timeout}) \in {idle[s] + 1, Timeout}
          /\ Min({idle[s] + 1, Timeout}) <= Timeout
      BY <3>2, MinOfTwo
    <3>4. QED
      BY <3>1, <3>3
  <2>2. QED
    BY <2>1 DEF Tick, Running, ReactorInv, TypeOK
<1>2. UNCHANGED <<kernelVars, slot, pc, checkpos, ready, countVars, addFails>>
  BY DEF Tick
<1>3. (ReactorInv /\ EventsAreFresh)'
  BY <1>1, <1>2 DEF Running, ReactorInv, TypeOK, StatusIsOpen, InterestMatchesCallback, EventsAreFresh, kernelVars, countVars
<1>4. (FileInv /\ SlotInv /\ CallbackInv /\ ReadyInv /\ BytesInv)'
  BY <1>2 DEF Running, FileInv, SlotInv, CallbackInv, ReadyInv, BytesInv, kernelVars, countVars
<1>5. pc' # "overrun"
  BY DEF Tick
<1>6. QED
  BY <1>3, <1>4, <1>5 DEF Running

\* Closing descriptors whose slots are in use, and giving the slots back, keeps
\* what is not about the batch.
LEMMA Closing ==
  ASSUME Running, NEW fds \in SUBSET Fds, Close(fds),
         slot' = [s \in Slots |-> IF s \in fds THEN [slot[s] EXCEPT !.status = 0] ELSE slot[s]],
         UNCHANGED <<idle, countVars, addFails>>,
         pc' \in {"scan", "wait", "batch"}, checkpos' \in 0..MAX_EPOLL_EVENTS, ready' \subseteq ready
  PROVE  (ReactorInv /\ FileInv /\ SlotInv /\ CallbackInv /\ BytesInv)'
<1>1. TypeOK /\ StatusIsOpen /\ InterestMatchesCallback /\ FileInv /\ SlotInv /\ CallbackInv /\ BytesInv
  BY DEF Running, ReactorInv
<1>2. /\ file' = [fd \in Fds |-> IF fd \in fds THEN "free" ELSE file[fd]]
      /\ interest' = [fd \in Fds |-> IF fd \in fds THEN "none" ELSE interest[fd]]
      /\ \A c \in Conns : conn'[c] = conn[c] \/ conn'[c] = "closed"
      /\ \A c \in Conns : (\A fd \in fds : file[fd] # c) /\ conn[c] = "open" => conn'[c] = "open"
      /\ UNCHANGED <<inq, unread, ending>>
  BY <1>1 DEF Close, TypeOK
<1>3. \A s \in Slots : slot'[s] = IF s \in fds THEN [slot[s] EXCEPT !.status = 0] ELSE slot[s]
  OBVIOUS
<1>4. \A s \in Slots : /\ slot'[s].status = IF s \in fds THEN 0 ELSE slot[s].status
                       /\ slot'[s].events = slot[s].events /\ slot'[s].callback = slot[s].callback
                       /\ slot'[s].length = slot[s].length
  BY <1>1, <1>3 DEF TypeOK
<1>5. TypeOK'
  <2>1. slot' \in [Slots -> [status : 0..1, events : {"none", "IN", "OUT"},
                             callback : {"none", "accept", "recv", "send"}, length : 0..BUFFER_LENGTH]]
    <3> DEFINE Entry == [status : 0..1, events : {"none", "IN", "OUT"},
                         callback : {"none", "accept", "recv", "send"}, length : 0..BUFFER_LENGTH]
    <3>1. \A s \in Slots : slot[s] \in Entry
      BY <1>1 DEF TypeOK
    <3>2. \A r \in Entry : [r EXCEPT !.status = 0] \in Entry
      <4>1. 0 \in 0..1
        OBVIOUS
      <4>2. QED
        BY <4>1, StatusWritten
    <3>3. \A s \in Slots : (IF s \in fds THEN [slot[s] EXCEPT !.status = 0] ELSE slot[s]) \in Entry
      BY <3>1, <3>2
    <3> HIDE DEF Entry
    <3>4. slot' \in [Slots -> Entry]
      BY <3>3
    <3>5. QED
      BY <3>4 DEF Entry
  <2>2. conn' \in [Conns -> {"new", "backlog", "open", "closed"}]
    BY <1>1 DEF Close, TypeOK
  <2>3. file' \in [Fds -> {"free", "own", "listener"} \cup Conns] /\ interest' \in [Fds -> {"none", "IN", "OUT"}]
    BY <1>1, <1>2 DEF TypeOK
  <2>4. QED
    BY <1>1, <1>2, <2>1, <2>2, <2>3 DEF TypeOK, countVars
<1>6. StatusIsOpen'
  BY <1>1, <1>2, <1>4, Sizes DEF StatusIsOpen
<1>7. \A fd \in Fds : /\ file'[fd] # "free" => fd \in Slots /\ fd \notin fds /\ file'[fd] = file[fd]
                      /\ interest'[fd] # "none" => fd \in Slots /\ fd \notin fds /\ interest'[fd] = interest[fd]
  BY <1>1, <1>2 DEF SlotInv
<1>8. SlotInv'
  BY <1>7 DEF SlotInv
<1>9. InterestMatchesCallback'
  <2>1. ASSUME NEW fd \in Fds, interest'[fd] # "none"
        PROVE  /\ slot'[fd].status = slot[fd].status /\ slot'[fd].events = slot[fd].events
               /\ slot'[fd].callback = slot[fd].callback /\ file'[fd] = file[fd] /\ interest'[fd] = interest[fd]
    BY <1>2, <1>4, <1>7, <2>1
  <2>2. \A fd \in Fds : interest'[fd] # "none" => interest[fd] # "none"
    BY <1>7
  <2>3. ASSUME NEW fd \in Fds, interest'[fd] # "none"
        PROVE  /\ slot'[fd].status = 1 /\ slot'[fd].events = interest'[fd]
               /\ slot'[fd].callback = IF interest'[fd] = "OUT" THEN "send"
                                       ELSE IF file'[fd] = "listener" THEN "accept" ELSE "recv"
    <3>1. /\ slot[fd].status = 1 /\ slot[fd].events = interest[fd]
          /\ slot[fd].callback = IF interest[fd] = "OUT" THEN "send"
                                 ELSE IF file[fd] = "listener" THEN "accept" ELSE "recv"
      BY <1>1, <2>2, <2>3 DEF InterestMatchesCallback
    <3>2. /\ slot'[fd].status = slot[fd].status /\ slot'[fd].events = slot[fd].events
          /\ slot'[fd].callback = slot[fd].callback /\ file'[fd] = file[fd] /\ interest'[fd] = interest[fd]
      BY <2>1, <2>3
    <3>3. QED
      BY <3>1, <3>2, Zenon
  <2>4. QED
    BY <2>3 DEF InterestMatchesCallback
<1>10. FileInv'
  <2>1. ASSUME NEW fd \in Fds, file'[fd] \in Conns
        PROVE  /\ file'[fd] = file[fd] /\ conn'[file'[fd]] = "open"
               /\ \A g \in Fds : file'[fd] = file'[g] => fd = g
    <3>1. fd \notin fds /\ file'[fd] = file[fd]
      BY <1>2, <2>1
    <3>2. \A g \in Fds : file[g] = file[fd] => g = fd
      BY <1>1, <2>1, <3>1 DEF FileInv
    <3>3. \A g \in fds : file[g] # file[fd]
      BY <3>1, <3>2
    <3>4. conn[file[fd]] = "open"
      BY <1>1, <2>1, <3>1 DEF FileInv
    <3>5. \A g \in Fds : file'[fd] = file'[g] => file[g] = file[fd]
      BY <1>2, <2>1, <3>1
    <3>6. QED
      BY <1>2, <2>1, <3>1, <3>2, <3>3, <3>4, <3>5
  <2>2. QED
    BY <2>1 DEF FileInv
<1>11. CallbackInv'
  <2>1. ASSUME NEW fd \in Fds, file'[fd] # "free"
        PROVE  slot'[fd].callback = slot[fd].callback /\ file'[fd] = file[fd]
    BY <1>4, <1>7, <2>1
  <2>2. QED
    BY <1>1, <2>1, Marks DEF CallbackInv
<1>12. BytesInv'
  <2>1. \A fd \in Fds : \A c \in Conns : file'[fd] = c => file[fd] = c /\ fd \in Slots
    BY <1>7, Marks
  <2>2. UNCHANGED <<sent, got, echoed, short, inq>>
    BY <1>2 DEF countVars
  <2>3. \A c \in Conns : conn'[c] \in {"new", "backlog"} => conn[c] \in {"new", "backlog"}
    BY <1>2
  <2>4. \A c \in Conns : \A fd \in Fds : file'[fd] = c =>
          file[fd] = c /\ slot'[fd].callback = slot[fd].callback /\ slot'[fd].length = slot[fd].length
    BY <1>4, <2>1
  <2>5. ASSUME NEW c \in Conns, NEW fd \in Fds, file'[fd] = c
        PROVE  IF slot'[fd].callback = "send"
               THEN /\ echoed[c] + slot'[fd].length <= got[c]
                    /\ c \notin short => echoed[c] + slot'[fd].length = got[c]
               ELSE c \notin short => echoed[c] = got[c]
    <3>1. file[fd] = c /\ slot'[fd].callback = slot[fd].callback /\ slot'[fd].length = slot[fd].length
      BY <2>4, <2>5
    <3>2. IF slot[fd].callback = "send"
          THEN /\ echoed[c] + slot[fd].length <= got[c]
               /\ c \notin short => echoed[c] + slot[fd].length = got[c]
          ELSE c \notin short => echoed[c] = got[c]
      BY <1>1, <3>1 DEF BytesInv
    <3>3. QED
      BY <3>1, <3>2, Zenon
  <2>6. \A c \in Conns : /\ got[c] + inq[c] = sent[c] /\ echoed[c] <= got[c]
                         /\ conn'[c] \in {"new", "backlog"} => got[c] = 0
    BY <1>1, <2>3 DEF BytesInv
  <2>7. \A c \in Conns : \A fd \in Fds : file'[fd] = c =>
          IF slot'[fd].callback = "send"
          THEN /\ echoed'[c] + slot'[fd].length <= got'[c]
               /\ c \notin short' => echoed'[c] + slot'[fd].length = got'[c]
          ELSE c \notin short' => echoed'[c] = got'[c]
    BY <2>2, <2>5
  <2>8. \A c \in Conns : /\ got'[c] + inq'[c] = sent'[c] /\ echoed'[c] <= got'[c]
                         /\ conn'[c] \in {"new", "backlog"} => got'[c] = 0
    BY <2>2, <2>6
  <2>9. QED
    BY <2>7, <2>8 DEF BytesInv
<1>13. QED
  BY <1>5, <1>6, <1>9, <1>10, <1>11, <1>12, <1>8 DEF ReactorInv

\* The scan closes descriptors whose slots are in use, outside a batch.
LEMMA ScanInv == ASSUME Running, Scan PROVE Running'
<1>1. Silent \subseteq Fds
  <2>1. \A s \in Scanned : s \in Slots
    <3>1. ASSUME NEW k \in 0..(ScanCount - 1) PROVE (checkpos + k) % MAX_EPOLL_EVENTS \in Slots
      <4>1. checkpos + k \in Int /\ MAX_EPOLL_EVENTS \in Nat \ {0}
        BY Sizes DEF Running, ReactorInv, TypeOK
      <4>2. QED
        BY <4>1, Remainder DEF Slots
    <3>2. QED
      BY <3>1 DEF Scanned
  <2>2. QED
    BY <2>1 DEF Silent, Running, ReactorInv, StatusIsOpen
<1>2. checkpos' \in 0..MAX_EPOLL_EVENTS
  <2>1. checkpos + ScanCount - 1 \in Int /\ MAX_EPOLL_EVENTS \in Nat \ {0}
    BY Sizes DEF Running, ReactorInv, TypeOK
  <2>2. (checkpos + ScanCount - 1) % MAX_EPOLL_EVENTS \in 0..(MAX_EPOLL_EVENTS - 1)
    BY <2>1, Remainder
  <2>3. checkpos' = ((checkpos + ScanCount - 1) % MAX_EPOLL_EVENTS) + 1
    BY DEF Scan
  <2>4. QED
    BY <2>1, <2>2, <2>3
<1>3. (ReactorInv /\ FileInv /\ SlotInv /\ CallbackInv /\ BytesInv)'
  BY <1>1, <1>2, Closing DEF Scan
<1>4. ready = {} /\ ready' = {} /\ pc' # "overrun"
  BY DEF Scan, Running, ReadyInv
<1>5. QED
  BY <1>3, <1>4 DEF Running, EventsAreFresh, ReadyInv

\* A callback that meets the end of its connection closes its own descriptor,
\* which no other event of the batch is about.
LEMMA CallbackClosesInv ==
  ASSUME Running, NEW e \in ready, ReceiveFails(e) \/ SendFails(e) PROVE Running'
<1>1. /\ Close({e.fd}) /\ slot' = [slot EXCEPT ![e.fd].status = 0]
      /\ UNCHANGED <<idle, countVars, addFails, pc, checkpos>> /\ ready' = ready \ {e}
  BY DEF ReceiveFails, SendFails, Handle
<1>2. /\ e.fd \in Fds /\ e.fd \in Slots /\ pc = "batch" /\ \A d \in ready \ {e} : d.fd # e.fd /\ d.fd \in Fds
  BY EventOpen
<1>3. slot' = [s \in Slots |-> IF s \in {e.fd} THEN [slot[s] EXCEPT !.status = 0] ELSE slot[s]]
  BY <1>1, <1>2 DEF Running, ReactorInv, TypeOK
<1>4. (ReactorInv /\ FileInv /\ SlotInv /\ CallbackInv /\ BytesInv)'
  <2>1. {e.fd} \in SUBSET Fds /\ pc' \in {"scan", "wait", "batch"} /\ ready' \subseteq ready
    BY <1>1, <1>2
  <2>2. checkpos' \in 0..MAX_EPOLL_EVENTS
    BY <1>1 DEF Running, ReactorInv, TypeOK
  <2>3. QED
    BY <1>1, <1>3, <2>1, <2>2, Closing
<1>5. \A d \in ready' : file'[d.fd] = file[d.fd]
  BY <1>1, <1>2 DEF Close
<1>6. QED
  BY <1>1, <1>2, <1>4, <1>5 DEF Running, EventsAreFresh, ReadyInv

\* epoll_wait reports each descriptor of its set at most once.
LEMMA EpollWaitInv == ASSUME Running, EpollWait PROVE Running'
<1>1. /\ ready' = {[fd |-> fd, events |-> interest[fd], of |-> file[fd]] : fd \in {g \in Fds : HasEvent(g)}}
      /\ pc' \in {"scan", "batch"} /\ pc' # "overrun" /\ (pc' # "batch" => ready' = {})
      /\ UNCHANGED <<kernelVars, slotVars, checkpos, countVars, addFails>>
  BY DEF EpollWait
<1>2. ASSUME NEW e \in ready'
      PROVE  /\ e \in [fd : Fds, events : {"IN", "OUT"}, of : {"listener"} \cup Conns]
             /\ e = [fd |-> e.fd, events |-> interest[e.fd], of |-> file[e.fd]]
  <2>1. PICK fd \in Fds : HasEvent(fd) /\ e = [fd |-> fd, events |-> interest[fd], of |-> file[fd]]
    BY <1>1
  <2>2. interest[fd] \in {"IN", "OUT"} /\ file[fd] \in {"listener"} \cup Conns
    BY <2>1 DEF HasEvent
  <2>3. QED
    BY <2>1, <2>2
<1>3. TypeOK'
  <2>1. ready' \subseteq [fd : Fds, events : {"IN", "OUT"}, of : {"listener"} \cup Conns]
    BY <1>2
  <2>2. QED
    BY <1>1, <2>1 DEF Running, ReactorInv, TypeOK, kernelVars, slotVars, countVars
<1>4. (StatusIsOpen /\ InterestMatchesCallback /\ FileInv /\ SlotInv /\ CallbackInv /\ BytesInv)'
  BY <1>1 DEF Running, ReactorInv, StatusIsOpen, InterestMatchesCallback, FileInv, SlotInv, CallbackInv, BytesInv,
              kernelVars, slotVars, countVars
<1>5. EventsAreFresh'
  <2>1. \A e \in ready' : e.of = file[e.fd]
    BY <1>2
  <2>2. QED
    BY <1>1, <2>1 DEF EventsAreFresh, kernelVars
<1>6. ReadyInv'
  <2>1. \A d, e \in ready' : d.fd = e.fd => d = e
    BY <1>2
  <2>2. QED
    BY <1>1, <2>1 DEF ReadyInv
<1>7. QED
  BY <1>1, <1>3, <1>4, <1>5, <1>6 DEF Running, ReactorInv

\* The end of a batch, an accept that fails and a stuttering step change at most
\* where the loop is.
LEMMA IdleStepInv ==
  ASSUME Running, EndBatch \/ (\E e \in ready : AcceptFails(e)) \/ UNCHANGED vars PROVE Running'
<1>1. /\ UNCHANGED <<kernelVars, slotVars, checkpos, countVars, addFails>> /\ pc' # "overrun"
      /\ ready' \subseteq ready /\ (pc' = pc \/ (pc' = "scan" /\ ready' = {}))
  <2>1. CASE EndBatch
    BY <2>1 DEF EndBatch
  <2>2. CASE \E e \in ready : AcceptFails(e)
    BY <2>2 DEF AcceptFails, Handle, Running
  <2>3. CASE UNCHANGED vars
    BY <2>3 DEF vars, Running
  <2>4. QED
    BY <2>1, <2>2, <2>3
<1>2. (TypeOK /\ StatusIsOpen /\ InterestMatchesCallback)'
  BY <1>1 DEF Running, ReactorInv, TypeOK, StatusIsOpen, InterestMatchesCallback, kernelVars, slotVars, countVars
<1>3. (EventsAreFresh /\ FileInv /\ SlotInv /\ CallbackInv /\ BytesInv)'
  BY <1>1 DEF Running, EventsAreFresh, FileInv, SlotInv, CallbackInv, BytesInv, kernelVars, slotVars, countVars
<1>4. ReadyInv'
  BY <1>1 DEF Running, ReadyInv
<1>5. QED
  BY <1>1, <1>2, <1>3, <1>4 DEF Running, ReactorInv

\* The slot and the descriptor set after nty_event_set and nty_event_add.
LEMMA Armed ==
  ASSUME Running, NEW fd \in Fds, fd \in Slots, NEW cb \in {"recv", "send"}, NEW events \in {"IN", "OUT"},
         NEW length \in 0..BUFFER_LENGTH,
         SetEvent(fd, cb, events, length), EpollCtl(fd, events, "none", 0)
  PROVE  /\ slot' = [slot EXCEPT ![fd] = [status |-> 1, events |-> events, callback |-> cb, length |-> length]]
         /\ slot' \in [Slots -> [status : 0..1, events : {"none", "IN", "OUT"},
                                 callback : {"none", "accept", "recv", "send"}, length : 0..BUFFER_LENGTH]]
         /\ slot'[fd].status = 1 /\ slot'[fd].events = events
         /\ slot'[fd].callback = cb /\ slot'[fd].length = length
         /\ \A s \in Slots \ {fd} : slot'[s] = slot[s]
         /\ idle' \in [Slots -> 0..Timeout]
         /\ interest' \in [Fds -> {"none", "IN", "OUT"}]
         /\ interest'[fd] \in {"none", events}
         /\ \A g \in Fds \ {fd} : interest'[g] = interest[g]
         /\ addFails' \in 0..MaxAddFails
<1>1. TypeOK /\ fd \in Slots
  BY Sizes DEF Running, ReactorInv
<1>2. slot' = [slot EXCEPT ![fd] = [status |-> 1, events |-> events, callback |-> cb, length |-> length]]
  BY DEF SetEvent
<1>3. slot' \in [Slots -> [status : 0..1, events : {"none", "IN", "OUT"},
                           callback : {"none", "accept", "recv", "send"}, length : 0..BUFFER_LENGTH]]
  <2>1. [status |-> 1, events |-> events, callback |-> cb, length |-> length] \in
          [status : 0..1, events : {"none", "IN", "OUT"}, callback : {"none", "accept", "recv", "send"},
           length : 0..BUFFER_LENGTH]
    OBVIOUS
  <2>2. QED
    BY <1>1, <1>2, <2>1 DEF TypeOK
<1>4. idle' \in [Slots -> 0..Timeout]
  <2>1. idle' = [idle EXCEPT ![fd] = 0] /\ 0 \in 0..Timeout /\ idle \in [Slots -> 0..Timeout]
    BY <1>1, Sizes DEF SetEvent, TypeOK
  <2>2. QED
    BY <2>1
<1>5. interest' = [interest EXCEPT ![fd] = events] \/ interest' = [interest EXCEPT ![fd] = "none"]
  BY DEF EpollCtl
<1>6. addFails' \in 0..MaxAddFails
  <2>1. addFails' = addFails \/ (addFails' = addFails + 1 /\ addFails < MaxAddFails)
    BY DEF EpollCtl
  <2>2. QED
    BY <1>1, <2>1 DEF TypeOK
<1>7. interest \in [Fds -> {"none", "IN", "OUT"}] /\ slot \in [Slots -> [status : 0..1, events : {"none", "IN", "OUT"},
        callback : {"none", "accept", "recv", "send"}, length : 0..BUFFER_LENGTH]]
  BY <1>1 DEF TypeOK
<1>8. slot'[fd] = [status |-> 1, events |-> events, callback |-> cb, length |-> length]
  BY <1>1, <1>2, <1>7
<1>9. slot'[fd].status = 1 /\ slot'[fd].events = events /\ slot'[fd].callback = cb /\ slot'[fd].length = length
  BY <1>8
<1>10. QED
  BY <1>1, <1>2, <1>3, <1>4, <1>5, <1>6, <1>7, <1>9

\* The new connection gets a descriptor that was free, and its slot with it: no
\* event of the batch is about it.
LEMMA AcceptInv == ASSUME Running, NEW e \in ready, Accept(e) PROVE Running'
<1>1. TypeOK /\ StatusIsOpen /\ InterestMatchesCallback /\ FileInv /\ SlotInv /\ CallbackInv /\ BytesInv
  BY DEF Running, ReactorInv
<1>2. PICK c \in Conns, fd \in Fds :
        /\ fd \in Slots /\ conn[c] = "backlog" /\ file[fd] = "free"
        /\ file' = [file EXCEPT ![fd] = c] /\ conn' = [conn EXCEPT ![c] = "open"]
        /\ SetEvent(fd, "recv", "IN", slot[fd].length)
        /\ EpollCtl(fd, "IN", interest[fd], slot[fd].status)
  BY DEF Accept, TakeFrom
<1>3. UNCHANGED <<inq, unread, ending, countVars, pc, checkpos>> /\ ready' = ready \ {e} /\ pc = "batch"
  BY DEF Accept, Handle
<1>4. slot[fd].status = 0 /\ interest[fd] = "none" /\ slot[fd].length \in 0..BUFFER_LENGTH /\ fd \in Slots
  <2>1. fd \in Slots /\ slot[fd].status \in 0..1 /\ slot[fd].length \in 0..BUFFER_LENGTH
    BY <1>1, <1>2, Sizes DEF TypeOK
  <2>2. slot[fd].status # 1
    BY <1>1, <1>2, <2>1, Marks DEF StatusIsOpen
  <2>3. interest[fd] = "none"
    BY <1>1, <2>2 DEF InterestMatchesCallback
  <2>4. QED
    BY <2>1, <2>2, <2>3
<1>5. /\ slot' \in [Slots -> [status : 0..1, events : {"none", "IN", "OUT"},
                              callback : {"none", "accept", "recv", "send"}, length : 0..BUFFER_LENGTH]]
      /\ slot'[fd].status = 1 /\ slot'[fd].events = "IN" /\ slot'[fd].callback = "recv"
      /\ \A s \in Slots \ {fd} : slot'[s] = slot[s]
      /\ idle' \in [Slots -> 0..Timeout] /\ interest' \in [Fds -> {"none", "IN", "OUT"}]
      /\ interest'[fd] \in {"none", "IN"} /\ \A g \in Fds \ {fd} : interest'[g] = interest[g]
      /\ addFails' \in 0..MaxAddFails
  <2>1. SetEvent(fd, "recv", "IN", slot[fd].length) /\ EpollCtl(fd, "IN", "none", 0)
    BY <1>2, <1>4
  <2>2. QED
    BY <1>4, <2>1, Armed
<1>6. /\ file' \in [Fds -> {"free", "own", "listener"} \cup Conns] /\ file'[fd] = c
      /\ \A g \in Fds \ {fd} : file'[g] = file[g] /\ file[g] # c
      /\ conn' \in [Conns -> {"new", "backlog", "open", "closed"}] /\ conn'[c] = "open"
      /\ \A d \in Conns \ {c} : conn'[d] = conn[d]
  BY <1>1, <1>2 DEF TypeOK, FileInv
<1>7. TypeOK'
  BY <1>1, <1>3, <1>5, <1>6 DEF TypeOK, countVars
<1>8. StatusIsOpen'
  <2>1. ASSUME NEW s \in Slots, s # fd
        PROVE  slot'[s].status = 1 <=> (s \in Fds /\ file'[s] \in {"listener"} \cup Conns)
    <3>1. slot'[s] = slot[s] /\ (s \in Fds => file'[s] = file[s])
      BY <1>5, <1>6, <2>1
    <3>2. QED
      BY <1>1, <3>1 DEF StatusIsOpen
  <2>2. slot'[fd].status = 1 /\ fd \in Fds /\ file'[fd] \in {"listener"} \cup Conns
    BY <1>5, <1>6
  <2>3. QED
    BY <2>1, <2>2 DEF StatusIsOpen
<1>9. InterestMatchesCallback'
  <2>1. ASSUME NEW g \in Fds, g # fd
        PROVE  /\ interest'[g] = interest[g] /\ file'[g] = file[g]
               /\ interest[g] # "none" => slot'[g] = slot[g]
    BY <1>1, <1>5, <1>6, <2>1 DEF SlotInv
  <2>2. /\ interest'[fd] \in {"none", "IN"} /\ slot'[fd].status = 1 /\ slot'[fd].events = "IN"
        /\ slot'[fd].callback = "recv" /\ file'[fd] # "listener"
    BY <1>5, <1>6, Marks
  <2>3. QED
    BY <1>1, <2>1, <2>2 DEF InterestMatchesCallback
<1>10. (EventsAreFresh /\ ReadyInv)'
  <2>1. \A d \in ready : d.fd # fd /\ d.fd \in Fds
    BY <1>2, EventOpen
  <2>2. QED
    BY <1>3, <1>6, <2>1 DEF Running, EventsAreFresh, ReadyInv
<1>11. FileInv'
  BY <1>1, <1>6 DEF FileInv
<1>12. SlotInv' /\ pc' # "overrun"
  <2>1. ASSUME NEW g \in Fds, file'[g] # "free" \/ interest'[g] # "none" PROVE g \in Slots
    BY <1>1, <1>4, <1>5, <1>6, <2>1 DEF SlotInv
  <2>2. QED
    BY <1>3, <2>1 DEF SlotInv
<1>13. CallbackInv'
  <2>1. ASSUME NEW g \in Fds, g # fd
        PROVE  file'[g] = file[g] /\ (file[g] # "free" => slot'[g] = slot[g])
    BY <1>1, <1>5, <1>6, <2>1 DEF SlotInv
  <2>2. slot'[fd].callback = "recv" /\ file'[fd] # "listener"
    BY <1>5, <1>6, Marks
  <2>3. QED
    BY <1>1, <2>1, <2>2, Marks DEF CallbackInv
<1>14. BytesInv'
  <2>1. got[c] = 0 /\ echoed[c] = 0
    BY <1>1, <1>2 DEF BytesInv, TypeOK
  <2>2. UNCHANGED <<got, echoed, sent, inq, short>>
    BY <1>3 DEF countVars
  <2>3. ASSUME NEW d \in Conns, NEW g \in Fds, file'[g] = d
        PROVE  IF slot'[g].callback = "send"
               THEN /\ echoed[d] + slot'[g].length <= got[d]
                    /\ d \notin short => echoed[d] + slot'[g].length = got[d]
               ELSE d \notin short => echoed[d] = got[d]
    <3>1. CASE g = fd
      BY <1>5, <1>6, <2>1, <2>3, <3>1
    <3>2. CASE g # fd
      <4>1. slot'[g] = slot[g] /\ file[g] = d
        <5>1. file[g] = d /\ file[g] # "free"
          BY <1>6, <2>3, <3>2, Marks
        <5>2. QED
          BY <1>1, <1>5, <3>2, <5>1 DEF SlotInv
      <4>2. QED
        BY <1>1, <4>1 DEF BytesInv
    <3>3. QED
      BY <3>1, <3>2
  <2>4. \A d \in Conns : conn'[d] \in {"new", "backlog"} => got[d] = 0
    BY <1>1, <1>6 DEF BytesInv
  <2>5. \A d \in Conns : got[d] + inq[d] = sent[d] /\ echoed[d] <= got[d]
    BY <1>1 DEF BytesInv
  <2>6. QED
    BY <2>2, <2>3, <2>4, <2>5 DEF BytesInv
<1>15. QED
  BY <1>7, <1>8, <1>9, <1>10, <1>11, <1>13, <1>14, <1>12 DEF Running, ReactorInv

\* Receiving and sending move the slot of an open connection to the other
\* callback, and the bytes with it.
LEMMA TransferInv ==
  ASSUME Running, NEW e \in ready, NEW cb \in {"recv", "send"}, NEW length \in 0..BUFFER_LENGTH,
         NEW events, events = IF cb = "send" THEN "OUT" ELSE "IN",
         file[e.fd] \in Conns,
         SetEvent(e.fd, cb, events, length), EpollCtl(e.fd, events, "none", 0),
         UNCHANGED <<file, conn, ending, sent, pc, checkpos>>, ready' = ready \ {e},
         inq' \in [Conns -> 0..MaxBytes], unread' \in [Conns -> 0..Room],
         got' \in [Conns -> 0..MaxBytes], echoed' \in [Conns -> 0..MaxBytes], short' \subseteq Conns,
         short \subseteq short',
         \A c \in Conns : got'[c] + inq'[c] = sent[c] /\ echoed'[c] <= got'[c],
         \A c \in Conns \ {file[e.fd]} : /\ got'[c] = got[c] /\ echoed'[c] = echoed[c]
                                         /\ c \in short' => c \in short,
         IF cb = "send" THEN /\ echoed'[file[e.fd]] + length <= got'[file[e.fd]]
                             /\ file[e.fd] \notin short' => echoed'[file[e.fd]] + length = got'[file[e.fd]]
                        ELSE file[e.fd] \notin short' => echoed'[file[e.fd]] = got'[file[e.fd]]
  PROVE  Running'
<1>1. TypeOK /\ StatusIsOpen /\ InterestMatchesCallback /\ FileInv /\ SlotInv /\ CallbackInv /\ BytesInv
  BY DEF Running, ReactorInv
<1>2. PICK fd \in Fds : fd = e.fd /\ fd \in Slots /\ pc = "batch"
  BY EventOpen
<1>3. /\ slot' \in [Slots -> [status : 0..1, events : {"none", "IN", "OUT"},
                              callback : {"none", "accept", "recv", "send"}, length : 0..BUFFER_LENGTH]]
      /\ slot'[fd].status = 1 /\ slot'[fd].events = events
      /\ slot'[fd].callback = cb /\ slot'[fd].length = length
      /\ \A s \in Slots \ {fd} : slot'[s] = slot[s]
      /\ idle' \in [Slots -> 0..Timeout] /\ interest' \in [Fds -> {"none", "IN", "OUT"}]
      /\ interest'[fd] \in {"none", events} /\ \A g \in Fds \ {fd} : interest'[g] = interest[g]
      /\ addFails' \in 0..MaxAddFails
  <2>1. events \in {"IN", "OUT"} /\ SetEvent(fd, cb, events, length) /\ EpollCtl(fd, events, "none", 0)
    BY <1>2
  <2>2. fd \in Fds /\ fd \in Slots /\ cb \in {"recv", "send"} /\ length \in 0..BUFFER_LENGTH
    BY <1>2
  <2>3. CASE cb = "send"
    <3>1. events = "OUT" /\ SetEvent(fd, "send", "OUT", length) /\ EpollCtl(fd, "OUT", "none", 0)
      BY <2>1, <2>3
    <3>2. QED
      BY <2>2, <2>3, <3>1, Armed
  <2>4. CASE cb = "recv"
    <3>1. events = "IN" /\ SetEvent(fd, "recv", "IN", length) /\ EpollCtl(fd, "IN", "none", 0)
      BY <2>1, <2>4
    <3>2. QED
      BY <2>2, <2>4, <3>1, Armed
  <2>5. QED
    BY <2>2, <2>3, <2>4
<1>4. TypeOK'
  BY <1>1, <1>3 DEF TypeOK
<1>5. StatusIsOpen'
  BY <1>1, <1>2, <1>3, Sizes DEF StatusIsOpen
<1>6. InterestMatchesCallback'
  <2>1. ASSUME NEW g \in Fds, g # fd
        PROVE  interest'[g] = interest[g] /\ (interest[g] # "none" => slot'[g] = slot[g])
    BY <1>1, <1>3, <2>1 DEF SlotInv
  <2>2. file[fd] # "listener" /\ events = IF cb = "send" THEN "OUT" ELSE "IN"
    BY <1>2, Marks
  <2>3. /\ interest'[fd] \in {"none", events} /\ slot'[fd].status = 1 /\ slot'[fd].events = events
        /\ slot'[fd].callback = cb
    BY <1>3
  <2>4. QED
    BY <1>1, <2>1, <2>2, <2>3 DEF InterestMatchesCallback
<1>7. (EventsAreFresh /\ ReadyInv /\ FileInv)'
  BY <1>1, <1>2 DEF Running, EventsAreFresh, ReadyInv, FileInv
<1>8. SlotInv' /\ pc' # "overrun"
  BY <1>1, <1>2, <1>3 DEF SlotInv
<1>9. CallbackInv'
  <2>1. ASSUME NEW g \in Fds, g # fd, file[g] # "free" PROVE slot'[g] = slot[g]
    BY <1>1, <1>3, <2>1 DEF SlotInv
  <2>2. slot'[fd].callback \in {"recv", "send"} /\ file[fd] # "listener"
    BY <1>2, <1>3, Marks
  <2>3. QED
    BY <1>1, <2>1, <2>2, Marks DEF CallbackInv
<1>10. BytesInv'
  <2>1. ASSUME NEW c \in Conns, NEW g \in Fds, file[g] = c
        PROVE  IF slot'[g].callback = "send"
               THEN /\ echoed'[c] + slot'[g].length <= got'[c]
                    /\ c \notin short' => echoed'[c] + slot'[g].length = got'[c]
               ELSE c \notin short' => echoed'[c] = got'[c]
    <3>1. CASE g = fd
      BY <1>2, <1>3, <2>1, <3>1
    <3>2. CASE g # fd
      <4>1. c # file[fd] /\ g \in Slots /\ slot'[g] = slot[g]
        <5>1. c # file[fd] /\ file[g] # "free"
          BY <1>1, <1>2, <2>1, <3>2, Marks DEF FileInv
        <5>2. g \in Slots
          BY <1>1, <5>1 DEF SlotInv
        <5>3. QED
          BY <1>3, <3>2, <5>1, <5>2
      <4>2. got'[c] = got[c] /\ echoed'[c] = echoed[c] /\ (c \notin short' => c \notin short)
        BY <1>2, <4>1
      <4>3. IF slot[g].callback = "send"
            THEN /\ echoed[c] + slot[g].length <= got[c]
                 /\ c \notin short => echoed[c] + slot[g].length = got[c]
            ELSE c \notin short => echoed[c] = got[c]
        BY <1>1, <2>1 DEF BytesInv
      <4>4. QED
        BY <4>1, <4>2, <4>3
    <3>3. QED
      BY <3>1, <3>2
  <2>2. \A c \in Conns : conn[c] \in {"new", "backlog"} => got'[c] = 0
    <3>1. conn[file[e.fd]] = "open"
      BY <1>1, <1>2 DEF FileInv
    <3>2. QED
      BY <1>1, <3>1 DEF BytesInv
  <2>3. QED
    BY <2>1, <2>2 DEF BytesInv
<1>11. QED
  BY <1>4, <1>5, <1>6, <1>7, <1>9, <1>10, <1>8 DEF Running, ReactorInv

\* recv_cb with data: the buffer was empty, and now holds what was received.
LEMMA ReceiveInv == ASSUME Running, NEW e \in ready, Receive(e) PROVE Running'
<1> DEFINE c == file[e.fd]
           len == Min({inq[c], BUFFER_LENGTH})
<1>1. TypeOK /\ StatusIsOpen /\ InterestMatchesCallback /\ FileInv /\ SlotInv /\ CallbackInv /\ BytesInv /\ e.fd \in Fds
  BY EventOpen DEF Running, ReactorInv
<1>2. /\ pc = "batch" /\ slot[e.fd].callback = "recv" /\ CanReceive(c)
      /\ ready' = ready \ {e} /\ UNCHANGED <<pc, checkpos>>
      /\ inq' = [inq EXCEPT ![c] = @ - len] /\ got' = [got EXCEPT ![c] = @ + len]
      /\ SetEvent(e.fd, "send", "OUT", len) /\ EpollCtl(e.fd, "OUT", "none", 0)
      /\ UNCHANGED <<file, conn, unread, ending, sent, echoed, short>>
  BY DEF Receive, Handle
<1>3. c \in Conns /\ inq[c] \in Nat /\ BUFFER_LENGTH \in Nat
  BY <1>1, <1>2, Sizes DEF CanReceive, TypeOK
<1>4. len \in Nat /\ len <= inq[c] /\ len <= BUFFER_LENGTH
  <2>1. inq[c] \in Int /\ BUFFER_LENGTH \in Int
    BY <1>3
  <2>2. len \in {inq[c], BUFFER_LENGTH} /\ len <= inq[c] /\ len <= BUFFER_LENGTH
    BY <2>1, MinOfTwo
  <2>3. QED
    BY <1>3, <2>2
<1> HIDE DEF len
<1>5. /\ got[c] \in Nat /\ sent[c] \in 0..MaxBytes /\ echoed[c] \in Nat
      /\ got[c] + inq[c] = sent[c] /\ echoed[c] <= got[c] /\ (c \notin short => echoed[c] = got[c])
  <2>1. got[c] \in Nat /\ sent[c] \in 0..MaxBytes /\ echoed[c] \in Nat
    BY <1>1, <1>3 DEF TypeOK
  <2>2. got[c] + inq[c] = sent[c] /\ echoed[c] <= got[c]
    BY <1>1, <1>3 DEF BytesInv
  <2>3. IF slot[e.fd].callback = "send"
        THEN /\ echoed[c] + slot[e.fd].length <= got[c]
             /\ c \notin short => echoed[c] + slot[e.fd].length = got[c]
        ELSE c \notin short => echoed[c] = got[c]
    BY <1>1, <1>3 DEF BytesInv
  <2>4. QED
    BY <1>2, <2>1, <2>2, <2>3
<1>6. inq[c] - len \in 0..MaxBytes /\ got[c] + len \in 0..MaxBytes
  BY <1>3, <1>4, <1>5
<1>7. /\ inq' \in [Conns -> 0..MaxBytes] /\ got' \in [Conns -> 0..MaxBytes]
      /\ inq'[c] = inq[c] - len /\ got'[c] = got[c] + len
      /\ \A d \in Conns \ {c} : inq'[d] = inq[d] /\ got'[d] = got[d]
  BY <1>1, <1>2, <1>3, <1>6 DEF TypeOK
<1>8. \A d \in Conns : got'[d] + inq'[d] = sent[d] /\ echoed'[d] <= got'[d]
  <2>1. got'[c] + inq'[c] = sent[c] /\ echoed[c] <= got'[c]
    BY <1>3, <1>4, <1>5, <1>7
  <2>2. \A d \in Conns \ {c} : got'[d] + inq'[d] = sent[d] /\ echoed[d] <= got'[d]
    BY <1>1, <1>7 DEF BytesInv
  <2>3. QED
    BY <1>2, <2>1, <2>2
<1>9. echoed[c] + len <= got'[c] /\ (c \notin short => echoed[c] + len = got'[c])
  BY <1>4, <1>5, <1>7
<1>10. unread' \in [Conns -> 0..Room] /\ echoed' \in [Conns -> 0..MaxBytes] /\ short' \subseteq Conns
  BY <1>1, <1>2 DEF TypeOK
<1>11. len \in 0..BUFFER_LENGTH
  BY <1>3, <1>4
<1>12. QED
  BY <1>2, <1>3, <1>7, <1>8, <1>9, <1>10, <1>11, TransferInv

\* send_cb: the buffer is taken to be sent, and what did not fit is forgotten.
LEMMA SendInv == ASSUME Running, NEW e \in ready, Send(e) PROVE Running'
<1> DEFINE c == file[e.fd]
           length == slot[e.fd].length
           len == Min({length, Room - unread[c]})
<1>1. /\ TypeOK /\ StatusIsOpen /\ InterestMatchesCallback /\ FileInv /\ SlotInv /\ CallbackInv /\ BytesInv
      /\ e.fd \in Fds /\ e.fd \in Slots
  BY EventOpen DEF Running, ReactorInv
<1>2. /\ pc = "batch" /\ slot[e.fd].callback = "send" /\ CanSend(c)
      /\ ready' = ready \ {e} /\ UNCHANGED <<pc, checkpos>>
      /\ unread' = [unread EXCEPT ![c] = @ + len] /\ echoed' = [echoed EXCEPT ![c] = @ + len]
      /\ short' = IF len < length THEN short \cup {c} ELSE short
      /\ SetEvent(e.fd, "recv", "IN", length) /\ EpollCtl(e.fd, "IN", "none", 0)
      /\ UNCHANGED <<file, conn, inq, ending, sent, got>>
  BY DEF Send, Handle
<1>3. c \in Conns /\ length \in 0..BUFFER_LENGTH /\ unread[c] \in 0..Room /\ Room \in Nat /\ BUFFER_LENGTH \in Nat
  BY <1>1, <1>2, Sizes DEF CanSend, TypeOK
<1> HIDE DEF length
<1>4. len \in Nat /\ len <= length /\ len <= Room - unread[c]
  <2>1. length \in Int /\ Room - unread[c] \in Int /\ Room - unread[c] >= 0 /\ length >= 0
    BY <1>3
  <2>2. len \in {length, Room - unread[c]} /\ len <= length /\ len <= Room - unread[c]
    BY <2>1, MinOfTwo
  <2>3. QED
    BY <2>1, <2>2
<1> HIDE DEF len
<1>5. /\ got[c] \in 0..MaxBytes /\ echoed[c] \in Nat /\ echoed[c] + length <= got[c]
      /\ (c \notin short => echoed[c] + length = got[c])
  <2>1. got[c] \in 0..MaxBytes /\ echoed[c] \in Nat
    BY <1>1, <1>3 DEF TypeOK
  <2>2. IF slot[e.fd].callback = "send"
        THEN /\ echoed[c] + slot[e.fd].length <= got[c]
             /\ c \notin short => echoed[c] + slot[e.fd].length = got[c]
        ELSE c \notin short => echoed[c] = got[c]
    BY <1>1, <1>3 DEF BytesInv
  <2>3. QED
    BY <1>2, <2>1, <2>2 DEF length
<1>6. unread[c] + len \in 0..Room /\ echoed[c] + len \in 0..MaxBytes
  BY <1>3, <1>4, <1>5
<1>7. /\ unread' \in [Conns -> 0..Room] /\ echoed' \in [Conns -> 0..MaxBytes]
      /\ echoed'[c] = echoed[c] + len /\ \A d \in Conns \ {c} : echoed'[d] = echoed[d]
  BY <1>1, <1>2, <1>3, <1>6 DEF TypeOK
<1>8. \A d \in Conns : got'[d] + inq'[d] = sent[d] /\ echoed'[d] <= got'[d]
  <2>1. echoed'[c] <= got[c]
    BY <1>3, <1>4, <1>5, <1>7
  <2>2. QED
    BY <1>1, <1>2, <1>7, <2>1 DEF BytesInv
<1>9. c \notin short' => echoed'[c] = got'[c]
  BY <1>2, <1>3, <1>4, <1>5, <1>7
<1>10. /\ inq' \in [Conns -> 0..MaxBytes] /\ got' \in [Conns -> 0..MaxBytes]
       /\ short' \subseteq Conns /\ short \subseteq short' /\ \A d \in Conns \ {c} : d \in short' => d \in short
  BY <1>1, <1>2, <1>3 DEF TypeOK
<1>11. QED
  BY <1>2, <1>3, <1>7, <1>8, <1>9, <1>10, TransferInv

\* A descriptor without a slot ends the model.
LEMMA OverrunInv == ASSUME Running, NEW e \in ready, AcceptOverruns(e) PROVE IInv'
<1>1. PICK c \in Conns, fd \in Fds : file' = [file EXCEPT ![fd] = c] /\ conn' = [conn EXCEPT ![c] = "open"]
  BY DEF AcceptOverruns, TakeFrom
<1>2. TypeOK
  BY DEF Running, ReactorInv
<1>3. file' \in [Fds -> {"free", "own", "listener"} \cup Conns] /\ conn' \in [Conns -> {"new", "backlog", "open", "closed"}]
  BY <1>1, <1>2 DEF TypeOK
<1>4. TypeOK' /\ pc' = "overrun" /\ ready' = {}
  BY <1>2, <1>3 DEF AcceptOverruns, TypeOK, slotVars, countVars
<1>5. QED
  BY <1>4 DEF IInv

\* Every step of the server, of a peer and of the clock keeps the invariant.
LEMMA StepInv == IInv /\ [Next]_vars => IInv'
<1> SUFFICES ASSUME IInv, [Next]_vars PROVE IInv'
  OBVIOUS
<1>1. Running' => IInv'
  BY DEF IInv, Running, ReactorInv
<1>2. CASE pc = "overrun"
  <2>1. UNCHANGED vars
    BY <1>2 DEF Next, Run, Scan, EpollWait, EndBatch, Callback, Accept, AcceptOverruns, AcceptFails, Receive,
                ReceiveFails, Send, SendFails, Handle, Tick, Peer, Overrun
  <2>2. TypeOK' /\ ready' = {} /\ pc' = "overrun"
    BY <1>2, <2>1 DEF IInv, Running, TypeOK, vars, kernelVars, slotVars, countVars
  <2>3. QED
    BY <2>2 DEF IInv
<1>3. CASE pc # "overrun"
  <2>1. Running
    BY <1>3 DEF IInv
  <2>2. CASE Scan \/ EpollWait \/ EndBatch \/ Overrun \/ UNCHANGED vars
    BY <1>1, <2>1, <2>2, ScanInv, EpollWaitInv, IdleStepInv DEF Overrun
  <2>3. CASE \E e \in ready : Callback(e)
    <3>1. PICK e \in ready : Callback(e)
      BY <2>3
    <3>2. QED
      BY <1>1, <2>1, <3>1, AcceptInv, OverrunInv, IdleStepInv, ReceiveInv, SendInv, CallbackClosesInv DEF Callback
  <2>4. CASE Tick \/ \E c \in Conns : Peer(c)
    BY <1>1, <2>1, <2>4, TickInv, PeerInv
  <2>5. QED
    BY <2>2, <2>3, <2>4 DEF Next, Run
<1>4. QED
  BY <1>2, <1>3

----------------------------------------------------------------------------
(* The theorems. *)

\* The inductive invariant always holds.
THEOREM Invariant == Spec => []IInv
<1>1. Init => IInv
  BY InitInv
<1>2. IInv /\ [Next]_vars => IInv'
  BY StepInv
<1>3. QED
  BY <1>1, <1>2, PTL DEF Spec

\* Slots, descriptors and the epoll set agree at every step of a batch: the scan
\* never closes a descriptor that was given to somebody else, and the callback
\* of a slot is the one for what epoll waits for (reactor.c:63-98, 304-326).
THEOREM SlotsAgree == Spec => []ReactorInv
<1>1. IInv => ReactorInv
  BY DEF IInv, Running, ReactorInv
<1>2. QED
  BY <1>1, Invariant, PTL

\* Although callbacks of the batch close and open descriptors, every event that
\* is left of it is still about the connection it was reported for.
THEOREM EventsStayFresh == Spec => []EventsAreFresh
<1>1. IInv => EventsAreFresh
  BY DEF IInv, Running, EventsAreFresh
<1>2. QED
  BY <1>1, Invariant, PTL

\* The one buffer of a slot is never received into before what it holds was
\* given to send.
THEOREM BufferSentFirst == Spec => []EchoedBeforeReceiving
<1>1. IInv => EchoedBeforeReceiving
  BY DEF IInv, Running, BytesInv, EchoedBeforeReceiving
<1>2. QED
  BY <1>1, Invariant, PTL
=============================================================================
