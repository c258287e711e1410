---------------------------- MODULE SampleProofs ----------------------------
(***************************************************************************)
(* Proofs about the smaller programs, each a section of its own. The spec  *)
(* of a program allows any of its inputs; the steps of Samples that are    *)
(* about the program are steps of it. The sections share nothing.          *)
(***************************************************************************)
EXTENDS Observer, MqttDevices, EventLoops, Zpipe, XdpNat,
        BloomFilter, Exceptions, MemoryPool, Designs, NaturalRecursion,
        SequenceTheorems

----------------------------------------------------------------------------
(* Observers: a list of addresses, notified by job and level. *)

\* Any steps of the program.
ObserverSpec == ObserverInit /\ [][ObserverNext]_observerVars

ObserverType ==
  /\ watcherJob \in [Watchers -> Jobs \cup {"none", "deleted"}]
  /\ observers \in Seq(Watchers) /\ polluteLevel \in PolluteLevels
  /\ attached \subseteq Watchers /\ careless \subseteq Watchers

\* Whoever has attached is in the list and lives; the other entries are left of deleted watchers.
ObserverInv ==
  /\ ObserverType
  /\ \A k \in DOMAIN observers : observers[k] \in attached \cup careless
  /\ \A w \in attached : Lives(w) /\ \E k \in DOMAIN observers : observers[k] = w
  /\ ObserversLive

\* Taken out of the list is every entry of w and no other.
LEMMA RemovedIs ==
  ASSUME observers \in Seq(Watchers), NEW w \in Watchers
  PROVE  /\ Removed(w) \in Seq(Watchers)
         /\ \A k \in DOMAIN Removed(w) : Removed(w)[k] # w /\ \E j \in DOMAIN observers : observers[j] = Removed(w)[k]
         /\ \A j \in DOMAIN observers : observers[j] # w => \E k \in DOMAIN Removed(w) : Removed(w)[k] = observers[j]
<1> DEFINE N == Len(observers)
           T == Seq(Watchers)
           Step(q, v) == IF v = w THEN q ELSE Append(q, v)
           next == [k \in 1..N |-> [q \in T |-> Step(q, observers[k])]]
           Eq(f) == f = [k \in 0..N |-> IF k = 0 THEN <<>> ELSE Step(f[k - 1], observers[k])]
           kept == CHOOSE f : Eq(f)
           From(q) == \A k \in DOMAIN q : q[k] # w /\ \E j \in DOMAIN observers : observers[j] = q[k]
           Onto(q, n) == \A j \in DOMAIN observers : j <= n /\ observers[j] # w => \E k \in DOMAIN q : q[k] = observers[j]
<1>1. N \in Nat /\ DOMAIN observers = 1..N /\ \A k \in 1..N : observers[k] \in Watchers
  OBVIOUS
<1>2. next \in Steps(N, T) /\ \A k \in 1..N, q \in T : next[k][q] = Step(q, observers[k])
  BY <1>1 DEF Steps
<1>3. <<>> \in T
  OBVIOUS
<1>4. \E f : IsRecursion(f, N, T, <<>>, next)
  <2> HIDE DEF next, N, T
  <2>1. QED
    BY <1>1, <1>2, <1>3, RecursionUpTo
<1>5. PICK f : f \in [0..N -> T] /\ f[0] = <<>> /\ \A k \in 1..N : f[k] = next[k][f[k - 1]]
  BY <1>4 DEF IsRecursion
<1> HIDE DEF next, T
<1>6. \A k \in 0..N : f[k] = IF k = 0 THEN <<>> ELSE Step(f[k - 1], observers[k])
  <2>1. SUFFICES ASSUME NEW k \in 0..N, k # 0 PROVE f[k] = Step(f[k - 1], observers[k])
    BY <1>5
  <2>2. k \in 1..N /\ k - 1 \in 0..N /\ f[k - 1] \in T
    BY <1>1, <1>5, <2>1
  <2>3. QED
    BY <1>2, <1>5, <2>2
<1>7. Eq(f)
  BY <1>5, <1>6
<1> HIDE DEF Eq
<1>8. Eq(kept)
  BY <1>7
<1>9. \A k \in 0..N : kept[k] = IF k = 0 THEN <<>> ELSE Step(kept[k - 1], observers[k])
  <2> HIDE DEF kept
  <2>1. QED
    BY <1>8 DEF Eq
<1>10. Removed(w) = kept[N]
  BY DEF Removed, Eq
<1> HIDE DEF kept, From, Onto, N
<1>11. \A k \in 0..N : kept[k] \in T /\ From(kept[k]) /\ Onto(kept[k], k)
  <2> DEFINE Good == {k \in 0..N : kept[k] \in T /\ From(kept[k]) /\ Onto(kept[k], k)}
  <2>1. 0 \in Good
    <3>1. 0 \in 0..N /\ kept[0] = <<>>
      BY <1>1, <1>9
    <3>2. From(<<>>)
      BY DEF From
    <3>3. Onto(<<>>, 0)
      BY <1>1 DEF Onto
    <3>4. QED
      BY <1>3, <3>1, <3>2, <3>3
  <2>2. ASSUME NEW n \in 1..N, n - 1 \in Good PROVE n \in Good
    <3>1. n \in 0..N /\ n # 0 /\ n \in DOMAIN observers /\ observers[n] \in Watchers
      BY <1>1
    <3>2. PICK q : q = kept[n - 1]
      OBVIOUS
    <3>3. kept[n] = Step(q, observers[n])
      BY <1>9, <3>1, <3>2
    <3>4. q \in Seq(Watchers) /\ From(q) /\ Onto(q, n - 1)
      BY <2>2, <3>2 DEF T
    <3>5. \A j \in DOMAIN observers : j <= n => j <= n - 1 \/ j = n
      BY <1>1
    <3>6. CASE observers[n] = w
      <4>1. kept[n] = q
        BY <3>3, <3>6
      <4>2. Onto(q, n)
        BY <3>4, <3>5, <3>6 DEF Onto
      <4>3. QED
        BY <3>1, <3>4, <4>1, <4>2 DEF T
    <3>7. CASE observers[n] # w
      <4>1. PICK t : t = Append(q, observers[n])
        OBVIOUS
      <4>2. kept[n] = t
        BY <3>3, <3>7, <4>1
      <4>3. /\ t \in Seq(Watchers) /\ DOMAIN t = DOMAIN q \cup {Len(q) + 1}
            /\ t[Len(q) + 1] = observers[n] /\ \A i \in DOMAIN q : t[i] = q[i]
        BY <3>1, <3>4, <4>1
      <4>4. From(t)
        BY <3>1, <3>4, <3>7, <4>3 DEF From
      <4>5. Onto(t, n)
        BY <3>4, <3>5, <4>3 DEF Onto
      <4>6. QED
        BY <3>1, <4>2, <4>3, <4>4, <4>5 DEF T
    <3>8. QED
      BY <3>6, <3>7
  <2> HIDE DEF Good
  <2>3. 0..N \subseteq Good
    BY <1>1, <2>1, <2>2, InductionUpTo
  <2>4. QED
    BY <2>3 DEF Good
<1>12. N \in 0..N /\ \A j \in DOMAIN observers : j <= N
  BY <1>1
<1>13. QED
  BY <1>10, <1>11, <1>12 DEF T, From, Onto

\* Nobody watches at first.
LEMMA ObserverStarts == ObserverInit => ObserverInv
  BY DEF ObserverInit, ObserverInv, ObserverType, ObserversLive, PolluteLevels

\* The tests of notifyWatchers ask for the jobs that the requirement names.
LEMMA CalledIsAsked ==
  ASSUME NEW w \in Watchers, NEW level \in PolluteLevels
  PROVE  Called(w, level) <=> watcherJob[w] \in Asked(level)
BY DEF Called, Asked, Jobs, PolluteLevels

\* What is notified of a list whose entries are those who have attached, and careless ones.
LEMMA NotifyRight ==
  ASSUME ObserverInv, NEW level \in PolluteLevels, Notify(level)
  PROVE  ObserversLive'
<1>1. /\ notified'.got = {w \in ToSet(observers) : Lives(w) /\ Called(w, level)}
      /\ notified'.dead = {w \in ToSet(observers) : ~ Lives(w)}
      /\ notified'.due = {w \in attached : watcherJob[w] \in Asked(level)}
      /\ notified'.careless = careless
  BY DEF Notify
<1>2. /\ observers \in Seq(Watchers) /\ attached \subseteq Watchers
      /\ \A k \in DOMAIN observers : observers[k] \in attached \cup careless
      /\ \A w \in attached : Lives(w) /\ \E k \in DOMAIN observers : observers[k] = w
  BY DEF ObserverInv, ObserverType
<1>3. \A w : w \in ToSet(observers) <=> \E k \in DOMAIN observers : observers[k] = w
  BY DEF ToSet
<1>4. \A w \in ToSet(observers) : w \in attached \cup careless
  BY <1>2, <1>3
<1>5. notified'.dead \subseteq notified'.careless
  BY <1>1, <1>2, <1>4
<1>6. \A w \in attached : w \in ToSet(observers) /\ w \in Watchers
  BY <1>2, <1>3
<1>7. ASSUME NEW w PROVE w \in notified'.got \ careless <=> w \in notified'.due \ careless
  BY <1>1, <1>2, <1>4, <1>6, CalledIsAsked
<1>8. notified'.got \ careless = notified'.due \ careless
  BY <1>7
<1>9. QED
  BY <1>1, <1>5, <1>8 DEF ObserversLive

\* Every step of the program keeps the invariant.
LEMMA ObserverStep == ObserverInv /\ [ObserverNext]_observerVars => ObserverInv'
<1> SUFFICES ASSUME ObserverInv, [ObserverNext]_observerVars PROVE ObserverInv'
  OBVIOUS
<1>1. /\ ObserverType /\ ObserversLive
      /\ \A k \in DOMAIN observers : observers[k] \in attached \cup careless
      /\ \A w \in attached : Lives(w) /\ \E k \in DOMAIN observers : observers[k] = w
  BY DEF ObserverInv
<1>2. UNCHANGED notified => ObserversLive'
  BY <1>1 DEF ObserversLive
<1>3. ASSUME NEW w \in Watchers, NEW job \in Jobs, Create(w) \/ SetJob(w, job) PROVE ObserverInv'
  <2>1. /\ watcherJob' \in [Watchers -> Jobs \cup {"none", "deleted"}] /\ (watcherJob'[w] # "deleted")
        /\ \A v \in Watchers : v # w => watcherJob'[v] = watcherJob[v]
        /\ UNCHANGED <<observers, polluteLevel, attached, careless, notified>>
    BY <1>1, <1>3 DEF Create, SetJob, Jobs, ObserverType
  <2>2. QED
    BY <1>1, <1>2, <2>1 DEF ObserverInv, ObserverType, Lives
<1>4. ASSUME NEW w \in Watchers, Delete(w) PROVE ObserverInv'
  <2>1. /\ watcherJob' \in [Watchers -> Jobs \cup {"none", "deleted"}]
        /\ \A v \in Watchers : v # w => watcherJob'[v] = watcherJob[v]
        /\ attached' = attached \ {w} /\ careless' = careless \cup ({w} \cap attached)
        /\ UNCHANGED <<observers, polluteLevel, notified>>
    BY <1>1, <1>4 DEF Delete, ObserverType
  <2>2. \A v \in attached \cup careless : v \in attached' \cup careless'
    BY <2>1
  <2>3. QED
    BY <1>1, <1>2, <2>1, <2>2 DEF ObserverInv, ObserverType, Lives
<1>5. ASSUME NEW w \in Watchers, Attach(w) PROVE ObserverInv'
  <2>1. /\ Lives(w) /\ observers' \in Seq(Watchers) /\ DOMAIN observers' = DOMAIN observers \cup {Len(observers) + 1}
        /\ observers'[Len(observers) + 1] = w /\ \A k \in DOMAIN observers : observers'[k] = observers[k]
        /\ attached' = attached \cup {w} /\ UNCHANGED <<watcherJob, polluteLevel, careless, notified>>
    BY <1>1, <1>5 DEF Attach, ObserverType
  <2>2. ObserverType'
    BY <1>1, <2>1 DEF ObserverType
  <2>3. \A k \in DOMAIN observers' : observers'[k] \in attached' \cup careless'
    BY <1>1, <2>1
  <2>4. \A v \in attached' : Lives(v)' /\ \E k \in DOMAIN observers' : observers'[k] = v
    BY <1>1, <2>1 DEF Lives
  <2>5. QED
    BY <1>2, <2>1, <2>2, <2>3, <2>4 DEF ObserverInv
<1>6. ASSUME NEW w \in Watchers, Detach(w) PROVE ObserverInv'
  <2>1. /\ observers' = Removed(w) /\ attached' = attached \ {w} /\ careless' = careless \ {w}
        /\ UNCHANGED <<watcherJob, polluteLevel, notified>>
    BY <1>6 DEF Detach
  <2>2. /\ observers' \in Seq(Watchers)
        /\ \A k \in DOMAIN observers' : observers'[k] # w /\ \E j \in DOMAIN observers : observers[j] = observers'[k]
        /\ \A j \in DOMAIN observers : observers[j] # w => \E k \in DOMAIN observers' : observers'[k] = observers[j]
    BY <1>1, <2>1, RemovedIs DEF ObserverType
  <2>3. ObserverType'
    BY <1>1, <2>1, <2>2 DEF ObserverType
  <2>4. \A k \in DOMAIN observers' : observers'[k] \in attached' \cup careless'
    BY <1>1, <2>1, <2>2
  <2>5. \A v \in attached' : Lives(v)' /\ \E k \in DOMAIN observers' : observers'[k] = v
    BY <1>1, <2>1, <2>2 DEF Lives
  <2>6. QED
    BY <1>2, <2>1, <2>3, <2>4, <2>5 DEF ObserverInv
<1>7. ASSUME NEW level \in PolluteLevels, Notify(level), polluteLevel' = level,
             UNCHANGED <<watcherJob, observers, attached, careless>>
      PROVE  ObserverInv'
  BY <1>1, <1>7, NotifyRight DEF ObserverInv, ObserverType, Lives
<1>8. notifyWatchers => ObserverInv'
  BY <1>1, <1>7 DEF notifyWatchers, ObserverType
<1>9. \A level \in PolluteLevels : SetPolluteLevel(level) => ObserverInv'
  BY <1>7 DEF SetPolluteLevel
<1>10. CASE UNCHANGED observerVars
  BY <1>1, <1>2, <1>10 DEF observerVars, ObserverInv, ObserverType, Lives
<1>11. \E job : job \in Jobs
  BY DEF Jobs
<1>12. QED
  BY <1>3, <1>4, <1>5, <1>6, <1>8, <1>9, <1>10, <1>11 DEF ObserverNext

\* The theorem of this section: a notification calls exactly those who have attached and not detached
\* since and whose job the requirement names at the level, and nobody who is gone, but for addresses of
\* watchers that were deleted while attached (attach, detach, notifyWatchers), for any watchers.
THEOREM ObserversStayLive == ObserverSpec => []ObserversLive
<1>1. ObserverInv => ObserversLive
  BY DEF ObserverInv
<1>2. QED
  BY <1>1, ObserverStarts, ObserverStep, PTL DEF ObserverSpec

----------------------------------------------------------------------------
(* MQTT devices: sessions of the broker, and subscriptions of the server and its devices. *)

\* Any inputs, and any steps of the program.
MqttSpec == MqttInit /\ [][MqttNext]_mqttVars

MqttMessages == [kind : {"state", "command", "result", "will"}, device : Devices, n : Nat]
MqttSessions == [topics : SUBSET {"state", "command", "result", "will"}, queue : SUBSET MqttMessages]

MqttType ==
  /\ online \in SUBSET Programs /\ connects \in [Programs -> 0..MaxConnects]
  /\ session \in [Programs -> MqttSessions]
  /\ deviceStage \in [Devices -> {"await", "subscribe", "publish"}] /\ sent \in [Devices -> Nat]
  /\ routine \in [1..MaxConnects -> SUBSET ServerTopics]
  /\ handling \in [Programs -> MqttMessages \cup {NoMessage}]
  /\ forgotten \in SUBSET Devices /\ wills \in SUBSET Devices /\ told \in SUBSET Devices

ConnectedOnce == \A p \in online : connects[p] > 0

\* What the server has not subscribed is left to the OnConnectionUp of this connection.
ServerSubscribes ==
  /\ session[Server].topics \subseteq ServerTopics
  /\ Server \in online => ServerTopics \subseteq session[Server].topics \cup routine[connects[Server]]

\* A device has no session before it subscribes, and its one topic until it is forgotten.
DevicesSubscribed ==
  \A d \in Devices :
    /\ deviceStage[d] # "await" => connects[d] > 0
    /\ deviceStage[d] # "publish" => session[d] = NoSession /\ d \notin forgotten
    /\ deviceStage[d] = "publish" => session[d].topics = IF d \in forgotten THEN {} ELSE {"command"}

\* The server is told of the wills that are retained.
WillsRetained ==
  /\ \A p \in Programs : \A m \in session[p].queue : m.kind = "will" => m.device \in wills
  /\ told \subseteq wills /\ \A d \in wills : connects[d] > 0

MqttInv == MqttType /\ ConnectedOnce /\ ServerSubscribes /\ DevicesSubscribed /\ WillsRetained

\* Nobody is connected at first.
LEMMA MqttStarts == MqttInit => MqttInv
<1> SUFFICES ASSUME MqttInit PROVE MqttInv
  OBVIOUS
<1> USE MqttAssumption DEF MqttInit
<1>1. NoSession \in MqttSessions
  BY DEF NoSession, MqttSessions
<1>2. MqttType
  BY <1>1 DEF MqttType
<1>3. ConnectedOnce /\ ServerSubscribes
  BY DEF ConnectedOnce, ServerSubscribes, NoSession, Programs
<1>4. DevicesSubscribed
  BY DEF DevicesSubscribed, NoSession, Programs
<1>5. WillsRetained
  BY DEF WillsRetained, NoSession
<1>6. QED
  BY <1>2, <1>3, <1>4, <1>5 DEF MqttInv

\* Messages of M are put behind sessions with a topic, and behind no others; a
\* message may be gone.
MqttDelivers(s, t, M) ==
  /\ t \in [Programs -> MqttSessions]
  /\ \A p \in Programs :
       /\ t[p].topics = s[p].topics
       /\ t[p].queue \subseteq s[p].queue \cup M
       /\ s[p] = NoSession => t[p] = NoSession

\* A session whose queue or topics change.
LEMMA SessionParts ==
  ASSUME NEW s \in MqttSessions, NEW x
  PROVE  /\ [s EXCEPT !.queue = x] = [topics |-> s.topics, queue |-> x]
         /\ [s EXCEPT !.topics = x] = [topics |-> x, queue |-> s.queue]
BY DEF MqttSessions

\* A message has its kind and its device.
LEMMA MessagesAre ==
  ASSUME NEW d \in Devices, NEW n \in Nat, NEW kind \in {"state", "command", "result", "will"}
  PROVE  Message(kind, d, n) \in MqttMessages /\ Message(kind, d, n).kind = kind /\ Message(kind, d, n).device = d
BY DEF Message, MqttMessages

\* A message that is routed is put into the queue of its reader, if at all.
LEMMA RoutedDelivers ==
  ASSUME NEW s \in [Programs -> MqttSessions], NEW m \in MqttMessages
  PROVE  MqttDelivers(s, Routed(s, m), {m})
<1> DEFINE reader == IF m.kind = "command" THEN m.device ELSE Server
<1>1. reader \in Programs
  BY DEF Programs, MqttMessages
<1> HIDE DEF reader
<1>2. Routed(s, m) = IF m.kind \in s[reader].topics THEN [s EXCEPT ![reader].queue = @ \cup {m}] ELSE s
  BY DEF Routed, reader
<1>3. CASE m.kind \in s[reader].topics
  <2>1. Routed(s, m) = [s EXCEPT ![reader] = [topics |-> s[reader].topics, queue |-> s[reader].queue \cup {m}]]
    BY <1>1, <1>2, <1>3 DEF MqttSessions
  <2>2. [topics |-> s[reader].topics, queue |-> s[reader].queue \cup {m}] \in MqttSessions
    BY <1>1 DEF MqttSessions
  <2>3. s[reader] # NoSession
    BY <1>3 DEF NoSession
  <2>4. QED
    BY <1>1, <2>1, <2>2, <2>3 DEF MqttDelivers
<1>4. CASE m.kind \notin s[reader].topics
  BY <1>2, <1>4 DEF MqttDelivers
<1>5. QED
  BY <1>3, <1>4

\* Delivery disturbs nothing, if no will is of a device without one.
LEMMA DeliveryKeeps ==
  ASSUME MqttInv, NEW M \in SUBSET MqttMessages, MqttDelivers(session, session', M),
         \A m \in M : m.kind = "will" => m.device \in wills',
         wills \subseteq wills', wills' \in SUBSET Devices, \A d \in wills' : connects[d] > 0,
         UNCHANGED <<connects, deviceStage, forgotten>>,
         online' \subseteq online, routine' = routine, told' \subseteq wills',
         sent' \in [Devices -> Nat], handling' \in [Programs -> MqttMessages \cup {NoMessage}]
  PROVE  MqttInv'
<1> USE DEF MqttInv, MqttDelivers
<1>1. MqttType'
  BY DEF MqttType
<1>2. ConnectedOnce'
  BY DEF ConnectedOnce, MqttType
<1>3. ServerSubscribes'
  BY DEF ServerSubscribes, MqttType, Programs
<1>4. DevicesSubscribed'
  BY DEF DevicesSubscribed, MqttType, Programs
<1>5. WillsRetained'
  BY DEF WillsRetained, MqttType
<1>6. QED
  BY <1>1, <1>2, <1>3, <1>4, <1>5

\* A connection starts with what the broker remembers, the server's with OnConnectionUp.
LEMMA ConnectKeeps == ASSUME MqttInv, NEW p \in Programs, Connect(p) PROVE MqttInv'
<1> USE MqttAssumption DEF MqttInv, Connect
<1>1. connects' \in [Programs -> 0..MaxConnects] /\ connects'[p] = connects[p] + 1 /\ connects'[p] \in 1..MaxConnects
      /\ \A q \in Programs : q # p => connects'[q] = connects[q]
  BY DEF MqttType
<1>2. NoSession \in MqttSessions
  BY DEF NoSession, MqttSessions
<1>3. /\ session' \in [Programs -> MqttSessions]
      /\ \A q \in Programs : session'[q] = session[q] \/ (q = p /\ connects[p] = 0 /\ session'[q] = NoSession)
  BY <1>2 DEF MqttType
<1>4. /\ routine' \in [1..MaxConnects -> SUBSET ServerTopics]
      /\ p = Server => routine'[connects'[p]] = ServerTopics
      /\ p # Server => routine' = routine
  BY <1>1 DEF MqttType, Subscribing
<1>5. MqttType'
  BY <1>1, <1>3, <1>4 DEF MqttType
<1>6. ConnectedOnce'
  BY <1>1 DEF ConnectedOnce, MqttType
<1>7. ServerSubscribes'
  <2>1. session'[Server].topics \subseteq ServerTopics
    BY <1>3 DEF ServerSubscribes, NoSession, Programs
  <2>2. CASE p = Server
    BY <1>4, <2>1, <2>2 DEF ServerSubscribes
  <2>3. CASE p # Server
    BY <1>1, <1>3, <1>4, <2>1, <2>3 DEF ServerSubscribes, Programs, MqttType
  <2>4. QED
    BY <2>2, <2>3
<1>8. DevicesSubscribed'
  <2>1. SUFFICES ASSUME NEW d \in Devices PROVE /\ deviceStage[d] # "await" => connects'[d] > 0
                                                /\ deviceStage[d] # "publish" => session'[d] = NoSession /\ d \notin forgotten
                                                /\ deviceStage[d] = "publish" => session'[d] = session[d]
    BY DEF DevicesSubscribed
  <2>2. d \in Programs /\ connects[d] \in Nat
    BY DEF Programs, MqttType
  <2>3. QED
    BY <1>1, <1>3, <2>2 DEF DevicesSubscribed, MqttType
<1>9. WillsRetained'
  <2>1. \A q \in Programs : session'[q].queue \subseteq session[q].queue
    BY <1>3 DEF NoSession
  <2>2. \A d \in wills : connects'[d] > 0
    BY <1>1 DEF WillsRetained, MqttType, Programs
  <2>3. QED
    BY <2>1, <2>2 DEF WillsRetained
<1>10. QED
  BY <1>5, <1>6, <1>7, <1>8, <1>9

\* A connection that ends leaves its session to the broker.
LEMMA DisconnectKeeps == ASSUME MqttInv, NEW p \in Programs, Disconnect(p) PROVE MqttInv'
<1> USE MqttAssumption DEF Disconnect
<1>1. /\ online' \subseteq online /\ wills \subseteq wills' /\ wills' \in SUBSET Devices
      /\ \A d \in wills' : connects[d] > 0
      /\ told' \subseteq wills'
  BY DEF MqttInv, MqttType, ConnectedOnce, WillsRetained
<1>2. handling' \in [Programs -> MqttMessages \cup {NoMessage}]
  BY DEF MqttInv, MqttType
<1>3. CASE p \in Devices
  <2> DEFINE m == Message("will", p, 0)
  <2>1. m \in MqttMessages /\ m.kind = "will" /\ m.device = p
    BY <1>3, MessagesAre
  <2> HIDE DEF m
  <2>2. MqttDelivers(session, session', {m})
    BY <1>3, <2>1, RoutedDelivers DEF MqttInv, MqttType, m
  <2>3. {m} \in SUBSET MqttMessages /\ \A n \in {m} : n.kind = "will" => n.device \in wills'
    BY <1>3, <2>1
  <2>4. QED
    BY <1>1, <1>2, <2>2, <2>3, DeliveryKeeps DEF MqttInv, MqttType
<1>4. CASE p \notin Devices
  <2>1. MqttDelivers(session, session', {})
    BY <1>4 DEF MqttDelivers, MqttInv, MqttType
  <2>2. QED
    BY <1>1, <1>2, <2>1, DeliveryKeeps DEF MqttInv, MqttType
<1>5. QED
  BY <1>3, <1>4

\* The session of a program that is away may be forgotten.
LEMMA ExpireKeeps == ASSUME MqttInv, NEW p \in Programs, Expire(p) PROVE MqttInv'
<1> USE MqttAssumption DEF MqttInv, Expire
<1>1. NoSession \in MqttSessions
  BY DEF NoSession, MqttSessions
<1>2. session' \in [Programs -> MqttSessions] /\ \A q \in Programs : session'[q] = IF q = p THEN NoSession ELSE session[q]
  BY <1>1 DEF MqttType
<1>3. MqttType'
  BY <1>2 DEF MqttType
<1>4. ConnectedOnce'
  BY DEF ConnectedOnce, MqttType
<1>5. ServerSubscribes'
  BY <1>2 DEF ServerSubscribes, NoSession, Programs
<1>6. DevicesSubscribed'
  BY <1>2 DEF DevicesSubscribed, NoSession, Programs
<1>7. WillsRetained'
  BY <1>2 DEF WillsRetained, NoSession
<1>8. QED
  BY <1>3, <1>4, <1>5, <1>6, <1>7

\* A message leaves the queue for its handler.
LEMMA HandleKeeps == ASSUME MqttInv, NEW p \in Programs, HandleMessage(p) PROVE MqttInv'
<1> USE MqttAssumption DEF HandleMessage
<1>1. PICK m \in session[p].queue :
        /\ handling' = [handling EXCEPT ![p] = m]
        /\ session' = IF Answer(m) = {} THEN session ELSE Routed(session, CHOOSE a \in Answer(m) : TRUE)
        /\ told' = IF m.kind = "will" THEN told \cup {m.device} ELSE told
  OBVIOUS
<1>2. m \in MqttMessages /\ m.device \in Devices /\ m.n \in Nat
  BY DEF MqttInv, MqttType, MqttSessions, MqttMessages
<1>3. handling' \in [Programs -> MqttMessages \cup {NoMessage}]
  BY <1>1, <1>2 DEF MqttInv, MqttType
<1>4. told' \subseteq wills'
  BY <1>1 DEF MqttInv, WillsRetained
<1>5. Answer(m) = {} \/ \E a \in MqttMessages : a.kind # "will" /\ Answer(m) = {a}
  BY <1>2, MessagesAre DEF Answer
<1>6. \E M \in SUBSET MqttMessages : MqttDelivers(session, session', M) /\ \A n \in M : n.kind = "will" => n.device \in wills'
  <2>1. CASE Answer(m) = {}
    <3>1. MqttDelivers(session, session', {})
      BY <1>1, <2>1 DEF MqttDelivers, MqttInv, MqttType
    <3>2. {} \in SUBSET MqttMessages /\ \A n \in {} : n.kind = "will" => n.device \in wills'
      OBVIOUS
    <3>3. QED
      BY <3>1, <3>2
  <2>2. CASE Answer(m) # {}
    <3>1. PICK a \in MqttMessages : a.kind # "will" /\ Answer(m) = {a}
      BY <1>5, <2>2
    <3>2. (CHOOSE b \in Answer(m) : TRUE) = a
      BY <3>1
    <3>3. MqttDelivers(session, session', {a})
      BY <1>1, <2>2, <3>2, RoutedDelivers DEF MqttInv, MqttType
    <3>4. QED
      BY <3>1, <3>3
  <2>3. QED
    BY <2>1, <2>2
<1>7. QED
  BY <1>3, <1>4, <1>6, DeliveryKeeps DEF MqttInv, MqttType, WillsRetained

\* A handler that is done may have answered.
LEMMA AcknowledgeKeeps == ASSUME MqttInv, NEW p \in Programs, Acknowledge(p) PROVE MqttInv'
<1> USE DEF Acknowledge
<1>1. handling' \in [Programs -> MqttMessages \cup {NoMessage}]
  BY DEF MqttInv, MqttType
<1> DEFINE kept == [topics |-> session[p].topics, queue |-> session[p].queue \ {handling[p]}]
<1>0. session \in [Programs -> MqttSessions] /\ session' = [session EXCEPT ![p].queue = @ \ {handling[p]}]
  BY DEF MqttInv, MqttType
<1>2. session[p] \in MqttSessions /\ kept \in MqttSessions
  BY <1>0 DEF MqttSessions
<1>3. session' = [session EXCEPT ![p] = kept]
  <2> HIDE DEF Acknowledge
  <2>1. session' = [session EXCEPT ![p] = [session[p] EXCEPT !.queue = session[p].queue \ {handling[p]}]]
    BY <1>0
  <2>2. QED
    BY <1>2, <2>1, SessionParts
<1>4. session[p] = NoSession => kept = NoSession
  BY DEF NoSession
<1>5. kept.topics = session[p].topics /\ kept.queue \subseteq session[p].queue
  OBVIOUS
<1> HIDE DEF kept
<1>6. MqttDelivers(session, session', {})
  BY <1>2, <1>3, <1>4, <1>5 DEF MqttDelivers, MqttInv, MqttType
<1>7. /\ {} \in SUBSET MqttMessages /\ \A n \in {} : n.kind = "will" => n.device \in wills'
      /\ wills \subseteq wills' /\ wills' \in SUBSET Devices /\ (\A d \in wills' : connects[d] > 0)
      /\ UNCHANGED <<connects, deviceStage, forgotten>> /\ online' \subseteq online /\ routine' = routine
      /\ told' \subseteq wills' /\ sent' \in [Devices -> Nat]
  BY DEF MqttInv, MqttType, WillsRetained
<1>8. QED
  BY <1>1, <1>6, <1>7, DeliveryKeeps

\* A device waits for its connection and subscribes once.
LEMMA DeviceKeeps ==
  ASSUME MqttInv, NEW d \in Devices, AwaitConnection(d) \/ SubscribeDevice(d)
  PROVE  MqttInv'
<1> USE MqttAssumption DEF MqttInv
<1>1. CASE AwaitConnection(d)
  <2> USE <1>1 DEF AwaitConnection
  <2>1. MqttType'
    BY DEF MqttType
  <2>2. ConnectedOnce' /\ ServerSubscribes' /\ WillsRetained'
    BY DEF ConnectedOnce, ServerSubscribes, WillsRetained
  <2>3. DevicesSubscribed'
    BY DEF DevicesSubscribed, ConnectedOnce, MqttType
  <2>4. QED
    BY <2>1, <2>2, <2>3
<1>2. CASE SubscribeDevice(d)
  <2> USE <1>2 DEF SubscribeDevice
  <2> DEFINE subscribed == [topics |-> {"command"}, queue |-> session[d].queue]
  <2>1. d \in Programs /\ session[d] \in MqttSessions /\ subscribed \in MqttSessions /\ d # Server
    BY DEF MqttType, MqttSessions, Programs
  <2>0. session \in [Programs -> MqttSessions]
    BY DEF MqttType
  <2>2. /\ session' \in [Programs -> MqttSessions]
        /\ \A q \in Programs : session'[q] = IF q = d /\ d \in online THEN subscribed ELSE session[q]
    <3>1. CASE d \in online
      <4>1. session' = [session EXCEPT ![d] = [session[d] EXCEPT !.topics = {"command"}]]
        BY <3>1
      <4> HIDE <1>2 DEF SubscribeDevice, MqttInv
      <4>2. session' = [session EXCEPT ![d] = subscribed]
        BY <2>1, <4>1, SessionParts
      <4> HIDE DEF subscribed
      <4>3. QED
        BY <2>0, <2>1, <3>1, <4>2
    <3>2. CASE d \notin online
      BY <2>0, <3>2
    <3>3. QED
      BY <3>1, <3>2
  <2>9. d \in online => forgotten' = forgotten /\ subscribed.topics = {"command"}
    OBVIOUS
  <2>10. d \notin online => forgotten' = forgotten \cup {d}
    OBVIOUS
  <2> HIDE DEF subscribed
  <2>3. MqttType'
    BY <2>2 DEF MqttType
  <2>4. ConnectedOnce'
    BY DEF ConnectedOnce
  <2>5. ServerSubscribes'
    BY <2>1, <2>2 DEF ServerSubscribes, Programs
  <2>6. WillsRetained'
    <3>1. subscribed.queue = session[d].queue
      BY DEF subscribed
    <3>2. \A q \in Programs : session'[q].queue = session[q].queue
      BY <2>2, <3>1
    <3>3. QED
      BY <3>2 DEF WillsRetained
  <2>7. DevicesSubscribed'
    <3>1. SUFFICES ASSUME NEW c \in Devices
                   PROVE  /\ deviceStage'[c] # "await" => connects[c] > 0
                          /\ deviceStage'[c] # "publish" => session'[c] = NoSession /\ c \notin forgotten'
                          /\ deviceStage'[c] = "publish" => session'[c].topics = IF c \in forgotten' THEN {} ELSE {"command"}
      BY DEF DevicesSubscribed
    <3>2. c \in Programs
      BY DEF Programs
    <3>3. CASE c # d
      BY <2>2, <2>9, <2>10, <3>2, <3>3 DEF DevicesSubscribed, MqttType
    <3>4. CASE c = d
      <4>1. connects[d] > 0 /\ session[d] = NoSession /\ d \notin forgotten /\ deviceStage'[d] = "publish"
        BY DEF DevicesSubscribed, MqttType
      <4>2. session[d].topics = {}
        BY <4>1 DEF NoSession
      <4>3. session'[d] = IF d \in online THEN subscribed ELSE session[d]
        BY <2>1, <2>2
      <4>4. CASE d \in online
        BY <2>9, <3>4, <4>1, <4>3, <4>4
      <4>5. CASE d \notin online
        BY <2>10, <3>4, <4>1, <4>2, <4>3, <4>5
      <4>6. QED
        BY <4>4, <4>5
    <3>5. QED
      BY <3>3, <3>4
  <2>8. QED
    BY <2>3, <2>4, <2>5, <2>6, <2>7
<1>3. QED
  BY <1>1, <1>2

\* A device that reports its state.
LEMMA PublishKeeps == ASSUME MqttInv, NEW d \in Devices, PublishState(d) PROVE MqttInv'
<1> USE DEF PublishState
<1> DEFINE m == Message("state", d, sent[d] + 1)
<1>1. m \in MqttMessages /\ m.kind = "state" /\ sent' \in [Devices -> Nat]
  BY MessagesAre DEF MqttInv, MqttType
<1> HIDE DEF m
<1>2. MqttDelivers(session, session', {m})
  <2>1. CASE d \in online
    BY <1>1, <2>1, RoutedDelivers DEF MqttInv, MqttType, m
  <2>2. CASE d \notin online
    BY <2>2 DEF MqttDelivers, MqttInv, MqttType
  <2>3. QED
    BY <2>1, <2>2
<1>3. {m} \in SUBSET MqttMessages /\ \A n \in {m} : n.kind = "will" => n.device \in wills'
  BY <1>1
<1>4. QED
  BY <1>1, <1>2, <1>3, DeliveryKeeps DEF MqttInv, MqttType, WillsRetained

\* Every OnConnectionUp subscribes to a topic that it has left.
LEMMA SubscribeServerKeeps == ASSUME MqttInv, NEW n \in 1..MaxConnects, SubscribeServer(n) PROVE MqttInv'
<1> USE MqttAssumption DEF MqttInv
<1> DEFINE topic == IF "state" \in routine[n] THEN "state" ELSE IF "result" \in routine[n] THEN "result" ELSE "will"
           retained == IF topic = "will" THEN {Message("will", d, 0) : d \in wills} ELSE {}
           subscribed == [topics |-> session[Server].topics \cup {topic}, queue |-> session[Server].queue \cup retained]
<1>1. /\ routine' = [routine EXCEPT ![n] = @ \ {topic}]
      /\ session' = IF Server \notin online THEN session ELSE [session EXCEPT ![Server] = subscribed]
      /\ UNCHANGED <<online, connects, deviceStage, sent, handling, forgotten, wills, told>>
  BY DEF SubscribeServer, MqttType, MqttSessions, Programs
<1>2. topic \in ServerTopics /\ topic \in {"state", "command", "result", "will"}
  BY DEF ServerTopics
<1> HIDE DEF topic
<1>3. retained \in SUBSET MqttMessages /\ \A m \in retained : m.device \in wills
  BY MessagesAre DEF MqttType
<1> HIDE DEF retained
<1>4. Server \in Programs /\ session[Server] \in MqttSessions /\ subscribed \in MqttSessions
  BY <1>2, <1>3 DEF MqttType, MqttSessions, Programs
<1>5. subscribed.topics = session[Server].topics \cup {topic} /\ subscribed.queue = session[Server].queue \cup retained
  OBVIOUS
<1> HIDE DEF subscribed
<1>6. /\ session' \in [Programs -> MqttSessions]
      /\ \A q \in Programs : session'[q] = IF q = Server /\ Server \in online THEN subscribed ELSE session[q]
  BY <1>1, <1>4 DEF MqttType
<1>7. /\ routine' \in [1..MaxConnects -> SUBSET ServerTopics]
      /\ \A k \in 1..MaxConnects : routine[k] \subseteq routine'[k] \cup {topic}
  BY <1>1 DEF MqttType
<1>8. MqttType'
  BY <1>1, <1>6, <1>7 DEF MqttType
<1>9. ConnectedOnce'
  BY <1>1 DEF ConnectedOnce
<1>10. ServerSubscribes'
  <2>1. session'[Server].topics \subseteq ServerTopics
    BY <1>2, <1>4, <1>5, <1>6 DEF ServerSubscribes
  <2>2. ASSUME Server \in online PROVE ServerTopics \subseteq session'[Server].topics \cup routine'[connects[Server]]
    <3>1. connects[Server] \in 1..MaxConnects
      BY <1>4, <2>2 DEF ConnectedOnce, MqttType
    <3>2. QED
      BY <1>4, <1>5, <1>6, <1>7, <2>2, <3>1 DEF ServerSubscribes
  <2>3. QED
    BY <1>1, <2>1, <2>2 DEF ServerSubscribes
<1>11. DevicesSubscribed'
  BY <1>1, <1>6 DEF DevicesSubscribed, Programs
<1>12. WillsRetained'
  BY <1>1, <1>3, <1>5, <1>6 DEF WillsRetained
<1>13. QED
  BY <1>8, <1>9, <1>10, <1>11, <1>12

\* Every step keeps the invariant.
LEMMA MqttStep == MqttInv /\ [MqttNext]_mqttVars => MqttInv'
<1> SUFFICES ASSUME MqttInv, [MqttNext]_mqttVars PROVE MqttInv'
  OBVIOUS
<1>1. CASE UNCHANGED mqttVars
  BY <1>1 DEF mqttVars, MqttInv, MqttType, ConnectedOnce, ServerSubscribes, DevicesSubscribed, WillsRetained
<1>2. QED
  BY <1>1, ConnectKeeps, DisconnectKeeps, ExpireKeeps, HandleKeeps, AcknowledgeKeeps, DeviceKeeps, PublishKeeps,
     SubscribeServerKeeps DEF MqttNext

\* The theorem of this section: the server has its subscriptions whenever it is connected and its
\* callbacks are over, a device until its session is forgotten (server.go, client.go), for any devices.
THEOREM SubscriptionsStayKept == MqttSpec => []SubscriptionsKept
<1>1. ASSUME MqttInv PROVE SubscriptionsKept
  <2> USE MqttAssumption, <1>1 DEF MqttInv
  <2>1. ASSUME Server \in online, \A n \in 1..MaxConnects : routine[n] = {} PROVE session[Server].topics = ServerTopics
    <3>1. connects[Server] \in 1..MaxConnects
      BY <2>1 DEF ConnectedOnce, MqttType
    <3>2. QED
      BY <2>1, <3>1 DEF ServerSubscribes
  <2>2. QED
    BY <2>1 DEF SubscriptionsKept, DevicesSubscribed, WillsRetained
<1>2. QED
  BY <1>1, MqttStarts, MqttStep, PTL DEF MqttSpec

----------------------------------------------------------------------------
(* Event loops: a server on select, poll or epoll. *)

\* Any inputs, and any steps of the program.
LoopSpec == LoopInit({"select", "poll", "epoll"}) /\ [][LoopNext]_loopVars

Sockets == [open : BOOLEAN, unread : Nat, eof : BOOLEAN]
LoopFds == {listenfd} \cup ClientFds
OpenFds == {fd \in ClientFds : sockets[fd].open}

LoopType ==
  /\ loopKind \in {"select", "poll", "epoll"} /\ loopStage \in {"wait", "scan", "ended"}
  /\ sockets \in [ClientFds -> Sockets] /\ backlog \in Nat /\ max_fd \in Nat
  /\ watched \in SUBSET LoopFds /\ edges \in SUBSET LoopFds /\ ready \in SUBSET LoopFds
  /\ passedOver \in SUBSET LoopFds

\* A descriptor without a connection has nothing to read.
ClosedAreEmpty == \A fd \in ClientFds : ~ sockets[fd].open => sockets[fd].unread = 0 /\ ~ sockets[fd].eof

\* select never sees a descriptor further behind max_fd than the next one.
WatchesOpen ==
  /\ watched = {listenfd} \cup (OpenFds \ refused)
  /\ \A fd \in OpenFds : fd <= max_fd
  /\ loopKind = "select" => listenfd <= max_fd /\ max_fd <= FD_SETSIZE

\* epoll has an event of every connection with data, has reported it or passed it over.
EdgesFollowed ==
  /\ loopKind = "epoll" => \A fd \in ClientFds : Readable(fd) => fd \in edges \cup ready \cup passedOver
  /\ listenfd \in ready => backlog > 0
  /\ loopStage = "wait" => ready = {}

LoopInv == LoopType /\ (loopStage # "ended" => ClosedAreEmpty /\ WatchesOpen /\ EdgesFollowed)

\* The listener is not a client.
LEMMA ClientIsNotListener == \A fd \in ClientFds : fd # listenfd /\ fd \in Nat
BY EventLoopAssumption DEF ClientFds, listenfd

\* The server has its listener, and nobody has called.
LEMMA LoopStarts == LoopInit({"select", "poll", "epoll"}) => LoopInv
<1> SUFFICES ASSUME LoopInit({"select", "poll", "epoll"}) PROVE LoopInv
  OBVIOUS
<1> USE DEF LoopInit
<1>1. ClosedSocket \in Sockets /\ ClosedSocket.open = FALSE /\ ClosedSocket.eof = FALSE /\ ClosedSocket.unread = 0
  BY DEF ClosedSocket, Sockets
<1>2. LoopType
  BY <1>1 DEF LoopType, LoopFds, listenfd
<1>3. ClosedAreEmpty
  BY <1>1 DEF ClosedAreEmpty
<1>4. WatchesOpen
  BY <1>1, EventLoopAssumption DEF WatchesOpen, OpenFds, listenfd
<1>5. EdgesFollowed
  BY <1>1, ClientIsNotListener DEF EdgesFollowed, Readable
<1>6. QED
  BY <1>2, <1>3, <1>4, <1>5 DEF LoopInv

\* What is reported was watched.
LEMMA WaitKeeps == ASSUME LoopInv, LoopWait PROVE LoopInv'
<1> USE DEF LoopInv, LoopWait
<1>1. Reported \subseteq watched
  BY DEF Reported
<1>2. LoopType'
  BY <1>1 DEF LoopType
<1>3. ClosedAreEmpty' /\ WatchesOpen'
  BY DEF ClosedAreEmpty, WatchesOpen, OpenFds
<1>4. EdgesFollowed'
  <2>1. \A fd \in ClientFds : Readable(fd)' <=> Readable(fd)
    BY DEF Readable
  <2>2. listenfd \in Reported => backlog > 0
    BY DEF Reported, Readable
  <2>3. loopKind = "epoll" => \A fd \in ClientFds : Readable(fd) => fd \in edges' \cup ready' \cup passedOver'
    BY DEF EdgesFollowed
  <2>4. QED
    BY <2>1, <2>2, <2>3 DEF EdgesFollowed
<1>5. QED
  BY <1>2, <1>3, <1>4

\* A loop that has ended promises nothing.
LEMMA WaitFailsKeeps == ASSUME LoopInv, WaitFails PROVE LoopInv'
BY DEF LoopInv, WaitFails, LoopType, LoopFds

\* A client that calls is in the backlog.
LEMMA ConnectsKeeps == ASSUME LoopInv, Connects PROVE LoopInv'
<1> USE DEF LoopInv, Connects
<1>1. LoopType'
  BY DEF LoopType, LoopFds
<1>2. (ClosedAreEmpty => ClosedAreEmpty') /\ (WatchesOpen => WatchesOpen')
  BY DEF ClosedAreEmpty, WatchesOpen, OpenFds
<1>3. EdgesFollowed => EdgesFollowed'
  <2>1. \A fd \in ClientFds : Readable(fd)' <=> Readable(fd)
    BY ClientIsNotListener DEF Readable
  <2>2. QED
    BY <2>1 DEF EdgesFollowed, LoopType
<1>4. QED
  BY <1>1, <1>2, <1>3

\* A client that sends makes its socket readable, and to epoll an edge.
LEMMA SendsKeeps == ASSUME LoopInv, NEW fd \in ClientFds, Sends(fd) PROVE LoopInv'
<1> USE DEF LoopInv, Sends
<1> DEFINE s == sockets[fd]
<1>1. PICK new \in Sockets : sockets' = [sockets EXCEPT ![fd] = new] /\ new.open = TRUE
  <2>1. s \in Sockets /\ s.open = TRUE
    BY DEF LoopType, Sockets
  <2>2. [s EXCEPT !.unread = s.unread + 1] \in Sockets /\ [s EXCEPT !.unread = s.unread + 1].open = TRUE
    BY <2>1 DEF Sockets
  <2>3. [s EXCEPT !.eof = TRUE] \in Sockets /\ [s EXCEPT !.eof = TRUE].open = TRUE
    BY <2>1 DEF Sockets
  <2>4. sockets' = [sockets EXCEPT ![fd] = [s EXCEPT !.unread = s.unread + 1]] \/ sockets' = [sockets EXCEPT ![fd] = [s EXCEPT !.eof = TRUE]]
    OBVIOUS
  <2>5. QED
    BY <2>2, <2>3, <2>4
<1>2. s.open = TRUE /\ edges' = edges \cup {fd} /\ passedOver' = passedOver \ {fd}
      /\ UNCHANGED <<loopKind, backlog, watched, max_fd, ready, loopStage, refused>>
  BY DEF LoopType, Sockets
<1> HIDE DEF Sends
<1>3. /\ sockets' \in [ClientFds -> Sockets] /\ sockets'[fd] = new
      /\ \A other \in ClientFds : other # fd => sockets'[other] = sockets[other]
  BY <1>1 DEF LoopType
<1>4. LoopType'
  BY <1>2, <1>3 DEF LoopType, LoopFds
<1>5. ClosedAreEmpty => ClosedAreEmpty'
  BY <1>1, <1>3 DEF ClosedAreEmpty
<1>6. OpenFds' = OpenFds
  BY <1>1, <1>2, <1>3 DEF OpenFds
<1>7. WatchesOpen => WatchesOpen'
  BY <1>2, <1>6 DEF WatchesOpen
<1>8. EdgesFollowed => EdgesFollowed'
  <2>1. \A other \in ClientFds : other # fd => (Readable(other)' <=> Readable(other))
    BY <1>3, ClientIsNotListener DEF Readable
  <2>2. QED
    BY <1>2, <2>1, ClientIsNotListener DEF EdgesFollowed
<1>9. QED
  BY <1>2, <1>4, <1>5, <1>7, <1>8

\* What is left of the events is left as it was.
LEMMA NextEventsStage == ASSUME NEW rest, NextEvents(rest) PROVE ready' = rest /\ loopStage' \in {"wait", "scan"} /\ (loopStage' = "wait" => ready' = {})
BY DEF NextEvents

\* An accepted connection is watched, or the server ends.
LEMMA AcceptKeeps == ASSUME LoopInv, LoopAccept PROVE LoopInv'
<1> DEFINE free == {fd \in ClientFds : ~ sockets[fd].open}
           clientfd == CHOOSE fd \in free : \A other \in free : fd <= other
<1> USE DEF LoopInv
<1>0. loopStage = "scan" /\ listenfd \in ready /\ loopKind' = loopKind
  BY DEF LoopAccept
<1>1. CASE free = {}
  <2>1. UNCHANGED <<sockets, backlog, watched, max_fd, edges, passedOver, refused>>
        /\ NextEvents(IF loopKind = "epoll" THEN ready \ {listenfd} ELSE {})
    BY <1>1 DEF LoopAccept
  <2>2. ready' = (IF loopKind = "epoll" THEN ready \ {listenfd} ELSE {}) /\ loopStage' \in {"wait", "scan"}
        /\ (loopStage' = "wait" => ready' = {})
    BY <2>1, NextEventsStage
  <2>3. LoopType'
    BY <1>0, <2>1, <2>2 DEF LoopType
  <2>4. ClosedAreEmpty' /\ WatchesOpen'
    BY <1>0, <2>1 DEF ClosedAreEmpty, WatchesOpen, OpenFds
  <2>5. EdgesFollowed'
    <3>1. \A fd \in ClientFds : Readable(fd)' <=> Readable(fd)
      BY <2>1 DEF Readable
    <3>2. QED
      BY <1>0, <2>1, <2>2, <3>1, ClientIsNotListener DEF EdgesFollowed
  <2>6. QED
    BY <2>3, <2>4, <2>5
<1>2. CASE free # {}
  <2>0. clientfd \in free /\ \A other \in free : clientfd <= other
    <3>1. free \in SUBSET Nat
      BY ClientIsNotListener
    <3>2. \E fd \in free : \A other \in free : fd <= other
      BY <1>2, <3>1, LeastOf
    <3>3. QED
      BY <3>2
  <2>1. PICK c : c = clientfd /\ c \in free /\ \A other \in free : c <= other
    BY <2>0
  <2>2. PICK unread \in 0..1 : sockets' = [sockets EXCEPT ![c] = [open |-> TRUE, unread |-> unread, eof |-> FALSE]]
    BY <1>2, <2>1 DEF LoopAccept
  <2>3. backlog' = backlog - 1 /\ backlog > 0
    BY <1>0, <1>2 DEF LoopAccept, EdgesFollowed
  <2>4. \/ loopStage' = "ended" /\ ready' = {} /\ UNCHANGED <<watched, max_fd, edges, passedOver>>
        \/ /\ ~ (loopKind = "select" /\ max_fd = FD_SETSIZE)
           /\ \/ watched' = watched \cup {c} /\ refused' = refused \ {c}
              \/ watched' = watched /\ refused' = refused \cup {c}
           /\ max_fd' = IF c > max_fd THEN c ELSE max_fd
           /\ edges' = IF sockets'[c].unread > 0 THEN edges \cup {c} ELSE edges \ {c}
           /\ passedOver' = passedOver \ {c}
           /\ NextEvents(ready \ {listenfd})
    BY <1>2, <2>1 DEF LoopAccept
  <2>5. c \in ClientFds /\ c \in Nat /\ sockets[c].open = FALSE /\ c # listenfd
    BY <2>1, ClientIsNotListener DEF LoopType, Sockets
  <2>6. c - 1 <= max_fd \/ c = listenfd + 1
    <3>1. CASE c - 1 \in ClientFds
      <4>1. c - 1 \notin free
        BY <2>1, <2>5
      <4>2. QED
        BY <1>0, <3>1, <4>1 DEF WatchesOpen, OpenFds
    <3>2. CASE c - 1 \notin ClientFds
      BY <2>5, <3>2, EventLoopAssumption DEF ClientFds, listenfd
    <3>3. QED
      BY <3>1, <3>2
  <2> HIDE DEF clientfd, free
  <2> DEFINE new == [open |-> TRUE, unread |-> unread, eof |-> FALSE]
  <2>7. new \in Sockets /\ new.open = TRUE /\ new.unread = unread /\ new.eof = FALSE
    BY <2>2 DEF Sockets
  <2> HIDE DEF new
  <2>8. /\ sockets' \in [ClientFds -> Sockets] /\ sockets'[c] = new
        /\ \A other \in ClientFds : other # c => sockets'[other] = sockets[other]
    BY <2>2, <2>5, <2>7 DEF LoopType, new
  <2>9. CASE loopStage' = "ended" /\ ready' = {} /\ UNCHANGED <<watched, max_fd, edges, passedOver>>
    <3>1. LoopType'
      BY <1>0, <2>3, <2>8, <2>9 DEF LoopType
    <3>2. QED
      BY <2>9, <3>1
  <2>10. CASE /\ ~ (loopKind = "select" /\ max_fd = FD_SETSIZE)
              /\ \/ watched' = watched \cup {c} /\ refused' = refused \ {c}
                 \/ watched' = watched /\ refused' = refused \cup {c}
              /\ max_fd' = IF c > max_fd THEN c ELSE max_fd
              /\ edges' = IF sockets'[c].unread > 0 THEN edges \cup {c} ELSE edges \ {c}
              /\ passedOver' = passedOver \ {c}
              /\ NextEvents(ready \ {listenfd})
    <3>1. ready' = ready \ {listenfd} /\ loopStage' \in {"wait", "scan"} /\ (loopStage' = "wait" => ready' = {})
      BY <2>10, NextEventsStage
    <3>2. max_fd' \in Nat /\ max_fd <= max_fd' /\ c <= max_fd'
      BY <2>5, <2>10 DEF LoopType
    <3>3. LoopType'
      BY <1>0, <2>3, <2>5, <2>8, <2>10, <3>1, <3>2 DEF LoopType, LoopFds
    <3>4. ClosedAreEmpty'
      BY <1>0, <2>7, <2>8 DEF ClosedAreEmpty
    <3>5. OpenFds' = OpenFds \cup {c}
      BY <2>5, <2>7, <2>8 DEF OpenFds
    <3>6. WatchesOpen'
      <4>1. watched' = {listenfd} \cup (OpenFds' \ refused')
        <5>1. c \notin OpenFds
          BY <2>5 DEF OpenFds
        <5>2. QED
          BY <1>0, <2>10, <3>5, <5>1 DEF WatchesOpen
      <4>2. \A fd \in OpenFds' : fd <= max_fd'
        BY <1>0, <3>2, <3>5, ClientIsNotListener DEF WatchesOpen, OpenFds, LoopType
      <4>3. loopKind' = "select" => listenfd <= max_fd' /\ max_fd' <= FD_SETSIZE
        BY <1>0, <2>5, <2>6, <2>10, <3>2, EventLoopAssumption DEF WatchesOpen, LoopType, listenfd
      <4>4. QED
        BY <4>1, <4>2, <4>3 DEF WatchesOpen
    <3>7. EdgesFollowed'
      <4>1. \A other \in ClientFds : other # c => (Readable(other)' <=> Readable(other))
        BY <2>8, ClientIsNotListener DEF Readable
      <4>2. Readable(c)' => c \in edges'
        <5>1. ASSUME Readable(c)' PROVE new.unread > 0 \/ new.eof
          BY <2>5, <2>8, <5>1 DEF Readable
        <5>2. QED
          BY <2>7, <2>8, <2>10, <5>1
      <4>3. listenfd \notin ready'
        BY <3>1
      <4>4. ASSUME loopKind = "epoll", NEW other \in ClientFds, other # c, Readable(other)
            PROVE  other \in edges' \cup ready' \cup passedOver'
        <5>1. other \in edges \cup ready \cup passedOver
          BY <1>0, <4>4 DEF EdgesFollowed
        <5>2. QED
          BY <2>10, <3>1, <4>4, <5>1, ClientIsNotListener
      <4>5. ASSUME loopKind' = "epoll", NEW other \in ClientFds, Readable(other)'
            PROVE  other \in edges' \cup ready' \cup passedOver'
        BY <1>0, <4>1, <4>2, <4>4, <4>5
      <4>6. QED
        BY <3>1, <4>3, <4>5 DEF EdgesFollowed
    <3>8. QED
      BY <3>3, <3>4, <3>6, <3>7
  <2>11. QED
    BY <2>4, <2>9, <2>10
<1>3. QED
  BY <1>1, <1>2

\* A read empties the socket, closes it, or passes data over.
LEMMA ReadKeeps == ASSUME LoopInv, NEW fd \in ClientFds, LoopRead(fd) PROVE LoopInv'
<1> USE DEF LoopInv
<1> DEFINE s == sockets[fd]
<1>0. loopStage = "scan" /\ fd \in ready /\ fd # listenfd /\ UNCHANGED <<loopKind, backlog, max_fd, refused>>
      /\ edges' = IF sockets'[fd].open THEN edges ELSE edges \ {fd}
  BY DEF LoopRead
<1>1. s \in Sockets /\ sockets \in [ClientFds -> Sockets]
  BY DEF LoopType
<1>2. CASE /\ s.unread > 0
           /\ sockets' = [sockets EXCEPT ![fd].unread = @ - 1]
           /\ passedOver' = IF s.unread > 1 \/ s.eof THEN passedOver \cup {fd} ELSE passedOver
           /\ NextEvents(ready \ {fd}) /\ UNCHANGED watched
  <2>1. ready' = ready \ {fd} /\ loopStage' \in {"wait", "scan"} /\ (loopStage' = "wait" => ready' = {})
    BY <1>2, NextEventsStage
  <2> DEFINE new == [s EXCEPT !.unread = s.unread - 1]
  <2>2. sockets' = [sockets EXCEPT ![fd] = new]
    BY <1>2
  <2>3. new \in Sockets /\ new.open = s.open /\ new.unread = s.unread - 1 /\ new.eof = s.eof
    BY <1>1, <1>2 DEF Sockets
  <2> HIDE DEF new
  <2>4. /\ sockets' \in [ClientFds -> Sockets] /\ sockets'[fd] = new
        /\ \A other \in ClientFds : other # fd => sockets'[other] = sockets[other]
    BY <1>1, <2>2, <2>3
  <2>5. s.open
    BY <1>0, <1>1, <1>2 DEF ClosedAreEmpty, Sockets
  <2>6. edges' = edges
    BY <1>0, <2>3, <2>4, <2>5
  <2>7. LoopType'
    BY <1>0, <1>2, <2>1, <2>4, <2>6 DEF LoopType
  <2>8. ClosedAreEmpty'
    BY <1>0, <2>3, <2>4, <2>5 DEF ClosedAreEmpty
  <2>9. OpenFds' = OpenFds
    BY <2>3, <2>4 DEF OpenFds
  <2>10. WatchesOpen'
    BY <1>0, <1>2, <2>9 DEF WatchesOpen
  <2>11. EdgesFollowed'
    <3>1. \A other \in ClientFds : other # fd => (Readable(other)' <=> Readable(other))
      BY <2>4, ClientIsNotListener DEF Readable
    <3>2. Readable(fd)' => fd \in passedOver'
      BY <1>1, <1>2, <2>3, <2>4, ClientIsNotListener DEF Readable, Sockets
    <3>3. QED
      BY <1>0, <1>2, <2>1, <2>6, <3>1, <3>2 DEF EdgesFollowed
  <2>12. QED
    BY <2>7, <2>8, <2>10, <2>11
<1>3. CASE /\ s.eof
           /\ sockets' = [sockets EXCEPT ![fd] = ClosedSocket] /\ watched' = watched \ {fd}
           /\ \/ s.unread = 0 /\ NextEvents({}) /\ passedOver' = passedOver \cup (ready \ {fd})
              \/ NextEvents(ready \ {fd}) /\ UNCHANGED passedOver
  <2>1. ClosedSocket \in Sockets /\ ClosedSocket.open = FALSE /\ ClosedSocket.eof = FALSE /\ ClosedSocket.unread = 0
    BY DEF ClosedSocket, Sockets
  <2>2. /\ sockets' \in [ClientFds -> Sockets] /\ sockets'[fd] = ClosedSocket
        /\ \A other \in ClientFds : other # fd => sockets'[other] = sockets[other]
    BY <1>1, <1>3, <2>1
  <2>3. edges' = edges \ {fd}
    BY <1>0, <2>1, <2>2
  <2>4. /\ loopStage' \in {"wait", "scan"} /\ (loopStage' = "wait" => ready' = {}) /\ ready' \subseteq ready
        /\ ready \ {fd} \subseteq ready' \cup passedOver'
        /\ passedOver \subseteq passedOver' /\ passedOver' \subseteq passedOver \cup ready
    BY <1>3, NextEventsStage
  <2>5. OpenFds' = OpenFds \ {fd}
    BY <2>1, <2>2 DEF OpenFds
  <2>6. ClosedAreEmpty'
    BY <1>0, <2>1, <2>2 DEF ClosedAreEmpty
  <2>7. WatchesOpen'
    BY <1>0, <1>3, <2>5 DEF WatchesOpen, OpenFds
  <2>8. EdgesFollowed'
    <3>1. \A other \in ClientFds : other # fd => (Readable(other)' <=> Readable(other))
      BY <2>2, ClientIsNotListener DEF Readable
    <3>2. ~ Readable(fd)'
      BY <2>1, <2>2, ClientIsNotListener DEF Readable
    <3>3. ASSUME loopKind = "epoll", NEW other \in ClientFds, other # fd, Readable(other)
          PROVE  other \in edges' \cup ready' \cup passedOver'
      <4>1. other \in edges \cup ready \cup passedOver
        BY <1>0, <3>3 DEF EdgesFollowed
      <4>2. QED
        BY <2>3, <2>4, <3>3, <4>1
    <3>4. QED
      BY <1>0, <2>4, <3>1, <3>2, <3>3 DEF EdgesFollowed
  <2>9. LoopType'
    BY <1>0, <1>3, <2>2, <2>3, <2>4 DEF LoopType
  <2>10. QED
    BY <2>6, <2>7, <2>8, <2>9
<1>4. QED
  BY <1>2, <1>3 DEF LoopRead

\* Every step keeps the invariant.
LEMMA LoopStep == LoopInv /\ [LoopNext]_loopVars => LoopInv'
<1> SUFFICES ASSUME LoopInv, [LoopNext]_loopVars PROVE LoopInv'
  OBVIOUS
<1>1. CASE UNCHANGED loopVars
  BY <1>1 DEF loopVars, LoopInv, LoopType, ClosedAreEmpty, WatchesOpen, OpenFds, EdgesFollowed, Readable
<1>2. QED
  BY <1>1, WaitKeeps, WaitFailsKeeps, AcceptKeeps, ConnectsKeeps, ReadKeeps, SendsKeeps DEF LoopNext

\* The theorem of this section: the server watches its open connections and no others, but for those
\* epoll_ctl refused, and what is readable is or will be reported, but for the edges passed over (select.c, poll.c, epoll.c), for any descriptors.
THEOREM ReadableStaysSeen == LoopSpec => []ReadableIsSeen
<1>1. ASSUME LoopInv PROVE ReadableIsSeen
  <2> USE <1>1 DEF LoopInv
  <2>1. SUFFICES ASSUME loopStage # "ended" PROVE ReadableIsSeen
    BY DEF ReadableIsSeen
  <2>2. watched = {listenfd} \cup ({fd \in ClientFds : sockets[fd].open} \ refused) /\ (loopKind = "select" => max_fd <= FD_SETSIZE)
    BY <2>1 DEF WatchesOpen, OpenFds
  <2>3. ASSUME NEW fd \in watched, Readable(fd)
        PROVE  fd \in Reported \cup ready \/ (loopKind = "epoll" /\ fd \in passedOver)
    <3>1. CASE fd = listenfd
      BY <2>3, <3>1 DEF Reported, EdgeMode
    <3>2. CASE fd # listenfd
      <4>1. fd \in ClientFds /\ fd <= max_fd
        BY <2>1, <2>2, <3>2 DEF WatchesOpen, OpenFds
      <4>2. CASE loopKind = "epoll"
        BY <2>1, <2>3, <4>1, <4>2 DEF Reported, EdgeMode, EdgesFollowed
      <4>3. CASE loopKind # "epoll"
        BY <2>3, <4>1, <4>3 DEF Reported, EdgeMode
      <4>4. QED
        BY <4>2, <4>3
    <3>3. QED
      BY <3>1, <3>2
  <2>4. QED
    BY <2>2, <2>3 DEF ReadableIsSeen
<1>2. QED
  BY <1>1, LoopStarts, LoopStep, PTL DEF LoopSpec

----------------------------------------------------------------------------
(* The pipe of zlib: chunks of a file through a stream and back. *)

\* Any inputs, and any steps of the program.
ZpipeSpec == ZpipeInit({"def", "inf"}, SourceSizes) /\ [][ZpipeNext]_zpipeVars

ZStreams == [avail_in : Nat, avail_out : Nat, next : Nat]

ZpipeType ==
  /\ zmode \in {"def", "inf"} /\ zsource \in [size : Nat, end : Nat]
  /\ zstage \in {"init", "read", "run", "check", "returned"} /\ zstrm \in ZStreams
  /\ zpending \in Nat /\ zdest \in Nat /\ zmade \in Nat
  /\ zfinished \in BOOLEAN /\ zflush \in BOOLEAN
  /\ zret \in {"Z_OK", "Z_ERRNO", "Z_MEM_ERROR", "Z_DATA_ERROR"}

\* What was read, and what of it is left, is part of the file.
SourceRead ==
  /\ zstrm.avail_in <= zstrm.next /\ zstrm.next <= zsource.size
  /\ zmode = "def" => zsource.end = zsource.size /\ (zflush => zstrm.next = zsource.size)
  /\ zmode = "inf" /\ zfinished => zsource.end <= zstrm.next

\* Room in the output is left only when the library has nothing more to give.
OutputDrained ==
  /\ zlive = IF zstage \in {"init", "returned"} THEN 0 ELSE 1
  /\ zstage # "returned" => zdest + zpending = zmade /\ zret = "Z_OK"
  /\ zstage = "init" => zpending = 0 /\ zstrm.avail_in = 0
  /\ zstage = "read" => zpending = 0 /\ (zmode = "def" => zstrm.avail_in = 0)
  /\ zstage = "check" /\ zstrm.avail_out > 0 =>
       /\ zpending = 0
       /\ zmode = "def" => zstrm.avail_in = 0 /\ (zflush => zfinished)

ReturnedWhole ==
  zstage = "returned" /\ zret = "Z_OK" =>
    /\ zfinished /\ zdest = zmade /\ zpending = 0
    /\ zmode = "def" => zstrm.next = zsource.size

ZpipeInv == ZpipeType /\ SourceRead /\ OutputDrained /\ ReturnedWhole

\* The stream is not set up.
LEMMA ZpipeStarts == ZpipeInit({"def", "inf"}, SourceSizes) => ZpipeInv
<1> SUFFICES ASSUME ZpipeInit({"def", "inf"}, SourceSizes) PROVE ZpipeInv
  OBVIOUS
<1> USE DEF ZpipeInit
<1>0. zsource \in [size : Nat, end : Nat]
  <2>1. PICK size \in SourceSizes, end \in SourceSizes : zsource = [size |-> size, end |-> end]
    OBVIOUS
  <2>2. QED
    BY <2>1, ZpipeAssumption
<1>1. zsource \in [size : Nat, end : Nat] /\ zstrm \in ZStreams /\ zstrm.avail_in = 0 /\ zstrm.next = 0
  BY <1>0 DEF ZStreams
<1>2. ZpipeType
  <2>1. zmode \in {"def", "inf"} /\ zstage = "init" /\ zret = "Z_OK"
    OBVIOUS
  <2>2. zfinished = FALSE /\ zflush = FALSE /\ zpending = 0 /\ zdest = 0 /\ zmade = 0
    OBVIOUS
  <2> HIDE DEF ZpipeInit
  <2>3. QED
    BY <1>1, <2>1, <2>2 DEF ZpipeType
<1>3. SourceRead
  BY <1>1 DEF SourceRead
<1>4. OutputDrained /\ ReturnedWhole
  BY <1>1 DEF OutputDrained, ReturnedWhole
<1>5. QED
  BY <1>2, <1>3, <1>4 DEF ZpipeInv

\* A return with an error.
LEMMA FailureKeeps ==
  ASSUME ZpipeInv, zstage \notin {"init", "returned"}, NEW ret \in {"Z_ERRNO", "Z_DATA_ERROR"}, EndStream(ret),
         ZpipeType', SourceRead'
  PROVE  ZpipeInv'
BY DEF ZpipeInv, OutputDrained, ReturnedWhole, EndStream

\* The library has its state, or the program returns.
LEMMA InitStreamKeeps == ASSUME ZpipeInv, InitStream PROVE ZpipeInv'
BY DEF ZpipeInv, InitStream, ZpipeType, SourceRead, OutputDrained, ReturnedWhole

\* A chunk more of the source is read, or it cannot be.
LEMMA ReadSourceKeeps == ASSUME ZpipeInv, ReadSource PROVE ZpipeInv'
<1> DEFINE rest == zsource.size - zstrm.next
           got == IF rest < CHUNK THEN rest ELSE CHUNK
<1>1. zstage = "read"
  BY DEF ReadSource
<1>2. ASSUME NEW ret \in {"Z_ERRNO", "Z_DATA_ERROR"}, EndOnly(ret) PROVE ZpipeInv'
  <2>1. ZpipeType' /\ SourceRead' /\ EndStream(ret)
    BY <1>2 DEF EndOnly, EndStream, ZpipeInv, ZpipeType, SourceRead
  <2>2. QED
    BY <1>1, <2>1, FailureKeeps
<1>3. CASE /\ zmode = "def" \/ got > 0
           /\ zstrm' = [zstrm EXCEPT !.avail_in = got, !.next = @ + got]
           /\ zflush' = (zmode = "def" /\ got < CHUNK) /\ zstage' = "run"
           /\ UNCHANGED <<zmode, zsource, zpending, zfinished, zdest, zmade, zlive, zret>>
  <2> USE DEF ZpipeInv
  <2>1. /\ zstrm \in ZStreams /\ zstrm.next \in Nat /\ zsource.size \in Nat /\ CHUNK \in Nat
        /\ zstrm.next <= zsource.size /\ zstrm.avail_in <= zstrm.next
    BY ZpipeAssumption DEF ZpipeType, SourceRead, ZStreams
  <2>2. got \in Nat /\ zstrm.next + got <= zsource.size /\ (got < CHUNK => zstrm.next + got = zsource.size)
    BY <2>1
  <2> HIDE DEF got
  <2>3. /\ zstrm' \in ZStreams /\ zstrm'.avail_in = got /\ zstrm'.next = zstrm.next + got
        /\ zstrm'.avail_out = zstrm.avail_out
    <3> DEFINE y == zstrm.next + got
    <3>1. y \in Nat
      BY <2>1, <2>2
    <3>2. zstrm' = [zstrm EXCEPT !.avail_in = got, !.next = y]
      BY <1>3
    <3> HIDE DEF y
    <3>3. /\ zstrm' \in ZStreams /\ zstrm'.avail_in = got /\ zstrm'.next = y /\ zstrm'.avail_out = zstrm.avail_out
      BY <2>1, <2>2, <3>1, <3>2 DEF ZStreams
    <3>4. QED
      BY <3>3 DEF y
  <2>4. ZpipeType'
    BY <1>3, <2>3 DEF ZpipeType
  <2>5. SourceRead'
    BY <1>3, <2>1, <2>2, <2>3 DEF SourceRead, ZpipeType
  <2>6. OutputDrained' /\ ReturnedWhole'
    BY <1>1, <1>3 DEF OutputDrained, ReturnedWhole
  <2>7. QED
    BY <2>4, <2>5, <2>6
<1>4. QED
  BY <1>2, <1>3 DEF ReadSource

\* What the stream still takes of the input is part of it, and in def all of it.
LEMMA InStreamIs ==
  ASSUME ZpipeType, SourceRead
  PROVE  InStream \in Nat /\ InStream <= zstrm.avail_in /\ (zmode = "def" => InStream = zstrm.avail_in)
BY DEF InStream, ZpipeType, SourceRead, ZStreams

\* A run of deflate or inflate fills the output and empties the input, as far as it goes.
LEMMA RunStreamKeeps == ASSUME ZpipeInv, RunStream PROVE ZpipeInv'
<1> USE DEF ZpipeInv
<1> DEFINE Runs(used, new) ==
        LET out == IF zpending + new < CHUNK THEN zpending + new ELSE CHUNK
            rest == zpending + new - out
        IN /\ out < CHUNK => used = InStream
           /\ zstrm' = [zstrm EXCEPT !.avail_in = @ - used, !.avail_out = CHUNK - out]
           /\ zpending' = rest /\ zmade' = zmade + new /\ zfinished' = (zfinished \/ AtEnd(used, rest))
           /\ \/ zdest' = zdest + out /\ zstage' = "check" /\ UNCHANGED <<zlive, zret>>
              \/ EndStream("Z_ERRNO") /\ UNCHANGED zdest
<1>0. PICK used \in 0..InStream : \E n \in 0..(used * MaxExpansion) : Runs(used, n)
  BY DEF RunStream
<1>1. PICK new \in 0..(used * MaxExpansion) : Runs(used, new)
  BY <1>0
<1> DEFINE out == IF zpending + new < CHUNK THEN zpending + new ELSE CHUNK
           rest == zpending + new - out
<1>2. zstage = "run" /\ UNCHANGED <<zmode, zsource, zflush>>
  BY DEF RunStream
<1>3. InStream \in Nat /\ InStream <= zstrm.avail_in /\ (zmode = "def" => InStream = zstrm.avail_in)
  BY InStreamIs
<1>4. /\ used \in Nat /\ used <= InStream /\ new \in Nat /\ zpending \in Nat /\ CHUNK \in Nat /\ CHUNK > 0
      /\ zstrm.avail_in \in Nat /\ zstrm.next \in Nat /\ zsource.end \in Nat /\ zstrm.avail_in <= zstrm.next
  BY <1>1, <1>3, ZpipeAssumption DEF ZpipeType, ZStreams, SourceRead
<1>5. out \in Nat /\ out <= CHUNK /\ rest \in Nat /\ (out < CHUNK => rest = 0) /\ out + rest = zpending + new
  BY <1>4
<1>6. /\ out < CHUNK => used = InStream
      /\ zstrm' = [zstrm EXCEPT !.avail_in = @ - used, !.avail_out = CHUNK - out]
      /\ zpending' = rest /\ zmade' = zmade + new /\ zfinished' = (zfinished \/ AtEnd(used, rest))
      /\ \/ zdest' = zdest + out /\ zstage' = "check" /\ UNCHANGED <<zlive, zret>>
         \/ EndStream("Z_ERRNO") /\ UNCHANGED zdest
  BY <1>1
<1> HIDE DEF out, rest, Runs
<1>7. /\ zstrm' \in ZStreams /\ zstrm'.avail_in = zstrm.avail_in - used /\ zstrm'.avail_out = CHUNK - out
      /\ zstrm'.next = zstrm.next
  <2>1. zstrm \in ZStreams
    BY DEF ZpipeType
  <2> DEFINE x == zstrm.avail_in - used
             y == CHUNK - out
  <2>2. x \in Nat /\ y \in Nat
    BY <1>3, <1>4, <1>5
  <2>3. zstrm' = [zstrm EXCEPT !.avail_in = x, !.avail_out = y]
    BY <1>6
  <2> HIDE DEF x, y
  <2>4. zstrm' \in ZStreams /\ zstrm'.avail_in = x /\ zstrm'.avail_out = y /\ zstrm'.next = zstrm.next
    BY <2>1, <2>2, <2>3 DEF ZStreams
  <2>5. QED
    BY <2>4 DEF x, y
<1>8. zfinished' \in BOOLEAN /\ (zmode = "inf" /\ zfinished' => zsource.end <= zstrm.next)
  <2>1. zmode = "inf" /\ AtEnd(used, rest) => zsource.end <= zstrm.next
    BY <1>3, <1>4 DEF AtEnd
  <2>2. zmode = "inf" /\ zfinished => zsource.end <= zstrm.next
    BY DEF SourceRead
  <2>3. QED
    BY <1>6, <2>1, <2>2 DEF ZpipeType
<1>9. ZpipeType'
  <2>1. zpending' \in Nat /\ zmade' \in Nat /\ zdest' \in Nat
    BY <1>4, <1>5, <1>6 DEF ZpipeType
  <2>2. zstage' \in {"check", "returned"} /\ zret' \in {"Z_OK", "Z_ERRNO", "Z_MEM_ERROR", "Z_DATA_ERROR"}
    BY <1>6 DEF ZpipeType, EndStream
  <2>3. QED
    BY <1>2, <1>7, <1>8, <2>1, <2>2 DEF ZpipeType
<1>10. SourceRead'
  BY <1>2, <1>3, <1>4, <1>7, <1>8 DEF SourceRead
<1>11. CASE EndStream("Z_ERRNO")
  BY <1>2, <1>9, <1>10, <1>11, FailureKeeps
<1>12. CASE zdest' = zdest + out /\ zstage' = "check" /\ UNCHANGED <<zlive, zret>>
  <2>1. zdest' + zpending' = zmade'
    BY <1>2, <1>4, <1>5, <1>6, <1>12 DEF OutputDrained, ZpipeType
  <2>2. ASSUME zstrm'.avail_out > 0 PROVE zpending' = 0 /\ (zmode = "def" => zstrm'.avail_in = 0 /\ (zflush => zfinished'))
    <3>1. out < CHUNK /\ rest = 0 /\ used = InStream
      BY <1>4, <1>5, <1>6, <1>7, <2>2
    <3>2. zmode = "def" => used = zstrm.avail_in /\ zstrm'.avail_in = 0
      BY <1>3, <1>4, <1>7, <3>1
    <3>3. zmode = "def" /\ zflush => AtEnd(used, rest)
      BY <3>1, <3>2 DEF AtEnd
    <3>4. QED
      BY <1>6, <3>1, <3>2, <3>3
  <2>3. OutputDrained'
    BY <1>2, <1>12, <2>1, <2>2 DEF OutputDrained
  <2>4. ReturnedWhole'
    BY <1>12 DEF ReturnedWhole
  <2>5. QED
    BY <1>9, <1>10, <2>3, <2>4
<1>13. QED
  BY <1>6, <1>11, <1>12

\* An error of the library or of the output ends the program.
LEMMA RunFailsKeeps == ASSUME ZpipeInv, RunFails PROVE ZpipeInv'
<1>1. ZpipeType' /\ SourceRead' /\ EndStream("Z_DATA_ERROR") /\ zstage = "run"
  BY DEF RunFails, EndOnly, EndStream, ZpipeInv, ZpipeType, SourceRead
<1>2. QED
  BY <1>1, FailureKeeps

\* After a run the loops go on, or the program returns.
LEMMA CheckStreamKeeps == ASSUME ZpipeInv, CheckStream PROVE ZpipeInv'
<1> USE DEF ZpipeInv, CheckStream, OutputFull
<1>1. zstrm.avail_out \in Nat
  BY DEF ZpipeType, ZStreams
<1>2. ZpipeType'
  BY DEF ZpipeType, EndStream
<1>3. SourceRead'
  BY DEF SourceRead
<1>4. OutputDrained'
  BY <1>1 DEF OutputDrained, EndStream, ZpipeType
<1>5. ReturnedWhole'
  BY <1>1 DEF ReturnedWhole, OutputDrained, SourceRead, EndStream, ZpipeType
<1>6. QED
  BY <1>2, <1>3, <1>4, <1>5

\* Every step keeps the invariant.
LEMMA ZpipeStep == ZpipeInv /\ [ZpipeNext]_zpipeVars => ZpipeInv'
<1> SUFFICES ASSUME ZpipeInv, [ZpipeNext]_zpipeVars PROVE ZpipeInv'
  OBVIOUS
<1>1. CASE UNCHANGED zpipeVars
  BY <1>1 DEF zpipeVars, ZpipeInv, ZpipeType, SourceRead, OutputDrained, ReturnedWhole
<1>2. QED
  BY <1>1, InitStreamKeeps, ReadSourceKeeps, RunStreamKeeps, RunFailsKeeps, CheckStreamKeeps DEF ZpipeNext

\* The theorem of this section: Z_OK is returned only for a stream that was read and written whole,
\* and the state of the library is freed once (def, inf of zlib.c), for any chunk, source and expansion.
THEOREM StreamStaysWhole == ZpipeSpec => []StreamWhole
<1>1. ZpipeInv => StreamWhole
  BY DEF ZpipeInv, ZpipeType, SourceRead, OutputDrained, ReturnedWhole, StreamWhole
<1>2. QED
  BY <1>1, ZpipeStarts, ZpipeStep, PTL DEF ZpipeSpec

----------------------------------------------------------------------------
(* XDP redirection: checksums after a rewrite, for words of any width. *)

\* The recursion ends, with what is left of n.
LEMMA EndAroundCarries ==
  ASSUME NEW span \in Nat, span > 1, NEW n \in Nat
  PROVE  Carries(n, EndAround(n, span), span)
<1> DEFINE Next(m) == (m \div span) + (m % span)
           Eq(f) == f = [m \in Nat |-> IF m < span THEN m ELSE f[Next(m)]]
           rest == [m \in Nat |-> CHOOSE r \in 0..(span - 1) : Carries(m, r, span)]
           carried == CHOOSE f : Eq(f)
<1>1. \A m \in Nat : Carries(m, rest[m], span)
  BY CarriesOne
<1>2. ASSUME NEW m \in Nat, m < span PROVE Carries(m, m, span)
  <2>1. m - m = 0 * (span - 1)
    OBVIOUS
  <2>2. QED
    BY <1>2, <2>1 DEF Carries, Multiples
<1>3. \A m \in Nat : Next(m) \in Nat /\ (m >= span => Next(m) < m)
  BY CarriedOnce
<1>4. \A m \in Nat : \A r : Carries(Next(m), r, span) <=> Carries(m, r, span)
  BY CarriesStep
<1> HIDE DEF Next, rest
<1>5. Eq(rest)
  <2>1. \A m \in Nat : rest[m] = IF m < span THEN m ELSE rest[Next(m)]
    <3>1. SUFFICES ASSUME NEW m \in Nat PROVE rest[m] = IF m < span THEN m ELSE rest[Next(m)]
      OBVIOUS
    <3>2. CASE m < span
      BY <1>1, <1>2, <3>2, CarriesOne
    <3>3. CASE ~ m < span
      BY <1>1, <1>3, <1>4, <3>3, CarriesOne
    <3>4. QED
      BY <3>2, <3>3
  <2>2. rest = [m \in Nat |-> rest[m]]
    BY DEF rest
  <2>3. rest = [m \in Nat |-> IF m < span THEN m ELSE rest[Next(m)]]
    <3> HIDE DEF Next
    <3>1. QED
      BY <2>1, <2>2
  <2>4. QED
    BY <2>3
<1> HIDE DEF Eq
<1>6. Eq(carried)
  BY <1>5
<1>7. EndAround(n, span) = carried[n]
  BY DEF EndAround, Eq, Next
<1>8. \A m \in Nat : carried[m] = IF m < span THEN m ELSE carried[Next(m)]
  <2> HIDE DEF carried
  <2>1. QED
    BY <1>6 DEF Eq
<1> HIDE DEF carried
<1>9. \A m \in Nat : Carries(m, carried[m], span)
  <2> DEFINE Wrong == {m \in Nat : ~ Carries(m, carried[m], span)}
  <2>1. SUFFICES ASSUME Wrong # {} PROVE FALSE
    OBVIOUS
  <2>2. PICK m \in Wrong : \A k \in Wrong : m <= k
    BY <2>1, LeastOf
  <2>3. m \in Nat /\ ~ Carries(m, carried[m], span)
    OBVIOUS
  <2>4. m >= span
    BY <1>2, <1>8, <2>3
  <2>5. Next(m) \in Nat /\ Next(m) < m
    BY <1>3, <2>3, <2>4
  <2>6. Next(m) \notin Wrong
    BY <2>2, <2>5
  <2>7. Carries(Next(m), carried[Next(m)], span)
    BY <2>5, <2>6
  <2>8. carried[m] = carried[Next(m)]
    BY <1>8, <2>3, <2>4
  <2>9. QED
    BY <1>4, <2>3, <2>7, <2>8
<1>10. QED
  BY <1>7, <1>9

\* Any behaviour of the program, for one of the three protocols.
XdpProtocols == {"tcp", "udp", "icmp"}
\* Any inputs, and any steps of the program.
XdpSpec == XdpInit(XdpProtocols) /\ [][XdpNext]_xdpVars

ShortWords == 0..(SumSpan - 1)
WideWords == 0..(WideSpan - 1)

\* What the proofs need of the two widths.
LEMMA SpanFacts ==
  /\ SumSpan \in Nat /\ SumSpan >= 8 /\ SumSpan > 1 /\ WideSpan \in Nat /\ WideSpan >= 8 * SumSpan /\ WideSpan > 1
  /\ SumSpan - 1 \in Int /\ WideSpan - 1 \in Int /\ WideSpan - 1 = (SumSpan + 1) * (SumSpan - 1)
<1>1. SumSpan \in Nat /\ SumSpan >= 8
  BY XdpAssumption
<1>2. SumSpan * SumSpan >= 8 * SumSpan /\ SumSpan * SumSpan \in Nat
  BY <1>1
<1>3. (SumSpan + 1) * (SumSpan - 1) = SumSpan * SumSpan - 1
  BY <1>1
<1>4. QED
  BY <1>1, <1>2, <1>3 DEF WideSpan

\* Multiples of the wide span less one are multiples of the short one less one.
LEMMA WideMultiples == Multiples(WideSpan - 1) \subseteq Multiples(SumSpan - 1)
<1>1. SUFFICES ASSUME NEW k \in Int PROVE k * (WideSpan - 1) \in Multiples(SumSpan - 1)
  BY DEF Multiples
<1> DEFINE m == SumSpan - 1
           s == SumSpan + 1
<1>2. m \in Int /\ s \in Int /\ WideSpan - 1 = s * m
  BY SpanFacts
<1> HIDE DEF m, s
<1>3. k * (s * m) = (k * s) * m /\ k * s \in Int
  BY <1>2
<1>4. k * (WideSpan - 1) \in Multiples(m)
  BY <1>2, <1>3 DEF Multiples
<1>5. QED
  BY <1>4 DEF m

\* One fold of a number of 32 bits.
LEMMA FoldOnce ==
  ASSUME NEW n \in WideWords
  PROVE  /\ make_checksum_from(n) \in Nat /\ make_checksum_from(n) <= (SumSpan + SumSpan) - 2
         /\ n - make_checksum_from(n) \in Multiples(SumSpan - 1)
         /\ (make_checksum_from(n) = 0 <=> n = 0)
<1> DEFINE W == SumSpan
           q == n \div W
           r == n % W
           m == q + r
<1>1. W \in Nat \ {0} /\ n \in Nat /\ n < W * W /\ W \in Nat /\ W > 1
  BY SpanFacts DEF WideWords, WideSpan
<1>2. q \in Nat /\ r \in Nat /\ r < W /\ n = (W * q) + r
  BY <1>1, DivMod
<1>3. m = make_checksum_from(n)
  BY DEF make_checksum_from
<1>4. n - m \in Multiples(W - 1) /\ (m = 0 <=> n = 0) /\ m \in Nat
  <2> HIDE DEF W
  <2>1. QED
    BY <1>1, CarriedOnce
<1> HIDE DEF q, r
<1>5. q < W
  <2>1. SUFFICES ASSUME q >= W PROVE FALSE
    BY <1>1, <1>2
  <2>2. W * q >= W * W
    BY <1>1, <1>2, <2>1
  <2>3. QED
    BY <1>1, <1>2, <2>2
<1>6. m <= (W + W) - 2
  BY <1>1, <1>2, <1>5
<1>7. QED
  BY <1>3, <1>4, <1>6

\* Two folds are enough for a number of 32 bits.
LEMMA FoldTwice ==
  ASSUME NEW n \in WideWords
  PROVE  /\ make_checksum_from(make_checksum_from(n)) \in ShortWords
         /\ Carries(n, make_checksum_from(make_checksum_from(n)), SumSpan)
         /\ make_checksum_from32(n) = make_checksum_from(make_checksum_from(n))
<1> DEFINE W == SumSpan
           m == make_checksum_from(n)
           q == m \div W
           r == m % W
           s == q + r
<1>1. W \in Nat \ {0} /\ W \in Nat /\ W > 1
  BY SpanFacts
<1>2. s = make_checksum_from(m)
  BY DEF make_checksum_from
<1>3. n \in Nat /\ n - m \in Multiples(W - 1) /\ (m = 0 <=> n = 0) /\ m \in Nat /\ m <= (W + W) - 2
  BY FoldOnce, SpanFacts DEF WideWords
<1> HIDE DEF m
<1>4. q \in Nat /\ r \in Nat /\ r < W /\ m = (W * q) + r
  BY <1>1, <1>3, DivMod
<1>5. m - s \in Multiples(W - 1) /\ (s = 0 <=> m = 0) /\ s \in Nat
  <2> HIDE DEF W
  <2>1. QED
    BY <1>1, <1>3, CarriedOnce
<1> HIDE DEF q, r
<1>6. q < 2
  <2>1. SUFFICES ASSUME q >= 2 PROVE FALSE
    BY <1>4
  <2>2. W * q >= W * 2
    BY <1>1, <1>4, <2>1
  <2>3. QED
    BY <1>1, <1>3, <1>4, <2>2
<1>7. s < W
  <2>1. q = 0 \/ q = 1
    BY <1>4, <1>6
  <2>2. CASE q = 0
    BY <1>4, <2>2
  <2>3. CASE q = 1
    <3>1. W * q = W
      BY <1>1, <2>3
    <3>2. QED
      BY <1>1, <1>3, <1>4, <2>3, <3>1
  <2>4. QED
    BY <2>1, <2>2, <2>3
<1> HIDE DEF s
<1>8. s \in ShortWords /\ s % W = s
  BY <1>1, <1>5, <1>7 DEF ShortWords
<1>9. (n - m) + (m - s) \in Multiples(W - 1)
  <2>1. W - 1 \in Int
    BY <1>1
  <2>2. QED
    BY <1>3, <1>5, <2>1, MultiplesClosed
<1>10. n - s \in Multiples(W - 1)
  <2>1. (n - m) + (m - s) = n - s
    BY <1>1, <1>3, <1>5
  <2>2. QED
    BY <1>9, <2>1
<1>11. Carries(n, s, W)
  BY <1>3, <1>5, <1>8, <1>10 DEF Carries, ShortWords
<1>12. QED
  BY <1>2, <1>8, <1>11 DEF make_checksum_from32, m

\* The sum of n words, step by step.
LEMMA WordSumIs ==
  ASSUME NEW n \in Nat, NEW words \in [1..n -> Int]
  PROVE  \E sum \in [0..n -> Int] :
           sum[0] = 0 /\ (\A i \in 1..n : sum[i] = sum[i - 1] + words[i]) /\ WordSum(words) = sum[n]
<1> DEFINE next == [i \in 1..n |-> [t \in Int |-> t + words[i]]]
           Eq(f) == f = [i \in 0..n |-> IF i = 0 THEN 0 ELSE f[i - 1] + words[i]]
           total == CHOOSE f : Eq(f)
<1>1. Len(words) = n
  OBVIOUS
<1>2. next \in Steps(n, Int) /\ \A i \in 1..n, t \in Int : next[i][t] = t + words[i]
  BY DEF Steps
<1> HIDE DEF next
<1>3. PICK f : IsRecursion(f, n, Int, 0, next)
  <2>1. 0 \in Int
    OBVIOUS
  <2>2. QED
    BY <1>2, <2>1, RecursionUpTo
<1>4. f \in [0..n -> Int] /\ f[0] = 0 /\ \A i \in 1..n : f[i] = f[i - 1] + words[i]
  <2>1. f \in [0..n -> Int] /\ f[0] = 0 /\ \A i \in 1..n : f[i] = next[i][f[i - 1]]
    BY <1>3 DEF IsRecursion
  <2>2. \A i \in 1..n : i - 1 \in 0..n /\ f[i - 1] \in Int
    BY <2>1
  <2>3. QED
    BY <1>2, <2>1, <2>2
<1>5. Eq(f)
  <2>1. f = [i \in 0..n |-> f[i]]
    BY <1>4
  <2>2. \A i \in 0..n : f[i] = IF i = 0 THEN 0 ELSE f[i - 1] + words[i]
    BY <1>4
  <2>3. QED
    BY <2>1, <2>2
<1>6. Eq(total)
  <2> HIDE DEF Eq
  <2>1. QED
    BY <1>5
<1>7. WordSum(words) = total[n]
  BY <1>1 DEF WordSum
<1> HIDE DEF total
<1>8. total[0] = 0 /\ \A i \in 1..n : total[i] = total[i - 1] + words[i]
  <2>1. \A i \in 0..n : total[i] = IF i = 0 THEN 0 ELSE total[i - 1] + words[i]
    BY <1>6
  <2>2. QED
    BY <2>1
<1>9. total \in [0..n -> Int]
  <2> DEFINE Known == {i \in 0..n : total[i] \in Int}
  <2>1. 0 \in Known
    BY <1>8
  <2>2. ASSUME NEW i \in 1..n, i - 1 \in Known PROVE i \in Known
    <3>1. total[i - 1] \in Int /\ words[i] \in Int
      BY <2>2
    <3>2. QED
      BY <1>8, <3>1
  <2>3. 0..n \subseteq Known
    <3> HIDE DEF Known
    <3>1. QED
      BY <2>1, <2>2, InductionUpTo
  <2>4. \A i \in 0..n : total[i] \in Int
    BY <2>3
  <2>5. QED
    BY <1>6, <2>4
<1>10. QED
  BY <1>7, <1>8, <1>9

\* The sums of two, three and four words.
LEMMA WordSums ==
  ASSUME NEW words
  PROVE  /\ words \in [1..2 -> Int] => WordSum(words) = words[1] + words[2]
         /\ words \in [1..3 -> Int] => WordSum(words) = words[1] + words[2] + words[3]
         /\ words \in [1..4 -> Int] => WordSum(words) = words[1] + words[2] + words[3] + words[4]
<1>1. ASSUME words \in [1..2 -> Int] PROVE WordSum(words) = words[1] + words[2]
  <2>1. PICK sum \in [0..2 -> Int] :
          sum[0] = 0 /\ (\A i \in 1..2 : sum[i] = sum[i - 1] + words[i]) /\ WordSum(words) = sum[2]
    BY <1>1, WordSumIs
  <2>2. sum[1] = sum[0] + words[1] /\ sum[2] = sum[1] + words[2]
    BY <2>1
  <2>3. QED
    BY <1>1, <2>1, <2>2
<1>2. ASSUME words \in [1..3 -> Int] PROVE WordSum(words) = words[1] + words[2] + words[3]
  <2>1. PICK sum \in [0..3 -> Int] :
          sum[0] = 0 /\ (\A i \in 1..3 : sum[i] = sum[i - 1] + words[i]) /\ WordSum(words) = sum[3]
    BY <1>2, WordSumIs
  <2>2. sum[1] = sum[0] + words[1] /\ sum[2] = sum[1] + words[2] /\ sum[3] = sum[2] + words[3]
    BY <2>1
  <2>3. QED
    BY <1>2, <2>1, <2>2
<1>3. ASSUME words \in [1..4 -> Int] PROVE WordSum(words) = words[1] + words[2] + words[3] + words[4]
  <2>1. PICK sum \in [0..4 -> Int] :
          sum[0] = 0 /\ (\A i \in 1..4 : sum[i] = sum[i - 1] + words[i]) /\ WordSum(words) = sum[4]
    BY <1>3, WordSumIs
  <2>2. sum[1] = sum[0] + words[1] /\ sum[2] = sum[1] + words[2] /\ sum[3] = sum[2] + words[3] /\ sum[4] = sum[3] + words[4]
    BY <2>1
  <2>3. QED
    BY <1>3, <2>1, <2>2
<1>4. QED
  BY <1>1, <1>2, <1>3

\* A checksum after its words changed is a short word, and moved by what the sum of the words lost.
LEMMA ResummedMoves ==
  ASSUME NEW check \in ShortWords, NEW old, NEW new, NEW lost \in Int, NEW k \in Int,
         WordSum(new) \in Nat,
         WordSum(Complements(old)) \in Nat,
         WordSum(Complements(old)) = k * (WideSpan - 1) - lost
  PROVE  /\ Resummed(check, old, new) \in ShortWords
         /\ Resummed(check, old, new) - (check + lost - WordSum(new)) \in Multiples(SumSpan - 1)
<1> DEFINE m == SumSpan - 1
           mm == WideSpan - 1
           sn == WordSum(new)
           so == WordSum(Complements(old))
           sum == (mm - check) + sn + so
           r == EndAround(sum, WideSpan)
           t == make_checksum_from32(r)
<1>1. Resummed(check, old, new) = m - t
  BY DEF Resummed, bpf_csum_diff
<1> HIDE DEF so, sn
<1>2. sn \in Nat /\ so \in Nat /\ so = k * mm - lost
  BY DEF so, sn
<1>3. m \in Int /\ mm \in Int /\ m > 0 /\ mm > m /\ check \in 0..m
  BY SpanFacts DEF ShortWords
<1>4. sum \in Nat /\ sum > 0
  <2> HIDE DEF m, mm
  <2>1. QED
    BY <1>2, <1>3
<1>5. Carries(sum, r, WideSpan)
  <2> HIDE DEF sum
  <2>1. QED
    BY <1>4, SpanFacts, EndAroundCarries
<1> HIDE DEF r
<1>6. r \in WideWords /\ r # 0 /\ sum - r \in Multiples(m)
  <2> HIDE DEF sum
  <2>1. r \in 0..(WideSpan - 1) /\ sum - r \in Multiples(WideSpan - 1) /\ r # 0
    BY <1>4, <1>5 DEF Carries
  <2>2. QED
    BY <2>1, WideMultiples DEF WideWords
<1>7. t \in ShortWords /\ Carries(r, t, SumSpan)
  BY <1>6, FoldTwice
<1> HIDE DEF t
<1>8. t \in 1..m /\ r - t \in Multiples(m)
  BY <1>6, <1>7 DEF Carries, ShortWords
<1>9. m - t \in ShortWords
  BY <1>3, <1>8 DEF ShortWords
<1>10. mm \in Multiples(m) /\ k * mm \in Multiples(m) /\ m \in Multiples(m)
  <2>1. mm = 1 * (WideSpan - 1) /\ m = 1 * m
    BY <1>3
  <2>2. mm \in Multiples(WideSpan - 1) /\ k * mm \in Multiples(WideSpan - 1)
    BY <2>1 DEF Multiples
  <2>3. m \in Multiples(m)
    BY <2>1 DEF Multiples
  <2>4. QED
    BY <2>2, <2>3, WideMultiples
<1>11. /\ (sum - r) + (r - t) \in Multiples(m)
       /\ mm + k * mm \in Multiples(m)
  BY <1>3, <1>6, <1>8, <1>10, MultiplesClosed
<1>12. (m - (mm + k * mm)) + ((sum - r) + (r - t)) \in Multiples(m)
  <2>1. m - (mm + k * mm) \in Multiples(m)
    BY <1>3, <1>10, <1>11, MultiplesClosed
  <2>2. QED
    BY <1>3, <1>11, <2>1, MultiplesClosed
<1>13. (m - (mm + k * mm)) + ((sum - r) + (r - t)) = (m - t) - (check + lost - sn)
  <2> DEFINE km == k * mm
  <2>1. km \in Int /\ r \in Int /\ t \in Int /\ check \in Int
    BY <1>3, <1>6, <1>8 DEF WideWords
  <2>2. so = km - lost
    BY <1>2
  <2> HIDE DEF km, m, mm
  <2>3. (m - (mm + km)) + ((sum - r) + (r - t)) = (m - t) - (check + lost - sn)
    BY <1>2, <1>3, <2>1, <2>2
  <2>4. QED
    BY <2>3 DEF km
<1>14. (m - t) - (check + lost - sn) \in Multiples(m)
  <2> HIDE DEF m, mm
  <2>1. QED
    BY <1>12, <1>13
<1>15. QED
  BY <1>1, <1>9, <1>14 DEF sn

\* Words and a checksum add up to all ones when their sum is a multiple of all ones, and not 0.
LEMMA AddsUpIs ==
  ASSUME NEW words, NEW check,
         check + WordSum(FoldedWords(words)) \in Nat
  PROVE  AddsUp(words, check) <=>
           /\ check + WordSum(FoldedWords(words)) # 0
           /\ check + WordSum(FoldedWords(words)) \in Multiples(SumSpan - 1)
<1> DEFINE total == check + WordSum(FoldedWords(words))
           r == EndAround(total, SumSpan)
           m == SumSpan - 1
<1>1. AddsUp(words, check) <=> r = m
  BY DEF AddsUp
<1>2. total \in Nat
  OBVIOUS
<1> HIDE DEF total
<1>3. Carries(total, r, SumSpan)
  BY <1>2, SpanFacts, EndAroundCarries
<1> HIDE DEF r
<1>4. r \in 0..m /\ total - r \in Multiples(m) /\ (r = 0 <=> total = 0)
  BY <1>3 DEF Carries
<1>5. m \in Nat /\ m > 0 /\ m \in Int
  BY SpanFacts
<1>6. m = 1 * m /\ m \in Multiples(m)
  BY <1>5 DEF Multiples
<1> HIDE DEF m
<1>7. r = m => total # 0 /\ total \in Multiples(m)
  <2>1. SUFFICES ASSUME r = m PROVE total # 0 /\ total \in Multiples(m)
    OBVIOUS
  <2>2. (total - m) + m \in Multiples(m)
    BY <1>4, <1>5, <1>6, <2>1, MultiplesClosed
  <2>3. QED
    BY <1>2, <1>4, <1>5, <2>1, <2>2
<1>8. total # 0 /\ total \in Multiples(m) => r = m
  <2>1. SUFFICES ASSUME total # 0, total \in Multiples(m) PROVE r = m
    OBVIOUS
  <2>2. total - (total - r) \in Multiples(m) /\ total - (total - r) = r
    BY <1>2, <1>4, <1>5, <2>1, MultiplesClosed
  <2>3. r - m \in Multiples(m)
    BY <1>5, <1>6, <2>2, MultiplesClosed
  <2>4. -m < r - m /\ r - m < m
    BY <1>4, <1>5, <2>1
  <2>5. r - m = 0
    BY <1>5, <2>3, <2>4, SmallMultiple
  <2>6. QED
    BY <1>4, <1>5, <2>5
<1>9. QED
  BY <1>1, <1>7, <1>8 DEF total, m

\* The words of a header: their sums, folded and not.
LEMMA ThreeWords ==
  ASSUME NEW a \in WideWords, NEW b \in WideWords, NEW c \in WideWords
  PROVE  /\ WordSum(<<a, b, c>>) = a + b + c
         /\ WordSum(Complements(<<a, b, c>>)) = 3 * (WideSpan - 1) - (a + b + c)
         /\ WordSum(FoldedWords(<<a, b, c>>))
              = make_checksum_from(a) + make_checksum_from(b) + make_checksum_from(c)
<1> DEFINE w == <<a, b, c>>
           u == Complements(w)
           v == FoldedWords(w)
<1>1. a \in Int /\ b \in Int /\ c \in Int /\ WideSpan - 1 \in Int /\ WideSpan \in Int
  BY SpanFacts DEF WideWords
<1>2. make_checksum_from(a) \in Int /\ make_checksum_from(b) \in Int /\ make_checksum_from(c) \in Int
  BY FoldOnce
<1>3. w \in [1..3 -> Int] /\ w[1] = a /\ w[2] = b /\ w[3] = c
  BY <1>1
<1>4. u \in [1..3 -> Int] /\ u[1] = WideSpan - 1 - a /\ u[2] = WideSpan - 1 - b /\ u[3] = WideSpan - 1 - c
  BY <1>1 DEF Complements
<1>5. v \in [1..3 -> Int] /\ v[1] = make_checksum_from(a) /\ v[2] = make_checksum_from(b) /\ v[3] = make_checksum_from(c)
  BY <1>2 DEF FoldedWords
<1> HIDE DEF u, v, w
<1>6. WordSum(w) = a + b + c /\ WordSum(v) = make_checksum_from(a) + make_checksum_from(b) + make_checksum_from(c)
  BY <1>3, <1>5, WordSums
<1>7. WordSum(u) = 3 * (WideSpan - 1) - (a + b + c)
  <2>1. WordSum(u) = (WideSpan - 1 - a) + (WideSpan - 1 - b) + (WideSpan - 1 - c)
    BY <1>4, WordSums
  <2>2. QED
    BY <1>1, <2>1
<1>8. QED
  BY <1>6, <1>7 DEF u, v, w

\* The addresses of a pseudo header.
LEMMA TwoWords ==
  ASSUME NEW a \in WideWords, NEW b \in WideWords
  PROVE  /\ WordSum(<<a, b>>) = a + b
         /\ WordSum(Complements(<<a, b>>)) = 2 * (WideSpan - 1) - (a + b)
<1> DEFINE w == <<a, b>>
           u == Complements(w)
<1>1. a \in Int /\ b \in Int /\ WideSpan - 1 \in Int /\ WideSpan \in Int
  BY SpanFacts DEF WideWords
<1>2. w \in [1..2 -> Int] /\ w[1] = a /\ w[2] = b
  BY <1>1
<1>3. u \in [1..2 -> Int] /\ u[1] = WideSpan - 1 - a /\ u[2] = WideSpan - 1 - b
  BY <1>1 DEF Complements
<1> HIDE DEF u, w
<1>4. WordSum(w) = a + b
  BY <1>2, WordSums
<1>5. WordSum(u) = 2 * (WideSpan - 1) - (a + b)
  <2>1. WordSum(u) = (WideSpan - 1 - a) + (WideSpan - 1 - b)
    BY <1>3, WordSums
  <2>2. QED
    BY <1>1, <2>1
<1>6. QED
  BY <1>4, <1>5 DEF u, w

\* The four words the checksum of TCP and UDP covers.
LEMMA FourWords ==
  ASSUME NEW a \in WideWords, NEW b \in WideWords, NEW c \in WideWords, NEW d \in WideWords
  PROVE  WordSum(FoldedWords(<<a, b, c, d>>))
           = make_checksum_from(a) + make_checksum_from(b) + make_checksum_from(c) + make_checksum_from(d)
<1> DEFINE x == <<a, b, c, d>>
           v == FoldedWords(x)
<1>1. make_checksum_from(a) \in Int /\ make_checksum_from(b) \in Int /\ make_checksum_from(c) \in Int /\ make_checksum_from(d) \in Int
  BY FoldOnce
<1>2. v = [i \in 1..4 |-> make_checksum_from(x[i])] /\ x[1] = a /\ x[2] = b /\ x[3] = c /\ x[4] = d
  BY DEF FoldedWords
<1> HIDE DEF v, x
<1>3. v[1] = make_checksum_from(a) /\ v[2] = make_checksum_from(b) /\ v[3] = make_checksum_from(c) /\ v[4] = make_checksum_from(d)
  BY <1>2
<1>4. DOMAIN v = 1..4 /\ v = [i \in 1..4 |-> v[i]] /\ \A i \in 1..4 : i = 1 \/ i = 2 \/ i = 3 \/ i = 4
  BY <1>2
<1>5. \A i \in 1..4 : v[i] \in Int
  BY <1>1, <1>3, <1>4
<1>6. v \in [1..4 -> Int]
  BY <1>4, <1>5
<1>7. QED
  BY <1>3, <1>6, WordSums DEF v, x

\* Totals that differ by multiples are multiples together.
LEMMA TotalsTogether ==
  ASSUME NEW m \in Int, NEW before \in Multiples(m), NEW moved \in Multiples(m), NEW p \in Multiples(m), NEW q \in Multiples(m)
  PROVE  (before + moved) + (p - q) \in Multiples(m)
<1>1. before + moved \in Multiples(m) /\ p - q \in Multiples(m)
  BY MultiplesClosed
<1>2. QED
  BY <1>1, MultiplesClosed

\* A header that added up adds up when its words have changed and its checksum with them.
LEMMA HeaderKeeps ==
  ASSUME NEW a \in WideWords, NEW b \in WideWords, NEW c \in WideWords, NEW check \in ShortWords,
         NEW aa \in WideWords, NEW bb \in WideWords, NEW cc \in WideWords, cc # 0
  PROVE  /\ Resummed(check, <<a, b, c>>, <<aa, bb, cc>>) \in ShortWords
         /\ AddsUp(<<a, b, c>>, check) => AddsUp(<<aa, bb, cc>>, Resummed(check, <<a, b, c>>, <<aa, bb, cc>>))
<1> DEFINE m == SumSpan - 1
           F(n) == make_checksum_from(n)
           again == Resummed(check, <<a, b, c>>, <<aa, bb, cc>>)
           lost == a + b + c
           total == check + (F(a) + F(b) + F(c))
           totalAgain == again + (F(aa) + F(bb) + F(cc))
           moved == again - (check + lost - (aa + bb + cc))
           d == ((a - F(a)) + (b - F(b))) + (c - F(c))
           dd == ((aa - F(aa)) + (bb - F(bb))) + (cc - F(cc))
<1>1. /\ a \in Nat /\ b \in Nat /\ c \in Nat /\ aa \in Nat /\ bb \in Nat /\ cc \in Nat /\ check \in Nat /\ m \in Int
      /\ a <= WideSpan - 1 /\ b <= WideSpan - 1 /\ c <= WideSpan - 1 /\ WideSpan - 1 \in Int
  BY SpanFacts DEF WideWords, ShortWords
<1>2. /\ F(a) \in Nat /\ F(b) \in Nat /\ F(c) \in Nat /\ F(aa) \in Nat /\ F(bb) \in Nat /\ F(cc) \in Nat /\ F(cc) # 0
      /\ a - F(a) \in Multiples(m) /\ b - F(b) \in Multiples(m) /\ c - F(c) \in Multiples(m)
      /\ aa - F(aa) \in Multiples(m) /\ bb - F(bb) \in Multiples(m) /\ cc - F(cc) \in Multiples(m)
  BY FoldOnce
<1>3. again \in ShortWords /\ moved \in Multiples(m)
  <2>1. WordSum(<<aa, bb, cc>>) = aa + bb + cc
    BY ThreeWords
  <2>2. /\ WordSum(Complements(<<a, b, c>>)) = 3 * (WideSpan - 1) - lost
        /\ 3 * (WideSpan - 1) - lost \in Nat /\ lost \in Int /\ 3 \in Int /\ aa + bb + cc \in Nat
    BY <1>1, ThreeWords
  <2> HIDE DEF lost, again
  <2>3. /\ Resummed(check, <<a, b, c>>, <<aa, bb, cc>>) \in ShortWords
        /\ Resummed(check, <<a, b, c>>, <<aa, bb, cc>>) - (check + lost - WordSum(<<aa, bb, cc>>)) \in Multiples(SumSpan - 1)
    BY <2>1, <2>2, ResummedMoves
  <2>4. QED
    BY <2>1, <2>3 DEF again
<1>4. again \in Nat
  BY <1>3, SpanFacts DEF ShortWords
<1> HIDE DEF m, F, again
<1>5. d \in Multiples(m) /\ dd \in Multiples(m)
  <2>1. (a - F(a)) + (b - F(b)) \in Multiples(m) /\ (aa - F(aa)) + (bb - F(bb)) \in Multiples(m)
    BY <1>1, <1>2, MultiplesClosed
  <2>2. QED
    BY <1>1, <1>2, <2>1, MultiplesClosed
<1>6. totalAgain = (total + moved) + (d - dd)
  BY <1>1, <1>2, <1>4
<1>7. total \in Nat /\ totalAgain \in Nat /\ totalAgain # 0
  BY <1>1, <1>2, <1>4
<1>8. AddsUp(<<a, b, c>>, check) => total \in Multiples(m)
  <2>1. total = check + WordSum(FoldedWords(<<a, b, c>>))
    BY ThreeWords DEF F
  <2> HIDE DEF total
  <2>2. QED
    BY <1>7, <2>1, AddsUpIs DEF m
<1>9. totalAgain \in Multiples(m) => AddsUp(<<aa, bb, cc>>, again)
  <2>1. totalAgain = again + WordSum(FoldedWords(<<aa, bb, cc>>))
    BY ThreeWords DEF F
  <2> HIDE DEF totalAgain
  <2>2. QED
    BY <1>7, <2>1, AddsUpIs DEF m
<1> HIDE DEF total, totalAgain, moved, d, dd
<1>10. total \in Multiples(m) => totalAgain \in Multiples(m)
  BY <1>1, <1>3, <1>5, <1>6, TotalsTogether
<1>11. QED
  BY <1>3, <1>8, <1>9, <1>10 DEF again

\* The same for a pseudo header, whose addresses change and whose ports stay.
LEMMA PseudoKeeps ==
  ASSUME NEW a \in WideWords, NEW b \in WideWords, NEW check \in ShortWords,
         NEW aa \in WideWords, NEW bb \in WideWords, NEW s \in ShortWords, NEW e \in ShortWords, s # 0
  PROVE  /\ Resummed(check, <<a, b>>, <<aa, bb>>) \in ShortWords
         /\ AddsUp(<<a, b, s, e>>, check) => AddsUp(<<aa, bb, s, e>>, Resummed(check, <<a, b>>, <<aa, bb>>))
<1> DEFINE m == SumSpan - 1
           F(n) == make_checksum_from(n)
           again == Resummed(check, <<a, b>>, <<aa, bb>>)
           lost == a + b
           total == check + (F(a) + F(b) + F(s) + F(e))
           totalAgain == again + (F(aa) + F(bb) + F(s) + F(e))
           moved == again - (check + lost - (aa + bb))
           d == (a - F(a)) + (b - F(b))
           dd == (aa - F(aa)) + (bb - F(bb))
<1>1. /\ a \in Nat /\ b \in Nat /\ aa \in Nat /\ bb \in Nat /\ check \in Nat /\ m \in Int
      /\ a <= WideSpan - 1 /\ b <= WideSpan - 1 /\ WideSpan - 1 \in Int /\ s \in WideWords /\ e \in WideWords
  BY SpanFacts DEF WideWords, ShortWords
<1>2. /\ F(a) \in Nat /\ F(b) \in Nat /\ F(s) \in Nat /\ F(aa) \in Nat /\ F(bb) \in Nat /\ F(e) \in Nat /\ F(s) # 0
      /\ a - F(a) \in Multiples(m) /\ b - F(b) \in Multiples(m)
      /\ aa - F(aa) \in Multiples(m) /\ bb - F(bb) \in Multiples(m)
  BY <1>1, FoldOnce
<1>3. again \in ShortWords /\ moved \in Multiples(m)
  <2>1. WordSum(<<aa, bb>>) = aa + bb
    BY TwoWords
  <2>2. /\ WordSum(Complements(<<a, b>>)) = 2 * (WideSpan - 1) - lost
        /\ 2 * (WideSpan - 1) - lost \in Nat /\ lost \in Int /\ 2 \in Int /\ aa + bb \in Nat
    BY <1>1, TwoWords
  <2> HIDE DEF lost, again
  <2>3. /\ Resummed(check, <<a, b>>, <<aa, bb>>) \in ShortWords
        /\ Resummed(check, <<a, b>>, <<aa, bb>>) - (check + lost - WordSum(<<aa, bb>>)) \in Multiples(SumSpan - 1)
    BY <2>1, <2>2, ResummedMoves
  <2>4. QED
    BY <2>1, <2>3 DEF again
<1>4. again \in Nat
  BY <1>3, SpanFacts DEF ShortWords
<1> HIDE DEF m, F, again
<1>5. d \in Multiples(m) /\ dd \in Multiples(m)
  BY <1>1, <1>2, MultiplesClosed
<1>6. totalAgain = (total + moved) + (d - dd)
  BY <1>1, <1>2, <1>4
<1>7. total \in Nat /\ totalAgain \in Nat /\ totalAgain # 0
  BY <1>1, <1>2, <1>4
<1>8. AddsUp(<<a, b, s, e>>, check) => total \in Multiples(m)
  <2> DEFINE words == <<a, b, s, e>>
  <2>1. total = check + WordSum(FoldedWords(words))
    BY <1>1, FourWords DEF F
  <2> HIDE DEF total, words
  <2>2. AddsUp(words, check) => total \in Multiples(m)
    BY <1>7, <2>1, AddsUpIs DEF m
  <2>3. QED
    BY <2>2 DEF words
<1>9. totalAgain \in Multiples(m) => AddsUp(<<aa, bb, s, e>>, again)
  <2> DEFINE words == <<aa, bb, s, e>>
  <2>1. totalAgain = again + WordSum(FoldedWords(words))
    BY <1>1, FourWords DEF F
  <2> HIDE DEF totalAgain, words
  <2>2. totalAgain \in Multiples(m) => AddsUp(words, again)
    BY <1>7, <2>1, AddsUpIs DEF m
  <2>3. QED
    BY <2>2 DEF words
<1> HIDE DEF total, totalAgain, moved, d, dd
<1>10. total \in Multiples(m) => totalAgain \in Multiples(m)
  BY <1>1, <1>3, <1>5, <1>6, TotalsTogether
<1>11. QED
  BY <1>3, <1>8, <1>9, <1>10 DEF again

\* The checksums of a packet that was built are short words.
LEMMA RightShort ==
  ASSUME NEW a \in WideWords, NEW b \in WideWords, NEW c \in WideWords, NEW d \in WideWords
  PROVE  Right(<<a, b, c>>) \in ShortWords /\ Right(<<a, b, c, d>>) \in ShortWords
<1> DEFINE F(n) == make_checksum_from(n)
           three == F(a) + F(b) + F(c)
           four == F(a) + F(b) + F(c) + F(d)
<1>1. /\ F(a) \in Nat /\ F(b) \in Nat /\ F(c) \in Nat /\ F(d) \in Nat
      /\ F(a) <= (SumSpan + SumSpan) - 2 /\ F(b) <= (SumSpan + SumSpan) - 2
      /\ F(c) <= (SumSpan + SumSpan) - 2 /\ F(d) <= (SumSpan + SumSpan) - 2
  BY FoldOnce
<1>2. three \in WideWords /\ four \in WideWords
  <2> HIDE DEF F
  <2>1. three \in Nat /\ four \in Nat /\ three <= 8 * SumSpan - 6 /\ four <= 8 * SumSpan - 8
    BY <1>1, SpanFacts
  <2> HIDE DEF three, four
  <2>2. QED
    BY <2>1, SpanFacts DEF WideWords
<1>3. WordSum(FoldedWords(<<a, b, c>>)) = three /\ WordSum(FoldedWords(<<a, b, c, d>>)) = four
  BY ThreeWords, FourWords
<1> HIDE DEF F, three, four
<1>4. F(F(three)) \in ShortWords /\ F(F(four)) \in ShortWords
  BY <1>2, FoldTwice DEF F
<1>5. SumSpan - 1 - F(F(three)) \in ShortWords /\ SumSpan - 1 - F(F(four)) \in ShortWords
  BY <1>4, SpanFacts DEF ShortWords
<1>6. QED
  BY <1>3, <1>5 DEF Right, F

\* Packets that come in: requests to the service, and answers of the server.
Packets ==
  [kind : {"request", "answer"}, client : ClientIps, saddr : WideWords, daddr : WideWords, source : ShortWords,
   dest : ShortWords, ttl : {2}, room : {0, 1}, ipcheck : ShortWords, check : ShortWords]
Requests == {p \in Packets : p.kind = "request" /\ p.saddr = p.client /\ p.source \in ClientPorts /\ p.dest = ServicePort}
Answers == {p \in Packets : p.kind = "answer" /\ p.source = ServicePort /\ p.dest \in ClientPorts}

\* Addresses and ports are words.
LEMMA NumberFacts ==
  /\ ClientIps \subseteq WideWords /\ LocalIp \in WideWords /\ ServerIp \in WideWords /\ 0 \in WideWords
  /\ ClientPorts \subseteq ShortWords /\ ServicePort \in ShortWords /\ ServicePort # 0 /\ 0 \notin ClientPorts
  /\ ServicePort \notin ClientPorts /\ ShortWords \subseteq WideWords /\ 2 \in WideWords /\ 1 \in WideWords /\ 0 \in ShortWords
  BY XdpAssumption, SpanFacts DEF WideWords, ShortWords

\* The fields of a packet.
LEMMA PacketIs ==
  ASSUME NEW kind \in {"request", "answer"}, NEW client \in ClientIps, NEW src \in WideWords,
         NEW source \in ShortWords, NEW dest \in ShortWords, NEW room \in {0, 1}
  PROVE  /\ Packet(kind, client, src, source, dest, room) \in Packets
         /\ Packet(kind, client, src, source, dest, room).kind = kind
         /\ Packet(kind, client, src, source, dest, room).client = client
         /\ Packet(kind, client, src, source, dest, room).saddr = src
         /\ Packet(kind, client, src, source, dest, room).source = source
         /\ Packet(kind, client, src, source, dest, room).dest = dest
<1> DEFINE p == [kind |-> kind, client |-> client, saddr |-> src, daddr |-> LocalIp, source |-> source, dest |-> dest,
                 ttl |-> 2, room |-> room, ipcheck |-> 0, check |-> 0]
           right == Right(HeaderWords(p))
           covered == Right(CoveredWords(p))
<1>1. Packet(kind, client, src, source, dest, room) = [p EXCEPT !.ipcheck = right, !.check = covered]
  BY DEF Packet, Summed
<1>2. HeaderWords(p) = <<src, LocalIp, 2>> /\ CoveredWords(p) = <<src, LocalIp, source, dest>>
  BY DEF HeaderWords, CoveredWords
<1>3. right \in ShortWords /\ covered \in ShortWords
  <2>1. /\ src \in WideWords /\ LocalIp \in WideWords /\ 2 \in WideWords /\ source \in WideWords /\ dest \in WideWords
    BY NumberFacts
  <2> HIDE DEF p
  <2>2. QED
    BY <1>2, <2>1, RightShort
<1> HIDE DEF right, covered
<1>4. QED
  BY <1>1, <1>3, NumberFacts DEF Packets

\* A packet whose checksum alone changes.
LEMMA BareChecksum ==
  ASSUME NEW p \in Packets, NEW check \in ShortWords
  PROVE  /\ [p EXCEPT !.check = check] \in Packets
         /\ [p EXCEPT !.check = check].kind = p.kind /\ [p EXCEPT !.check = check].client = p.client
         /\ [p EXCEPT !.check = check].saddr = p.saddr /\ [p EXCEPT !.check = check].source = p.source
         /\ [p EXCEPT !.check = check].dest = p.dest
  BY DEF Packets

\* A packet sent on has right checksums when it had them, and comes from this host.
LEMMA RedirectedKeeps ==
  ASSUME NEW p \in Packets, p.source # 0, NEW to \in WideWords
  PROVE  /\ Redirected(p, to).saddr = LocalIp /\ Redirected(p, to).daddr = to
         /\ Accepted(p) /\ ~ (protocol = "udp" /\ p.check = 0) => Accepted(Redirected(p, to))
<1> DEFINE icmp == protocol = "icmp"
           moved == [p EXCEPT !.saddr = LocalIp, !.daddr = to, !.ttl = IF protocol = "icmp" THEN @ ELSE (@ - 1) % SumSpan]
           ttl == IF protocol = "icmp" THEN 2 ELSE 1
           sum == Resummed(p.ipcheck, HeaderWords(p), HeaderWords(moved))
           again == IF protocol = "icmp" THEN p.check ELSE Resummed(p.check, PseudoWords(p), PseudoWords(moved))
           altered == [moved EXCEPT !.ipcheck = sum, !.check = again]
<1>1. Redirected(p, to) = altered
  BY DEF Redirected, Packets
<1>2. /\ p.saddr \in WideWords /\ p.daddr \in WideWords /\ p.source \in ShortWords /\ p.dest \in ShortWords /\ p.ttl = 2
      /\ p.ipcheck \in ShortWords /\ p.check \in ShortWords
  BY DEF Packets
<1>3. ttl \in WideWords /\ ttl # 0 /\ 2 \in WideWords /\ LocalIp \in WideWords /\ (2 - 1) % SumSpan = 1
  BY NumberFacts, SpanFacts
<1>4. moved.saddr = LocalIp /\ moved.daddr = to /\ moved.ttl = ttl /\ moved.source = p.source /\ moved.dest = p.dest
  BY <1>2, <1>3 DEF Packets
<1>5. altered.saddr = LocalIp /\ altered.daddr = to /\ altered.ttl = ttl /\ altered.source = p.source /\ altered.dest = p.dest
      /\ altered.ipcheck = sum /\ altered.check = again
  <2>1. /\ altered.saddr = moved.saddr /\ altered.daddr = moved.daddr /\ altered.ttl = moved.ttl
        /\ altered.source = moved.source /\ altered.dest = moved.dest /\ altered.ipcheck = sum /\ altered.check = again
    <3> HIDE DEF sum, again
    <3>1. QED
      BY DEF Packets
  <2>2. QED
    BY <1>4, <2>1
<1> HIDE DEF moved, altered
<1>6. HeaderWords(p) = <<p.saddr, p.daddr, 2>> /\ HeaderWords(moved) = <<LocalIp, to, ttl>>
  BY <1>2, <1>4 DEF HeaderWords
<1>7. PseudoWords(p) = <<p.saddr, p.daddr>> /\ PseudoWords(moved) = <<LocalIp, to>>
  BY <1>4 DEF PseudoWords
<1>8. HeaderWords(altered) = <<LocalIp, to, ttl>> /\ CoveredWords(altered) = <<LocalIp, to, p.source, p.dest>>
  BY <1>5 DEF HeaderWords, CoveredWords
<1>9. CoveredWords(p) = <<p.saddr, p.daddr, p.source, p.dest>>
  BY DEF CoveredWords
<1> HIDE DEF ttl
<1>10. AddsUp(HeaderWords(p), p.ipcheck) => AddsUp(HeaderWords(altered), sum)
  BY <1>2, <1>3, <1>6, <1>8, HeaderKeeps
<1>11. ~ icmp /\ AddsUp(CoveredWords(p), p.check) => AddsUp(CoveredWords(altered), again)
  BY <1>2, <1>3, <1>7, <1>8, <1>9, PseudoKeeps
<1> HIDE DEF sum, again
<1>12. Accepted(p) /\ ~ (protocol = "udp" /\ p.check = 0) => Accepted(altered)
  BY <1>5, <1>10, <1>11 DEF Accepted
<1>13. QED
  BY <1>1, <1>5, <1>12

XdpAskers == [client : ClientIps, port : ClientPorts]
XdpStages == {"idle", "parse", "port", "addr"}
XdpType ==
  /\ protocol \in XdpProtocols /\ client_addr \in ClientIps \cup {0} /\ xdp_client_map \in [ClientPorts -> ClientIps \cup {0}]
  /\ packet \in [Cpus -> Packets \cup {NoPacket}] /\ handler \in [Cpus -> XdpStages]
  /\ asked \subseteq XdpAskers /\ rivals \in [ClientIps -> [ClientPorts -> SUBSET ClientIps]]

\* What a processor handles is a request, or the answer to one; only TCP and UDP have stages after parsing.
XdpAnswersOf(askers) == {p \in Answers : [client |-> p.client, port |-> p.dest] \in askers}
PacketsHandled ==
  \A c \in Cpus :
    /\ handler[c] = "parse" => packet[c] \in Requests \/ packet[c] \in XdpAnswersOf(asked)
    /\ handler[c] = "port" => packet[c] \in Requests /\ protocol # "icmp"
    /\ handler[c] = "addr" => packet[c] \in XdpAnswersOf(asked) /\ protocol # "icmp"

\* Whose request has been sent on, or has its address stored.
Stored(a, i) ==
  \/ [client |-> a, port |-> i] \in asked
  \/ \E c \in Cpus : handler[c] = "port" /\ packet[c].client = a /\ packet[c].source = i

\* The memory of TCP and UDP, and that of ICMP, is of a client that no other has asked after.
AskerRemembered ==
  protocol # "icmp" => \A a \in ClientIps, i \in ClientPorts : Stored(a, i) /\ rivals[a][i] = {} => client_addr = a
EchoRemembered ==
  protocol = "icmp" =>
    \A a \in ClientIps, i \in ClientPorts :
      [client |-> a, port |-> i] \in asked /\ rivals[a][i] = {} => xdp_client_map[i] \in {a, 0}

XdpInv == XdpType /\ PacketsHandled /\ AskerRemembered /\ EchoRemembered /\ RedirectedRight

\* Nothing is on its way.
LEMMA XdpStarts == XdpInit(XdpProtocols) => XdpInv
<1> SUFFICES ASSUME XdpInit(XdpProtocols) PROVE XdpInv
  OBVIOUS
<1> USE DEF XdpInit
<1>1. XdpType
  BY DEF XdpType, XdpStages
<1>2. PacketsHandled
  BY DEF PacketsHandled
<1>3. AskerRemembered
  BY DEF AskerRemembered, Stored
<1>4. EchoRemembered
  BY DEF EchoRemembered
<1>5. RedirectedRight
  BY DEF RedirectedRight, Nothing
<1>6. QED
  BY <1>1, <1>2, <1>3, <1>4, <1>5 DEF XdpInv

\* What a processor handles stays so when it goes idle, and when others are asked of.
LEMMA IdleKeeps ==
  ASSUME XdpInv, NEW c \in Cpus, handler' = [handler EXCEPT ![c] = "idle"],
         packet' = [packet EXCEPT ![c] = NoPacket], asked \subseteq asked', UNCHANGED protocol
  PROVE  PacketsHandled' /\ handler' \in [Cpus -> XdpStages] /\ packet' \in [Cpus -> Packets \cup {NoPacket}]
<1>1. handler \in [Cpus -> XdpStages] /\ packet \in [Cpus -> Packets \cup {NoPacket}] /\ PacketsHandled
  BY DEF XdpInv, XdpType
<1>2. handler' \in [Cpus -> XdpStages] /\ packet' \in [Cpus -> Packets \cup {NoPacket}]
  BY <1>1 DEF XdpStages
<1>3. handler'[c] = "idle" /\ \A d \in Cpus \ {c} : handler'[d] = handler[d] /\ packet'[d] = packet[d]
  BY <1>1
<1>4. XdpAnswersOf(asked) \subseteq XdpAnswersOf(asked')
  BY DEF XdpAnswersOf
<1>5. PacketsHandled'
  BY <1>1, <1>3, <1>4 DEF PacketsHandled
<1>6. QED
  BY <1>2, <1>5

\* A packet passed on changes no memory.
LEMMA PassKeeps ==
  ASSUME XdpInv, NEW c \in Cpus, Pass(c), UNCHANGED <<client_addr, client_port, xdp_client_map, rivals>>
  PROVE  XdpInv'
<1> USE DEF Pass
<1>1. PacketsHandled' /\ handler' \in [Cpus -> XdpStages] /\ packet' \in [Cpus -> Packets \cup {NoPacket}]
  BY IdleKeeps
<1>2. XdpType'
  BY <1>1 DEF XdpInv, XdpType
<1>3. AskerRemembered'
  <2>1. ASSUME NEW a \in ClientIps, NEW i \in ClientPorts, Stored(a, i)' PROVE Stored(a, i)
    <3>1. CASE [client |-> a, port |-> i] \in asked'
      BY <3>1 DEF Stored
    <3>2. CASE \E d \in Cpus : handler'[d] = "port" /\ packet'[d].client = a /\ packet'[d].source = i
      <4>1. PICK d \in Cpus : handler'[d] = "port" /\ packet'[d].client = a /\ packet'[d].source = i
        BY <3>2
      <4>2. handler[d] = "port" /\ packet[d].client = a /\ packet[d].source = i
        BY <4>1 DEF XdpInv, XdpType
      <4>3. QED
        BY <4>2 DEF Stored
    <3>3. QED
      BY <2>1, <3>1, <3>2 DEF Stored
  <2>2. QED
    BY <2>1 DEF XdpInv, AskerRemembered
<1>4. EchoRemembered'
  BY DEF XdpInv, EchoRemembered
<1>5. RedirectedRight'
  BY DEF XdpInv, RedirectedRight, Accepted
<1>6. QED
  BY <1>1, <1>2, <1>3, <1>4, <1>5 DEF XdpInv

\* What is sent on is right, when it goes to the server, or is an answer that goes to who asked.
LEMMA TransmitRight ==
  ASSUME XdpInv, NEW c \in Cpus, NEW to \in WideWords, Transmit(c, to),
         packet[c] \in Requests \cup Answers, to = ServerIp \/ packet[c] \in Answers,
         packet[c] \in Answers => (rivals[packet[c].client][packet[c].dest] = {} => to = packet[c].client)
  PROVE  RedirectedRight'
<1> DEFINE p == packet[c]
<1>1. p \in Packets /\ p.source # 0 /\ (p.kind = "answer" <=> p \in Answers)
  BY NumberFacts DEF Requests, Answers
<1>2. transmitted' = [in |-> p, out |-> Redirected(p, to), alone |-> p.kind = "answer" /\ rivals[p.client][p.dest] = {}]
      /\ protocol' = protocol
  BY DEF Transmit
<1> HIDE DEF p
<1>3. transmitted'.in = p /\ transmitted'.out = Redirected(p, to)
      /\ transmitted'.alone = (p.kind = "answer" /\ rivals[p.client][p.dest] = {})
  BY <1>2
<1>4. /\ Redirected(p, to).saddr = LocalIp /\ Redirected(p, to).daddr = to
      /\ Accepted(p) /\ ~ (protocol = "udp" /\ p.check = 0) => Accepted(Redirected(p, to))
  BY <1>1, RedirectedKeeps
<1>5. \A q : Accepted(q)' <=> Accepted(q)
  BY <1>2 DEF Accepted
<1>6. /\ Accepted(p) /\ ~ (protocol' = "udp" /\ p.check = 0) => Accepted(transmitted'.out)
      /\ transmitted'.out.saddr = LocalIp
      /\ (transmitted'.out.daddr = ServerIp \/ p.kind = "answer")
      /\ (transmitted'.alone => transmitted'.out.daddr = p.client)
  BY <1>1, <1>2, <1>3, <1>4 DEF p
<1>7. QED
  BY <1>2, <1>3, <1>5, <1>6 DEF RedirectedRight, Accepted

\* Receiving a packet: it is a request or the answer to one, and nothing is remembered or sent on yet.
LEMMA ReceiveKeeps == ASSUME XdpInv, NEW c \in Cpus, Receive(c) PROVE XdpInv'
<1> DEFINE Fit(p) == p \in Requests \/ p \in XdpAnswersOf(asked)
<1>1. XdpType /\ PacketsHandled
  BY DEF XdpInv
<1>2. \E p : packet' = [packet EXCEPT ![c] = p] /\ Fit(p)
  <2>1. CASE \E client \in ClientIps, port \in ClientPorts, room \in {0, 1} :
               LET p == Packet("request", client, client, port, ServicePort, room)
               IN \E check \in {p.check} \cup (IF protocol = "udp" THEN {0} ELSE {}) :
                    packet' = [packet EXCEPT ![c] = [p EXCEPT !.check = check]]
    <3>1. PICK client \in ClientIps, port \in ClientPorts, room \in {0, 1} :
            LET p == Packet("request", client, client, port, ServicePort, room)
            IN \E check \in {p.check} \cup (IF protocol = "udp" THEN {0} ELSE {}) :
                 packet' = [packet EXCEPT ![c] = [p EXCEPT !.check = check]]
      BY <2>1
    <3> DEFINE p == Packet("request", client, client, port, ServicePort, room)
    <3>2. PICK check \in {p.check} \cup (IF protocol = "udp" THEN {0} ELSE {}) :
            packet' = [packet EXCEPT ![c] = [p EXCEPT !.check = check]]
      BY <3>1
    <3>3. p \in Packets /\ p.kind = "request" /\ p.client = client /\ p.saddr = client /\ p.source = port /\ p.dest = ServicePort
      BY NumberFacts, PacketIs
    <3> HIDE DEF p
    <3>4. check \in ShortWords
      <4>1. p.check \in ShortWords
        BY <3>3 DEF Packets
      <4>2. QED
        BY <4>1, NumberFacts
    <3>5. [p EXCEPT !.check = check] \in Requests
      BY <3>3, <3>4, BareChecksum DEF Requests
    <3>6. QED
      BY <3>2, <3>5
  <2>2. CASE \E q \in asked : packet' = [packet EXCEPT ![c] = Packet("answer", q.client, ServerIp, ServicePort, q.port, 1)]
    <3>1. PICK q \in asked : packet' = [packet EXCEPT ![c] = Packet("answer", q.client, ServerIp, ServicePort, q.port, 1)]
      BY <2>2
    <3> DEFINE p == Packet("answer", q.client, ServerIp, ServicePort, q.port, 1)
    <3>2. q.client \in ClientIps /\ q.port \in ClientPorts /\ q = [client |-> q.client, port |-> q.port]
      BY <1>1 DEF XdpType, XdpAskers
    <3>3. p \in Packets /\ p.kind = "answer" /\ p.client = q.client /\ p.source = ServicePort /\ p.dest = q.port
      BY <3>2, NumberFacts, PacketIs
    <3> HIDE DEF p
    <3>4. p \in XdpAnswersOf(asked)
      BY <3>2, <3>3 DEF XdpAnswersOf, Answers
    <3>5. QED
      BY <3>1, <3>4 DEF p
  <2>3. QED
    BY <2>1, <2>2 DEF Receive
<1>3. PICK p : packet' = [packet EXCEPT ![c] = p] /\ Fit(p)
  BY <1>2
<1>4. p \in Packets
  BY <1>3 DEF Requests, XdpAnswersOf, Answers
<1> HIDE DEF Fit
<1>5. /\ handler[c] = "idle" /\ handler' = [handler EXCEPT ![c] = "parse"] /\ transmitted' = Nothing
      /\ UNCHANGED <<protocol, client_addr, client_port, xdp_client_map, asked, rivals, xdp_stats_map>>
  BY DEF Receive
<1>6. /\ handler'[c] = "parse" /\ packet'[c] = p
      /\ \A d \in Cpus \ {c} : handler'[d] = handler[d] /\ packet'[d] = packet[d]
  BY <1>1, <1>3, <1>5 DEF XdpType
<1>7. XdpType'
  BY <1>1, <1>3, <1>4, <1>5 DEF XdpType, XdpStages
<1>8. PacketsHandled'
  BY <1>1, <1>3, <1>5, <1>6 DEF PacketsHandled, Fit
<1>9. AskerRemembered'
  <2>1. \A a \in ClientIps, i \in ClientPorts : Stored(a, i)' => Stored(a, i)
    BY <1>5, <1>6 DEF Stored
  <2>2. QED
    BY <1>5, <2>1 DEF XdpInv, AskerRemembered
<1>10. EchoRemembered'
  BY <1>5 DEF XdpInv, EchoRemembered
<1>11. RedirectedRight'
  BY <1>5 DEF RedirectedRight, Nothing
<1>12. QED
  BY <1>7, <1>8, <1>9, <1>10, <1>11 DEF XdpInv

\* What the program does not handle is passed as it is.
LEMMA PassBareKeeps == ASSUME XdpInv, NEW c \in Cpus, PassBare(c) PROVE XdpInv'
  BY PassKeeps DEF PassBare

\* Whom a request takes the memory from.
LEMMA RivalsAre ==
  ASSUME XdpInv, NEW c \in Cpus, packet[c] \in Requests, handler[c] # "idle"
  PROVE  /\ Rivals(c) \in [ClientIps -> [ClientPorts -> SUBSET ClientIps]]
         /\ \A a \in ClientIps, i \in ClientPorts :
              /\ a = packet[c].client /\ i # packet[c].source => Rivals(c)[a][i] = rivals[a][i]
              /\ a # packet[c].client /\ (protocol # "icmp" \/ i = packet[c].source) =>
                   Rivals(c)[a][i] = rivals[a][i] \cup {packet[c].client}
              /\ a # packet[c].client /\ protocol = "icmp" /\ i # packet[c].source => Rivals(c)[a][i] = rivals[a][i]
<1> DEFINE asking == {packet[d].client : d \in {e \in Busy \ {c} : handler[e] = "port"}}
           Of(a, i) == IF a = packet[c].client THEN IF i = packet[c].source THEN asking \ {a} ELSE rivals[a][i]
                       ELSE IF protocol # "icmp" \/ i = packet[c].source THEN rivals[a][i] \cup {packet[c].client}
                       ELSE rivals[a][i]
<1>1. Rivals(c) = [a \in ClientIps |-> [i \in ClientPorts |-> Of(a, i)]]
  BY DEF Rivals
<1>2. asking \subseteq ClientIps
  BY DEF XdpInv, PacketsHandled, Busy, Requests, Packets
<1> HIDE DEF asking
<1>3. packet[c].client \in ClientIps /\ rivals \in [ClientIps -> [ClientPorts -> SUBSET ClientIps]]
  BY DEF XdpInv, XdpType, Requests, Packets
<1>4. \A a \in ClientIps, i \in ClientPorts : Of(a, i) \in SUBSET ClientIps
  BY <1>2, <1>3
<1>5. \A a \in ClientIps, i \in ClientPorts : Rivals(c)[a][i] = Of(a, i)
  <2> HIDE DEF Of
  <2>1. QED
    BY <1>1
<1>6. Rivals(c) \in [ClientIps -> [ClientPorts -> SUBSET ClientIps]]
  <2> HIDE DEF Of
  <2>1. QED
    BY <1>1, <1>4
<1>7. QED
  BY <1>5, <1>6

\* The address is stored: everyone else who has asked gets a rival.
LEMMA StoreAddrKeeps == ASSUME XdpInv, NEW c \in Cpus, StoreAddr(c) PROVE XdpInv'
<1> DEFINE p == packet[c]
<1>1. /\ handler[c] = "parse" /\ handler' = [handler EXCEPT ![c] = "port"] /\ protocol # "icmp" /\ p.dest = ServicePort
      /\ client_addr' = p.saddr /\ rivals' = Rivals(c)
      /\ UNCHANGED <<protocol, client_port, xdp_client_map, packet, asked, transmitted, xdp_stats_map>>
  BY DEF StoreAddr, MayParse
<1>2. XdpType /\ PacketsHandled /\ AskerRemembered
  BY DEF XdpInv
<1>3. p \in Requests /\ p.client \in ClientIps /\ p.saddr = p.client
  <2>1. p \in Requests \/ p \in Answers
    BY <1>1, <1>2 DEF PacketsHandled, XdpAnswersOf
  <2>2. QED
    BY <1>1, <2>1, NumberFacts DEF Requests, Answers, Packets
<1> HIDE DEF p
<1>4. /\ Rivals(c) \in [ClientIps -> [ClientPorts -> SUBSET ClientIps]]
      /\ \A a \in ClientIps, i \in ClientPorts : a # p.client => Rivals(c)[a][i] = rivals[a][i] \cup {p.client}
  BY <1>1, <1>3, RivalsAre DEF p
<1>5. handler'[c] = "port" /\ \A d \in Cpus \ {c} : handler'[d] = handler[d]
  BY <1>1, <1>2 DEF XdpType
<1>6. XdpType'
  BY <1>1, <1>2, <1>3, <1>4 DEF XdpType, XdpStages
<1>7. PacketsHandled'
  BY <1>1, <1>2, <1>3, <1>5 DEF PacketsHandled, p
<1>8. AskerRemembered'
  BY <1>1, <1>3, <1>4 DEF AskerRemembered
<1>9. EchoRemembered' /\ RedirectedRight'
  BY <1>1 DEF XdpInv, EchoRemembered, RedirectedRight, Accepted
<1>10. QED
  BY <1>6, <1>7, <1>8, <1>9 DEF XdpInv

\* The port is stored and the request sent on: it has been asked.
LEMMA StorePortKeeps == ASSUME XdpInv, NEW c \in Cpus, StorePort(c) PROVE XdpInv'
<1> DEFINE p == packet[c]
           q == [client |-> p.client, port |-> p.source]
<1>1. XdpType /\ PacketsHandled /\ AskerRemembered
  BY DEF XdpInv
<1>2. p \in Requests /\ protocol # "icmp"
  BY <1>1 DEF StorePort, PacketsHandled
<1>3. /\ handler[c] = "port" /\ handler' = [handler EXCEPT ![c] = "idle"] /\ packet' = [packet EXCEPT ![c] = NoPacket]
      /\ asked' = asked \cup {q} /\ Transmit(c, ServerIp)
      /\ UNCHANGED <<protocol, client_addr, xdp_client_map, rivals>>
  BY <1>2 DEF StorePort, Transmit, Requests
<1>4. q \in XdpAskers
  BY <1>2 DEF XdpAskers, Requests, Packets
<1>5. PacketsHandled' /\ handler' \in [Cpus -> XdpStages] /\ packet' \in [Cpus -> Packets \cup {NoPacket}]
  BY <1>3, IdleKeeps
<1>6. XdpType'
  BY <1>3, <1>1, <1>4, <1>5 DEF XdpType
<1>7. AskerRemembered'
  <2>1. ASSUME NEW a \in ClientIps, NEW i \in ClientPorts, Stored(a, i)' PROVE Stored(a, i)
    <3>1. CASE [client |-> a, port |-> i] \in asked'
      BY <1>3, <3>1 DEF Stored
    <3>2. CASE \E d \in Cpus : handler'[d] = "port" /\ packet'[d].client = a /\ packet'[d].source = i
      <4>1. PICK d \in Cpus : handler'[d] = "port" /\ packet'[d].client = a /\ packet'[d].source = i
        BY <3>2
      <4>2. handler[d] = "port" /\ packet[d].client = a /\ packet[d].source = i
        BY <1>3, <4>1 DEF XdpInv, XdpType
      <4>3. QED
        BY <4>2 DEF Stored
    <3>3. QED
      BY <2>1, <3>1, <3>2 DEF Stored
  <2>2. QED
    BY <1>3, <1>1, <2>1 DEF AskerRemembered
<1>8. EchoRemembered'
  BY <1>3, <1>2 DEF EchoRemembered
<1>9. RedirectedRight'
  <2>1. p \notin Answers
    BY <1>2 DEF Requests, Answers
  <2>2. ServerIp \in WideWords
    BY NumberFacts
  <2>3. QED
    BY <1>3, <1>2, <2>1, <2>2, TransmitRight
<1>10. QED
  BY <1>6, <1>5, <1>7, <1>8, <1>9 DEF XdpInv

\* An answer for the port that is stored goes on to the stage that reads the address.
LEMMA ComparePortKeeps == ASSUME XdpInv, NEW c \in Cpus, ComparePort(c) PROVE XdpInv'
<1>1. /\ handler[c] = "parse" /\ protocol # "icmp" /\ packet[c].dest # ServicePort
      /\ UNCHANGED <<client_addr, client_port, xdp_client_map, rivals>>
  BY DEF ComparePort, MayParse
<1>2. CASE handler' = [handler EXCEPT ![c] = "addr"] /\ UNCHANGED <<protocol, packet, asked, transmitted, xdp_stats_map>>
  <2>1. XdpType /\ PacketsHandled /\ AskerRemembered
    BY DEF XdpInv
  <2>2. packet[c] \in XdpAnswersOf(asked)
    BY <1>1, <2>1 DEF PacketsHandled, Requests
  <2>3. handler'[c] = "addr" /\ \A d \in Cpus \ {c} : handler'[d] = handler[d]
    BY <1>2, <2>1 DEF XdpType
  <2>4. XdpType'
    BY <1>1, <1>2, <2>1 DEF XdpType, XdpStages
  <2>5. PacketsHandled'
    BY <1>1, <1>2, <2>1, <2>2, <2>3 DEF PacketsHandled, XdpAnswersOf
  <2>6. AskerRemembered'
    <3>1. \A a \in ClientIps, i \in ClientPorts : Stored(a, i)' => Stored(a, i)
      BY <1>2, <2>3 DEF Stored
    <3>2. QED
      BY <1>1, <1>2, <2>1, <3>1 DEF AskerRemembered
  <2>7. EchoRemembered' /\ RedirectedRight'
    BY <1>1, <1>2 DEF XdpInv, EchoRemembered, RedirectedRight, Accepted
  <2>8. QED
    BY <2>4, <2>5, <2>6, <2>7 DEF XdpInv
<1>3. CASE Pass(c)
  BY <1>1, <1>3, PassKeeps
<1>4. QED
  BY <1>2, <1>3 DEF ComparePort

\* Sending an answer on: nobody asks by it, and all memory stays.
LEMMA AnswerKeeps ==
  ASSUME XdpInv, NEW c \in Cpus, NEW to \in ClientIps \cup {0}, Transmit(c, to), packet[c] \in XdpAnswersOf(asked),
         UNCHANGED <<client_addr, client_port, xdp_client_map, rivals>>,
         rivals[packet[c].client][packet[c].dest] = {} => to = packet[c].client
  PROVE  XdpInv'
<1> DEFINE p == packet[c]
<1>1. /\ handler' = [handler EXCEPT ![c] = "idle"] /\ packet' = [packet EXCEPT ![c] = NoPacket]
      /\ asked' = asked /\ UNCHANGED protocol
  <2>1. p.kind = "answer"
    BY DEF XdpAnswersOf, Answers
  <2>2. QED
    BY <2>1 DEF Transmit
<1>2. PacketsHandled' /\ handler' \in [Cpus -> XdpStages] /\ packet' \in [Cpus -> Packets \cup {NoPacket}]
  BY <1>1, IdleKeeps
<1>3. XdpType'
  BY <1>1, <1>2 DEF XdpInv, XdpType
<1>4. AskerRemembered'
  <2>1. ASSUME NEW a \in ClientIps, NEW i \in ClientPorts, Stored(a, i)' PROVE Stored(a, i)
    <3>1. CASE [client |-> a, port |-> i] \in asked'
      BY <1>1, <3>1 DEF Stored
    <3>2. CASE \E d \in Cpus : handler'[d] = "port" /\ packet'[d].client = a /\ packet'[d].source = i
      <4>1. PICK d \in Cpus : handler'[d] = "port" /\ packet'[d].client = a /\ packet'[d].source = i
        BY <3>2
      <4>2. handler[d] = "port" /\ packet[d].client = a /\ packet[d].source = i
        BY <1>1, <4>1 DEF XdpInv, XdpType
      <4>3. QED
        BY <4>2 DEF Stored
    <3>3. QED
      BY <2>1, <3>1, <3>2 DEF Stored
  <2>2. QED
    BY <1>1, <2>1 DEF XdpInv, AskerRemembered
<1>5. EchoRemembered'
  BY <1>1 DEF XdpInv, EchoRemembered
<1>6. RedirectedRight'
  <2>1. to \in WideWords /\ p \in Answers
    BY NumberFacts DEF XdpAnswersOf
  <2>2. QED
    BY <2>1, TransmitRight
<1>7. QED
  BY <1>2, <1>3, <1>4, <1>5, <1>6 DEF XdpInv

\* The program looks up where it has to send an answer.
LEMMA ReadAddrKeeps == ASSUME XdpInv, NEW c \in Cpus, ReadAddr(c) PROVE XdpInv'
<1> DEFINE p == packet[c]
<1>1. handler[c] = "addr" /\ Transmit(c, client_addr) /\ UNCHANGED <<client_addr, client_port, xdp_client_map, rivals>>
  BY DEF ReadAddr
<1>2. XdpType /\ PacketsHandled /\ AskerRemembered
  BY DEF XdpInv
<1>3. p \in XdpAnswersOf(asked) /\ protocol # "icmp" /\ client_addr \in ClientIps \cup {0}
  BY <1>1, <1>2 DEF PacketsHandled, XdpType
<1>4. p.client \in ClientIps /\ p.dest \in ClientPorts /\ Stored(p.client, p.dest)
  BY <1>3 DEF XdpAnswersOf, Answers, Packets, Stored
<1>5. rivals[p.client][p.dest] = {} => client_addr = p.client
  BY <1>2, <1>3, <1>4 DEF AskerRemembered
<1>6. QED
  BY <1>1, <1>3, <1>5, AnswerKeeps

\* A request of ICMP: its client is remembered under the identifier, and others with it get a rival.
LEMMA EchoKeeps == ASSUME XdpInv, NEW c \in Cpus, Echo(c) PROVE XdpInv'
<1> DEFINE p == packet[c]
           q == [client |-> p.client, port |-> p.source]
<1>1. /\ handler[c] = "parse" /\ protocol = "icmp" /\ p.kind = "request"
      /\ UNCHANGED <<client_addr, client_port>>
  BY DEF Echo, MayParse
<1>2. XdpType /\ PacketsHandled /\ EchoRemembered
  BY DEF XdpInv
<1>3. p \in Requests
  BY <1>1, <1>2 DEF PacketsHandled, XdpAnswersOf, Answers
<1>4. p.client \in ClientIps /\ p.source \in ClientPorts /\ p.saddr = p.client /\ q \in XdpAskers
  BY <1>3 DEF Requests, Packets, XdpAskers
<1>5. CASE Pass(c) /\ UNCHANGED <<xdp_client_map, rivals>>
  BY <1>1, <1>5, PassKeeps
<1>6. ASSUME NEW out, xdp_client_map' = [i \in ClientPorts |->
                        IF i = p.source THEN p.saddr ELSE IF i = out THEN 0 ELSE xdp_client_map[i]],
             rivals' = Rivals(c), Transmit(c, ServerIp)
      PROVE  XdpInv'
  <2>1. /\ handler' = [handler EXCEPT ![c] = "idle"] /\ packet' = [packet EXCEPT ![c] = NoPacket]
        /\ asked' = asked \cup {q} /\ UNCHANGED protocol
    BY <1>1, <1>6 DEF Transmit
  <2>2. PacketsHandled' /\ handler' \in [Cpus -> XdpStages] /\ packet' \in [Cpus -> Packets \cup {NoPacket}]
    BY <2>1, IdleKeeps
  <2>3. /\ Rivals(c) \in [ClientIps -> [ClientPorts -> SUBSET ClientIps]]
        /\ \A a \in ClientIps, i \in ClientPorts :
             /\ i # p.source => Rivals(c)[a][i] = rivals[a][i]
             /\ a # p.client /\ i = p.source => Rivals(c)[a][i] = rivals[a][i] \cup {p.client}
    BY <1>1, <1>3, RivalsAre
  <2> HIDE DEF p
  <2>4. /\ xdp_client_map' \in [ClientPorts -> ClientIps \cup {0}] /\ xdp_client_map'[p.source] = p.client
        /\ \A i \in ClientPorts \ {p.source} : xdp_client_map'[i] \in {xdp_client_map[i], 0}
    BY <1>2, <1>4, <1>6 DEF XdpType
  <2>5. XdpType'
    BY <1>1, <1>2, <1>4, <1>6, <2>1, <2>2, <2>3, <2>4 DEF XdpType
  <2>6. AskerRemembered'
    BY <1>1, <2>1 DEF AskerRemembered
  <2>7. EchoRemembered'
    <3>1. SUFFICES ASSUME NEW a \in ClientIps, NEW i \in ClientPorts,
                          [client |-> a, port |-> i] \in asked', rivals'[a][i] = {}
                   PROVE  xdp_client_map'[i] \in {a, 0}
      BY DEF EchoRemembered
    <3>2. CASE i = p.source
      <4>1. a = p.client
        BY <1>4, <1>6, <2>3, <3>1, <3>2
      <4>2. QED
        BY <2>4, <3>2, <4>1
    <3>3. CASE i # p.source
      <4>1. [client |-> a, port |-> i] \in asked /\ rivals[a][i] = {}
        BY <1>6, <2>1, <2>3, <3>1, <3>3
      <4>2. xdp_client_map[i] \in {a, 0}
        BY <1>1, <1>2, <4>1 DEF EchoRemembered
      <4>3. QED
        BY <2>4, <3>3, <4>2
    <3>4. QED
      BY <3>2, <3>3
  <2>8. RedirectedRight'
    <3>1. packet[c] \in Requests /\ packet[c] \notin Answers
      BY <1>3 DEF Requests, Answers, p
    <3>2. ServerIp \in WideWords
      BY NumberFacts
    <3>3. QED
      BY <1>6, <3>1, <3>2, TransmitRight
  <2>9. QED
    BY <2>2, <2>5, <2>6, <2>7, <2>8 DEF XdpInv
<1>7. QED
  BY <1>5, <1>6 DEF Echo

\* An echo is answered by what it asked of.
LEMMA EchoReplyKeeps == ASSUME XdpInv, NEW c \in Cpus, EchoReply(c) PROVE XdpInv'
<1> DEFINE p == packet[c]
           to == xdp_client_map[p.dest]
<1>1. /\ handler[c] = "parse" /\ protocol = "icmp" /\ p.kind = "answer"
      /\ UNCHANGED <<client_addr, client_port, xdp_client_map, rivals>>
      /\ IF to = 0 THEN Pass(c) ELSE Transmit(c, to)
  BY DEF EchoReply, MayParse
<1>2. XdpType /\ PacketsHandled /\ EchoRemembered
  BY DEF XdpInv
<1>3. p \in XdpAnswersOf(asked)
  BY <1>1, <1>2 DEF PacketsHandled, Requests
<1>4. p.client \in ClientIps /\ p.dest \in ClientPorts /\ [client |-> p.client, port |-> p.dest] \in asked
  BY <1>3 DEF XdpAnswersOf, Answers, Packets
<1>5. CASE to = 0
  BY <1>1, <1>5, PassKeeps
<1>6. CASE to # 0
  <2>1. to \in ClientIps \cup {0} /\ (rivals[p.client][p.dest] = {} => to = p.client)
    BY <1>1, <1>2, <1>4, <1>6 DEF XdpType, EchoRemembered
  <2>2. QED
    BY <1>1, <1>3, <1>6, <2>1, AnswerKeeps
<1>7. QED
  BY <1>5, <1>6

\* Every step of the program on some processor keeps the invariant.
LEMMA XdpStep == XdpInv /\ [XdpNext]_xdpVars => XdpInv'
<1> SUFFICES ASSUME XdpInv, [XdpNext]_xdpVars PROVE XdpInv'
  OBVIOUS
<1>1. CASE UNCHANGED xdpVars
  BY <1>1 DEF xdpVars, XdpInv, XdpType, PacketsHandled, AskerRemembered, Stored, EchoRemembered, RedirectedRight,
              Accepted, XdpAnswersOf
<1>2. ASSUME NEW c \in Cpus,
             Receive(c) \/ PassBare(c) \/ StoreAddr(c) \/ StorePort(c) \/ ComparePort(c) \/ ReadAddr(c)
               \/ Echo(c) \/ EchoReply(c)
      PROVE  XdpInv'
  BY <1>2, ReceiveKeeps, PassBareKeeps, StoreAddrKeeps, StorePortKeeps, ComparePortKeeps, ReadAddrKeeps, EchoKeeps,
     EchoReplyKeeps
<1>3. QED
  BY <1>1, <1>2 DEF XdpNext

\* The theorem of this section: what the program sends on has right checksums when what
\* came in has, comes from this host, and an answer reaches the client that asked when no
\* other has asked since (xdp_pass_func, make_checksum_from32), for every width of words.
THEOREM RedirectionsStayRight == XdpSpec => []RedirectedRight
<1>1. XdpInv => RedirectedRight
  BY DEF XdpInv
<1>2. QED
  BY XdpStarts, XdpStep, <1>1, PTL DEF XdpSpec

----------------------------------------------------------------------------
(* The Bloom filter, for any hash function. *)

\* Any inputs, and any steps of the program.
BloomSpec == BloomInit /\ [][BloomNext]_bloomVars

BloomPointers == {"null", "live", "freed"}
BloomStructs ==
  [filter : BloomPointers, hashPos : BloomPointers, init : {0, 1}, bits : SUBSET Int, count : Nat,
   seed : Nat, max : Nat, m : Nat, k : Nat]
BloomFiles ==
  [head : BOOLEAN, data : BOOLEAN, bits : SUBSET Int, seed : 0..(HashSpan - 1), count : Nat, max : Nat, m : Nat \ {0}, k : Nat,
   items : SUBSET BloomItems, calls : Nat, leftover : BOOLEAN]

BloomType ==
  /\ bloom \in BloomStructs /\ bloomFile \in BloomFiles \cup {Missing}
  /\ added \subseteq BloomItems /\ adds \in Nat
  /\ leftover \in BOOLEAN

\* The bits of a filter are those of the items that were added, and no others unless some were left.
HoldsItems(b, items, calls, rest) ==
  /\ b.seed \in 0..(HashSpan - 1) /\ b.m \in Nat \ {0} /\ b.count = calls
  /\ UNION {Positions(b, x) : x \in items} \subseteq b.bits
  /\ ~ rest => b.bits = UNION {Positions(b, x) : x \in items}

FilterHolds == usable => HoldsItems(bloom, added, adds, leftover) /\ (bloom.init = 1 \/ added = {})
FileHolds == bloomFile.data => bloomFile.head /\ HoldsItems(bloomFile, bloomFile.items, bloomFile.calls, bloomFile.leftover)

BloomInv == BloomType /\ FilterHolds /\ FileHolds /\ BloomFreedOnce

\* The positions of a key, of any structure with this seed and size.
LEMMA PositionsAre ==
  ASSUME NEW b, b.seed \in 0..(HashSpan - 1), b.m \in Nat \ {0}, b.k \in Nat, NEW x \in BloomItems
  PROVE  Positions(b, x) \subseteq Int /\ (b.k > 0 => Positions(b, x) # {})
<1> DEFINE hash1 == MurmurHash2_x64(x, b.seed)
           hash2 == MurmurHash2_x64(x, hash1)
           At(i) == ((hash1 + i * hash2) % HashSpan) % b.m
<1>1. hash1 \in 0..(HashSpan - 1)
  BY BloomAssumption
<1> HIDE DEF hash1
<1>2. hash2 \in 0..(HashSpan - 1)
  BY <1>1, BloomAssumption
<1> HIDE DEF hash2
<1>3. \A i \in 0..(b.k - 1) : At(i) \in Int
  <2>1. SUFFICES ASSUME NEW i \in 0..(b.k - 1) PROVE At(i) \in Int
    OBVIOUS
  <2>2. hash1 \in Int /\ i * hash2 \in Int /\ hash1 + i * hash2 \in Int
    BY <1>1, <1>2
  <2>3. HashSpan \in Nat \ {0}
    BY BloomAssumption
  <2> DEFINE n == hash1 + i * hash2
  <2>4. n \in Int
    BY <2>2
  <2> HIDE DEF n
  <2>5. n % HashSpan \in Int
    BY <2>3, <2>4
  <2>6. QED
    BY <2>5 DEF n
<1>4. Positions(b, x) = {At(i) : i \in 0..(b.k - 1)}
  BY DEF Positions, hash1, hash2
<1> HIDE DEF At
<1>5. b.k > 0 => 0 \in 0..(b.k - 1)
  OBVIOUS
<1>6. QED
  BY <1>3, <1>4, <1>5

\* Positions depend on three fields only.
LEMMA SamePositions ==
  ASSUME NEW b, NEW c, b.seed = c.seed, b.m = c.m, b.k = c.k, NEW x
  PROVE  Positions(b, x) = Positions(c, x)
  BY DEF Positions

\* What a filter holds depends on its seed, sizes, bits and count.
LEMMA SameHolds ==
  ASSUME NEW b, NEW c, b.seed = c.seed, b.m = c.m, b.k = c.k, b.bits = c.bits, b.count = c.count,
         NEW items, NEW calls, NEW rest, HoldsItems(b, items, calls, rest)
  PROVE  HoldsItems(c, items, calls, rest)
<1>1. \A x : Positions(b, x) = Positions(c, x)
  BY SamePositions
<1>2. {Positions(b, x) : x \in items} = {Positions(c, x) : x \in items}
  BY <1>1
<1>3. QED
  BY <1>2 DEF HoldsItems

\* Without items nothing is needed of the bits; and without any bits nothing is left.
LEMMA HoldsNothing ==
  ASSUME NEW b, b.seed \in 0..(HashSpan - 1), b.m \in Nat \ {0}, b.count = 0, NEW rest, ~ rest => b.bits = {}
  PROVE  HoldsItems(b, {}, 0, rest)
  BY DEF HoldsItems

\* The sizes that are computed are numbers, and there are bits.
LEMMA CalcNumbers ==
  ASSUME NEW n \in Nat \ {0}, NEW rate \in Nat
  PROVE  CalcBloomFilterParam(n, rate).m \in Nat \ {0} /\ CalcBloomFilterParam(n, rate).k \in Nat
<1> DEFINE m0 == (n * rate + 999) \div 1000
           m == m0 - (m0 % 64) + 64
           d == 200000 * n
           e == 2 * 69314 * m + 100000 * n
<1>1. n * rate \in Nat
  OBVIOUS
<1>2. m0 \in Nat
  BY <1>1
<1> HIDE DEF m0
<1>3. m0 % 64 \in 0..63
  BY <1>2
<1>4. m0 % 64 <= m0
  BY <1>2
<1>5. m \in Nat \ {0}
  BY <1>2, <1>3, <1>4
<1> HIDE DEF m
<1>6. d \in Nat \ {0} /\ e \in Nat
  BY <1>5
<1> HIDE DEF d, e
<1>7. e \div d \in Nat
  BY <1>6
<1>8. CalcBloomFilterParam(n, rate) = [m |-> m, k |-> e \div d]
  BY DEF CalcBloomFilterParam, m0, m, d, e
<1>9. QED
  BY <1>5, <1>7, <1>8

\* The structure is zeroed, and there is no file.
LEMMA BloomStarts == BloomInit => BloomInv
<1> SUFFICES ASSUME BloomInit PROVE BloomInv
  OBVIOUS
<1>1. BloomType /\ FilterHolds /\ FileHolds /\ BloomFreedOnce
  BY DEF BloomInit, BloomType, FilterHolds, FileHolds, BloomFreedOnce, FreeFault, Zeroed, Missing, BloomStructs, BloomPointers
<1>2. QED
  BY <1>1 DEF BloomInv

\* InitBloomFilter starts a filter anew.
LEMMA InitKeeps ==
  ASSUME BloomInv, NEW seed \in BloomSeeds, NEW n \in Nat \ {0}, NEW rate \in Nat, InitBloomFilter(seed, n, rate)
  PROVE  BloomInv'
<1> DEFINE param == CalcBloomFilterParam(n, rate)
           new == [Zeroed EXCEPT !.seed = seed, !.max = n, !.m = param.m, !.k = param.k]
<1>1. param.m \in Nat \ {0} /\ param.k \in Nat
  BY CalcNumbers
<1> HIDE DEF param
<1>2. seed \in 0..(HashSpan - 1) /\ seed \in Nat
  BY BloomAssumption
<1>3. /\ new \in BloomStructs /\ new.filter = "null" /\ new.hashPos = "null" /\ new.bits = {} /\ new.count = 0
      /\ new.seed = seed /\ new.m = param.m /\ new.k = param.k
  BY <1>1, <1>2 DEF Zeroed, BloomStructs, BloomPointers
<1> HIDE DEF new
<1>4. PICK failed \in {"none", "filter", "hashPos"} :
        /\ bloom' = CASE failed = "filter" -> new
                      [] failed = "hashPos" -> [new EXCEPT !.filter = "live"]
                      [] OTHER -> [new EXCEPT !.filter = "live", !.hashPos = "live", !.init = 1]
        /\ usable' = (failed = "none")
  BY DEF InitBloomFilter, new, param
<1>5. /\ bloomFault' = FreeFault /\ added' = {} /\ adds' = 0 /\ leftover' = FALSE
      /\ UNCHANGED <<bloomFile, loadFailed>>
  BY DEF InitBloomFilter
<1>6. /\ bloom' \in BloomStructs /\ bloom'.filter # "freed" /\ bloom'.hashPos # "freed" /\ bloom'.bits = {} /\ bloom'.count = 0
      /\ bloom'.seed = seed /\ bloom'.m = param.m
  <2>1. CASE failed = "filter"
    BY <1>3, <1>4, <2>1
  <2>2. CASE failed = "hashPos"
    BY <1>3, <1>4, <2>2 DEF BloomStructs, BloomPointers
  <2>3. CASE failed = "none"
    <3>1. bloom' = [new EXCEPT !.filter = "live", !.hashPos = "live", !.init = 1]
      BY <1>4, <2>3
    <3>2. QED
      BY <1>3, <3>1 DEF BloomStructs, BloomPointers
  <2>4. QED
    BY <2>1, <2>2, <2>3
<1>7. BloomType'
  BY <1>5, <1>6 DEF BloomInv, BloomType
<1>8. FilterHolds'
  <2>1. HoldsItems(bloom', {}, 0, FALSE)
    BY <1>1, <1>2, <1>6, HoldsNothing
  <2>2. QED
    BY <1>5, <2>1 DEF FilterHolds
<1>9. FileHolds'
  BY <1>5 DEF BloomInv, FileHolds
<1>10. BloomFreedOnce'
  BY <1>5, <1>6 DEF BloomInv, BloomFreedOnce, FreeFault
<1>11. QED
  BY <1>7, <1>8, <1>9, <1>10 DEF BloomInv

\* FreeBloomFilter leaves nothing to be used.
LEMMA FreeKeeps == ASSUME BloomInv, FreeBloomFilter PROVE BloomInv'
<1> USE DEF FreeBloomFilter
<1>1. /\ bloom' \in BloomStructs /\ bloom'.filter = "null" /\ bloom'.hashPos = "null"
  BY DEF BloomInv, BloomType, BloomStructs, BloomPointers
<1>2. BloomType'
  BY <1>1 DEF BloomInv, BloomType
<1>3. FilterHolds' /\ FileHolds'
  BY DEF BloomInv, FilterHolds, FileHolds
<1>4. BloomFreedOnce'
  BY <1>1 DEF BloomInv, BloomFreedOnce, FreeFault
<1>5. QED
  BY <1>2, <1>3, <1>4 DEF BloomInv

\* ResetBloomFilter clears the bits.
LEMMA ResetKeeps == ASSUME BloomInv, ResetBloomFilter PROVE BloomInv'
<1> USE DEF ResetBloomFilter
<1>1. /\ bloom' \in BloomStructs /\ bloom'.filter = bloom.filter /\ bloom'.hashPos = bloom.hashPos
      /\ bloom'.bits = bloom.bits /\ bloom'.seed = bloom.seed /\ bloom'.m = bloom.m /\ bloom'.count = 0
  BY DEF BloomInv, BloomType, BloomStructs, BloomPointers
<1>2. BloomType'
  BY <1>1 DEF BloomInv, BloomType
<1>3. FilterHolds'
  <2>1. bloom.seed \in 0..(HashSpan - 1) /\ bloom.m \in Nat \ {0}
    BY DEF BloomInv, FilterHolds, HoldsItems
  <2>2. ~ leftover' => bloom'.bits = {}
    BY <1>1
  <2>3. HoldsItems(bloom', {}, 0, leftover')
    BY <1>1, <2>1, <2>2, HoldsNothing
  <2>4. QED
    BY <2>3 DEF FilterHolds
<1>4. FileHolds'
  BY DEF BloomInv, FileHolds
<1>5. BloomFreedOnce'
  BY <1>1 DEF BloomInv, BloomFreedOnce, FreeFault
<1>6. QED
  BY <1>2, <1>3, <1>4, <1>5 DEF BloomInv

\* RealResetBloomFilter clears the bits at once.
LEMMA RealResetKeeps == ASSUME BloomInv, RealResetBloomFilter PROVE BloomInv'
<1> USE DEF RealResetBloomFilter
<1>1. /\ bloom' \in BloomStructs /\ bloom'.filter = bloom.filter /\ bloom'.hashPos = bloom.hashPos
      /\ bloom'.bits = {} /\ bloom'.seed = bloom.seed /\ bloom'.m = bloom.m /\ bloom'.count = 0
  BY DEF BloomInv, BloomType, BloomStructs, BloomPointers
<1>2. BloomType'
  BY <1>1 DEF BloomInv, BloomType
<1>3. FilterHolds'
  <2>1. bloom.seed \in 0..(HashSpan - 1) /\ bloom.m \in Nat \ {0}
    BY DEF BloomInv, FilterHolds, HoldsItems
  <2>2. HoldsItems(bloom', {}, 0, FALSE)
    BY <1>1, <2>1, HoldsNothing
  <2>3. QED
    BY <2>2 DEF FilterHolds
<1>4. FileHolds'
  BY DEF BloomInv, FileHolds
<1>5. BloomFreedOnce'
  BY <1>1 DEF BloomInv, BloomFreedOnce, FreeFault
<1>6. QED
  BY <1>2, <1>3, <1>4, <1>5 DEF BloomInv

\* A filter that is wiped first holds no items; one that is not holds those it held.
LEMMA AddKeeps == ASSUME BloomInv, NEW x \in BloomItems, BloomFilter_Add(x) PROVE BloomInv'
<1> DEFINE b == Wiped(bloom)
<1>1. /\ usable /\ bloom' = [b EXCEPT !.bits = @ \cup Positions(b, x), !.count = @ + 1]
      /\ leftover' = (leftover /\ bloom.init = 1) /\ added' = added \cup {x} /\ adds' = adds + 1
      /\ UNCHANGED <<bloomFile, usable, loadFailed, bloomFault>>
  BY DEF BloomFilter_Add
<1>2. bloom \in BloomStructs /\ HoldsItems(bloom, added, adds, leftover) /\ (bloom.init = 1 \/ added = {})
  BY <1>1 DEF BloomInv, BloomType, FilterHolds
<1>3. /\ b \in BloomStructs /\ b.filter = bloom.filter /\ b.hashPos = bloom.hashPos /\ b.seed = bloom.seed /\ b.m = bloom.m
      /\ b.k = bloom.k /\ b.count = bloom.count /\ b.init = 1
      /\ b.bits = IF bloom.init = 1 THEN bloom.bits ELSE {}
  BY <1>2 DEF Wiped, BloomStructs
<1> HIDE DEF b
<1>4. bloom.seed \in 0..(HashSpan - 1) /\ bloom.m \in Nat \ {0} /\ bloom.k \in Nat /\ bloom.count = adds /\ adds \in Nat
  BY <1>2 DEF HoldsItems, BloomStructs, BloomInv, BloomType
<1>5. \A y : Positions(b, y) = Positions(bloom, y)
  BY <1>3, SamePositions
<1>6. Positions(b, x) \subseteq Int
  BY <1>3, <1>4, PositionsAre
<1>7. /\ bloom' \in BloomStructs /\ bloom'.filter = bloom.filter /\ bloom'.hashPos = bloom.hashPos /\ bloom'.init = 1
      /\ bloom'.seed = bloom.seed /\ bloom'.m = bloom.m /\ bloom'.k = bloom.k /\ bloom'.count = adds + 1
      /\ bloom'.bits = b.bits \cup Positions(b, x)
  <2> DEFINE pos == Positions(b, x)
  <2>1. bloom' = [b EXCEPT !.bits = b.bits \cup pos, !.count = b.count + 1] /\ pos \subseteq Int
    BY <1>1, <1>6
  <2> HIDE DEF pos
  <2>2. b.bits \cup pos \in SUBSET Int /\ b.count + 1 \in Nat /\ b.count + 1 = adds + 1
    BY <1>3, <1>4, <2>1 DEF BloomStructs
  <2>3. /\ bloom' \in BloomStructs /\ bloom'.filter = b.filter /\ bloom'.hashPos = b.hashPos /\ bloom'.init = b.init
        /\ bloom'.seed = b.seed /\ bloom'.m = b.m /\ bloom'.k = b.k /\ bloom'.count = b.count + 1
        /\ bloom'.bits = b.bits \cup pos
    BY <1>3, <2>1, <2>2 DEF BloomStructs
  <2>4. QED
    BY <1>3, <2>2, <2>3 DEF pos
<1>8. BloomType'
  BY <1>1, <1>2, <1>4, <1>7 DEF BloomInv, BloomType
<1>9. HoldsItems(bloom', added', adds', leftover')
  <2>1. \A y : Positions(bloom', y) = Positions(bloom, y)
    <3> DEFINE c == bloom'
    <3>1. c.seed = bloom.seed /\ c.m = bloom.m /\ c.k = bloom.k
      BY <1>7
    <3> HIDE DEF c
    <3>2. \A y : Positions(c, y) = Positions(bloom, y)
      BY <3>1, SamePositions
    <3>3. QED
      BY <3>2 DEF c
  <2> DEFINE mine == Positions(bloom, x)
             all == UNION {Positions(bloom, y) : y \in added}
             allNow == UNION {Positions(bloom', y) : y \in added'}
  <2>2. allNow = all \cup mine
    <3>1. \A z : z \in allNow <=> \E y \in added' : z \in Positions(bloom, y)
      BY <2>1
    <3>2. \A z : z \in all <=> \E y \in added : z \in Positions(bloom, y)
      OBVIOUS
    <3> HIDE DEF all, allNow
    <3>3. \A z : z \in allNow <=> z \in all \/ z \in mine
      BY <1>1, <3>1, <3>2
    <3>4. QED
      BY <3>3
  <2>3. bloom'.bits = (IF bloom.init = 1 THEN bloom.bits ELSE {}) \cup mine
    BY <1>3, <1>5, <1>7
  <2>4. all \subseteq bloom.bits /\ (~ leftover => bloom.bits = all)
    BY <1>2 DEF HoldsItems
  <2>5. bloom.init # 1 => all = {}
    BY <1>2
  <2> HIDE DEF all, allNow, mine
  <2>6. allNow \subseteq bloom'.bits
    BY <2>2, <2>3, <2>4, <2>5
  <2>7. ~ leftover' => bloom'.bits = allNow
    BY <1>1, <2>2, <2>3, <2>4, <2>5
  <2>8. QED
    BY <1>1, <1>4, <1>7, <2>6, <2>7 DEF HoldsItems, allNow
<1>10. FilterHolds'
  BY <1>7, <1>9 DEF FilterHolds
<1>11. FileHolds'
  BY <1>1 DEF BloomInv, FileHolds
<1>12. BloomFreedOnce'
  BY <1>1, <1>7 DEF BloomInv, BloomFreedOnce, FreeFault
<1>13. QED
  BY <1>8, <1>10, <1>11, <1>12 DEF BloomInv

\* What is saved is what the filter holds.
LEMMA SaveKeeps == ASSUME BloomInv, SaveBloomFilterToFile PROVE BloomInv'
<1> DEFINE file(written) == [head |-> TRUE, data |-> written = "all", bits |-> bloom.bits,
                             seed |-> bloom.seed, count |-> bloom.count, max |-> bloom.max,
                             m |-> bloom.m, k |-> bloom.k, items |-> added, calls |-> adds, leftover |-> leftover]
<1>1. usable /\ UNCHANGED <<bloom, added, adds, leftover, usable, loadFailed, bloomFault>>
  BY DEF SaveBloomFilterToFile
<1>2. bloomFile' = bloomFile \/ bloomFile' = Missing \/ \E written \in {"head", "all"} : bloomFile' = file(written)
  <2>1. PICK written \in {"nothing", "empty", "head", "all"} :
          bloomFile' = CASE written = "nothing" -> bloomFile [] written = "empty" -> Missing [] OTHER -> file(written)
    BY DEF SaveBloomFilterToFile
  <2> HIDE DEF file
  <2>2. QED
    BY <2>1
<1>3. bloom \in BloomStructs /\ HoldsItems(bloom, added, adds, leftover)
  BY <1>1 DEF BloomInv, BloomType, FilterHolds
<1>4. ASSUME NEW written \in {"head", "all"}
      PROVE  file(written) \in BloomFiles /\ file(written).head /\ HoldsItems(file(written), added, adds, leftover)
             /\ file(written).items = added /\ file(written).calls = adds /\ file(written).leftover = leftover
  <2>1. bloom.seed \in 0..(HashSpan - 1) /\ bloom.m \in Nat \ {0}
    BY <1>3 DEF HoldsItems
  <2>2. (written = "all") \in BOOLEAN
    OBVIOUS
  <2> DEFINE all == written = "all"
  <2>3. file(written) = [head |-> TRUE, data |-> all, bits |-> bloom.bits,
                         seed |-> bloom.seed, count |-> bloom.count, max |-> bloom.max,
                         m |-> bloom.m, k |-> bloom.k, items |-> added, calls |-> adds, leftover |-> leftover]
    OBVIOUS
  <2> DEFINE f == file(written)
  <2> HIDE DEF all
  <2>4. all \in BOOLEAN
    BY <2>2 DEF all
  <2>5. f \in BloomFiles
    BY <1>3, <2>1, <2>3, <2>4 DEF BloomFiles, BloomStructs, BloomInv, BloomType
  <2>6. /\ f.head /\ f.items = added /\ f.calls = adds /\ f.leftover = leftover
        /\ f.seed = bloom.seed /\ f.m = bloom.m /\ f.k = bloom.k /\ f.bits = bloom.bits /\ f.count = bloom.count
    BY <2>3
  <2> HIDE DEF f, file
  <2>7. HoldsItems(f, added, adds, leftover)
    BY <1>3, <2>6, SameHolds
  <2>8. QED
    BY <2>5, <2>6, <2>7 DEF f
<1> HIDE DEF file
<1>5. BloomType'
  BY <1>1, <1>2, <1>4 DEF BloomInv, BloomType
<1>6. FilterHolds' /\ BloomFreedOnce'
  BY <1>1 DEF BloomInv, FilterHolds, BloomFreedOnce, FreeFault
<1>7. FileHolds'
  <2>1. CASE bloomFile' = bloomFile
    BY <2>1 DEF BloomInv, FileHolds
  <2>2. CASE bloomFile' = Missing
    BY <2>2 DEF FileHolds, Missing
  <2>3. CASE \E written \in {"head", "all"} : bloomFile' = file(written)
    BY <1>4, <2>3 DEF FileHolds
  <2>4. QED
    BY <1>2, <2>1, <2>2, <2>3
<1>8. QED
  BY <1>5, <1>6, <1>7 DEF BloomInv

\* A load: the filter is freed, and is usable when all of a file could be read.
LEMMA LoadKeeps == ASSUME BloomInv, LoadBloomFilterFromFile PROVE BloomInv'
<1> DEFINE freed == [bloom EXCEPT !.filter = IF @ = "null" THEN @ ELSE "freed",
                                  !.hashPos = IF @ = "null" THEN @ ELSE "freed"]
           loaded == HeadLoaded(freed, bloomFile)
           whole == [loaded EXCEPT !.filter = "live", !.hashPos = "live"]
           full == [whole EXCEPT !.bits = bloomFile.bits, !.init = 1]
<1>1. /\ bloomFault' = FreeFault /\ loadFailed' = (loadFailed \/ ~ usable') /\ UNCHANGED bloomFile
      /\ added' = IF usable' THEN bloomFile.items ELSE {}
      /\ adds' = IF usable' THEN bloomFile.calls ELSE 0
      /\ leftover' = (usable' /\ bloomFile.leftover)
      /\ \/ /\ bloom' = freed /\ usable' = FALSE
         \/ /\ bloomFile.head /\ usable' = FALSE
            /\ \/ bloom' = [loaded EXCEPT !.filter = "null"]
               \/ bloom' = [loaded EXCEPT !.filter = "live", !.hashPos = "null"]
               \/ ~ bloomFile.data /\ bloom' = whole
         \/ /\ bloomFile.data /\ usable' = TRUE /\ bloom' = full
  BY DEF LoadBloomFilterFromFile
<1>2. freed \in BloomStructs
  BY DEF BloomInv, BloomType, BloomStructs, BloomPointers
<1> HIDE DEF freed
<1>3. bloomFile.head \/ bloomFile.data => bloomFile \in BloomFiles
  BY DEF BloomInv, BloomType, Missing
<1>4. ASSUME bloomFile \in BloomFiles
      PROVE  loaded \in BloomStructs /\ loaded.seed = bloomFile.seed /\ loaded.m = bloomFile.m /\ loaded.k = bloomFile.k
             /\ loaded.count = bloomFile.count
  <2>1. bloomFile.seed \in Nat
    BY <1>4, BloomAssumption DEF BloomFiles
  <2>2. QED
    BY <1>2, <1>4, <2>1 DEF HeadLoaded, BloomStructs, BloomFiles
<1> HIDE DEF loaded
<1>5. CASE usable' = FALSE
  <2>1. bloom' \in BloomStructs
    <3>1. CASE bloom' = freed
      BY <1>2, <3>1
    <3>2. CASE bloomFile.head /\ bloom' = [loaded EXCEPT !.filter = "null"]
      BY <1>3, <1>4, <3>2 DEF BloomStructs, BloomPointers
    <3>3. CASE bloomFile.head /\ bloom' = [loaded EXCEPT !.filter = "live", !.hashPos = "null"]
      BY <1>3, <1>4, <3>3 DEF BloomStructs, BloomPointers
    <3>4. CASE bloomFile.head /\ bloom' = whole
      BY <1>3, <1>4, <3>4 DEF BloomStructs, BloomPointers
    <3>5. QED
      BY <1>1, <1>5, <3>1, <3>2, <3>3, <3>4
  <2>2. added' = {} /\ adds' = 0 /\ leftover' = FALSE /\ loadFailed'
    BY <1>1, <1>5
  <2>3. BloomType'
    BY <1>1, <2>1, <2>2 DEF BloomInv, BloomType
  <2>4. FilterHolds' /\ FileHolds' /\ BloomFreedOnce'
    BY <1>1, <1>5, <2>2 DEF BloomInv, FilterHolds, FileHolds, BloomFreedOnce
  <2>5. QED
    BY <2>3, <2>4 DEF BloomInv
<1>6. CASE usable' = TRUE /\ bloomFile.data /\ bloom' = full
  <2>1. bloomFile \in BloomFiles
    BY <1>3, <1>6
  <2>2. whole \in BloomStructs /\ whole.filter = "live" /\ whole.hashPos = "live" /\ whole.seed = loaded.seed
        /\ whole.m = loaded.m /\ whole.k = loaded.k /\ whole.count = loaded.count
    BY <1>4, <2>1 DEF BloomStructs, BloomPointers
  <2> HIDE DEF whole
  <2>3. /\ bloom' \in BloomStructs /\ bloom'.filter = "live" /\ bloom'.hashPos = "live" /\ bloom'.init = 1
        /\ bloom'.bits = bloomFile.bits /\ bloom'.seed = whole.seed /\ bloom'.m = whole.m /\ bloom'.k = whole.k
        /\ bloom'.count = whole.count
    BY <1>6, <2>1, <2>2 DEF BloomStructs, BloomFiles
  <2>4. added' = bloomFile.items /\ adds' = bloomFile.calls /\ leftover' = bloomFile.leftover
    <3>1. bloomFile.leftover \in BOOLEAN
      BY <2>1 DEF BloomFiles
    <3>2. QED
      BY <1>1, <1>6, <3>1
  <2>5. BloomType'
    BY <1>1, <2>1, <2>3, <2>4 DEF BloomInv, BloomType, BloomFiles
  <2>6. HoldsItems(bloom', added', adds', leftover')
    <3> DEFINE c == bloom'
    <3>1. /\ c.seed = bloomFile.seed /\ c.m = bloomFile.m /\ c.k = bloomFile.k /\ c.bits = bloomFile.bits
          /\ c.count = bloomFile.count
      BY <1>4, <2>1, <2>2, <2>3
    <3>2. HoldsItems(bloomFile, bloomFile.items, bloomFile.calls, bloomFile.leftover)
      BY <1>6 DEF BloomInv, FileHolds
    <3> HIDE DEF c
    <3>3. HoldsItems(c, bloomFile.items, bloomFile.calls, bloomFile.leftover)
      BY <3>1, <3>2, SameHolds
    <3>4. QED
      BY <2>4, <3>3 DEF c
  <2>7. FilterHolds'
    BY <2>3, <2>6 DEF FilterHolds
  <2>8. FileHolds'
    BY <1>1 DEF BloomInv, FileHolds
  <2>9. BloomFreedOnce'
    BY <1>1, <2>3 DEF BloomInv, BloomFreedOnce, FreeFault
  <2>10. QED
    BY <2>5, <2>7, <2>8, <2>9 DEF BloomInv
<1>7. QED
  BY <1>1, <1>5, <1>6

\* Every call keeps the invariant.
LEMMA BloomStep == BloomInv /\ [BloomNext]_bloomVars => BloomInv'
<1> SUFFICES ASSUME BloomInv, [BloomNext]_bloomVars PROVE BloomInv'
  OBVIOUS
<1>1. CASE UNCHANGED bloomVars
  BY <1>1 DEF bloomVars, BloomInv, BloomType, FilterHolds, FileHolds, BloomFreedOnce, FreeFault
<1>2. ASSUME NEW seed \in BloomSeeds, NEW size \in BloomSizes, InitBloomFilter(seed, size[1], size[2]) PROVE BloomInv'
  <2>1. size[1] \in Nat \ {0} /\ size[2] \in Nat
    BY BloomAssumption
  <2>2. QED
    BY <1>2, <2>1, InitKeeps
<1>3. QED
  BY <1>1, <1>2, AddKeeps, FreeKeeps, ResetKeeps, RealResetKeeps, SaveKeeps, LoadKeeps DEF BloomNext

\* The theorem of this section: what was added since the last reset is found, nothing else is
\* but by collision, and no memory is freed twice unless a load failed (BloomFilter_Check,
\* LoadBloomFilterFromFile), for every hash function and size.
THEOREM BloomStaysRight == BloomSpec => []BloomAnswers
<1>1. BloomInv => BloomAnswers
  <2> SUFFICES ASSUME BloomInv PROVE BloomAnswers
    OBVIOUS
  <2>1. AddedIsFound
    <3>1. SUFFICES ASSUME usable PROVE (\A x \in added : BloomFilter_Check(bloom, x)) /\ WithinCapacity(bloom) = (adds <= bloom.max)
      BY DEF AddedIsFound
    <3>2. bloom.count = adds /\ UNION {Positions(bloom, x) : x \in added} \subseteq bloom.bits
      BY <3>1 DEF BloomInv, FilterHolds, HoldsItems
    <3>3. QED
      BY <3>2 DEF BloomFilter_Check, WithinCapacity
  <2>2. OnlyAddedIsFound
    <3>1. SUFFICES ASSUME usable, ~ leftover
                   PROVE  /\ bloom.bits = UNION {Positions(bloom, x) : x \in added}
                          /\ (bloom.k > 0 /\ added = {}) => \A x \in BloomItems : ~ BloomFilter_Check(bloom, x)
      BY DEF OnlyAddedIsFound
    <3>2. bloom.bits = UNION {Positions(bloom, x) : x \in added} /\ bloom.seed \in 0..(HashSpan - 1) /\ bloom.m \in Nat \ {0}
      BY <3>1 DEF BloomInv, FilterHolds, HoldsItems
    <3>3. bloom.k \in Nat
      BY DEF BloomInv, BloomType, BloomStructs
    <3>4. \A x \in BloomItems : bloom.k > 0 => Positions(bloom, x) # {}
      BY <3>2, <3>3, PositionsAre
    <3>5. QED
      BY <3>2, <3>4 DEF BloomFilter_Check
  <2>3. QED
    BY <2>1, <2>2 DEF BloomInv, BloomAnswers
<1>2. QED
  BY BloomStarts, BloomStep, <1>1, PTL DEF BloomSpec

----------------------------------------------------------------------------
(* Exceptions for C: frames of Try, Catch and Finally on a stack. *)

\* Any inputs, and any steps of the program.
ExceptionSpec == ExceptionInit /\ [][ExceptionNext]_exceptionVars

Frames ==
  [flag : {"Entered", "Thrown", "Handled", "Finalized"}, exception : ExceptionKinds \cup {"none"}, prev : Nat,
   catches : SUBSET ExceptionKinds, finally : BOOLEAN, block : {"try", "catch", "finally"}]
ExceptionType == frames \in [ExceptionThreads -> Seq(Frames)] /\ top \in [ExceptionThreads -> Nat]

\* A frame whose Try block has ended is not open, and only the innermost chooses its next block.
BlocksOrdered(fs) ==
  \A i \in DOMAIN fs :
    /\ fs[i].flag = "Entered" => fs[i].block = "try"
    /\ fs[i].block = "try" => fs[i].flag = "Entered" \/ (i = Len(fs) /\ fs[i].flag = "Thrown")
WellLinked(fs, p) ==
  /\ OpenBelow(fs, p, Len(fs) + 1)
  /\ \A i \in Open(fs) : OpenBelow(fs, fs[i].prev, i)
  /\ BlocksOrdered(fs)

ExceptionInv ==
  /\ ExceptionType
  /\ deadJump => left # {}
  /\ \A t \in ExceptionThreads \ left : WellLinked(frames[t], top[t])

\* The first frames of a statement.
LEMMA CutIs ==
  ASSUME NEW fs \in Seq(Frames), NEW n \in 0..Len(fs)
  PROVE  /\ SubSeq(fs, 1, n) \in Seq(Frames) /\ Len(SubSeq(fs, 1, n)) = n
         /\ DOMAIN SubSeq(fs, 1, n) = 1..n /\ \A i \in 1..n : SubSeq(fs, 1, n)[i] = fs[i]
<1>1. Len(fs) \in Nat
  OBVIOUS
<1>2. QED
  BY <1>1

\* A new frame is the innermost open one.
LEMMA PushLinks ==
  ASSUME NEW fs \in Seq(Frames), NEW p \in Nat, WellLinked(fs, p), NEW catches \in SUBSET ExceptionKinds, NEW finally \in BOOLEAN,
         Len(fs) > 0 => ~ (fs[Len(fs)].flag = "Thrown" /\ fs[Len(fs)].block # "finally")
  PROVE  /\ Append(fs, Frame(p, catches, finally)) \in Seq(Frames)
         /\ WellLinked(Append(fs, Frame(p, catches, finally)), Len(fs) + 1)
<1> DEFINE f == Frame(p, catches, finally)
           gs == Append(fs, f)
           n == Len(fs)
<1>1. f \in Frames /\ f.flag = "Entered" /\ f.block = "try" /\ f.prev = p
  BY DEF Frame, Frames
<1> HIDE DEF f
<1>2. gs \in Seq(Frames) /\ Len(gs) = n + 1 /\ DOMAIN gs = 1..(n + 1) /\ gs[n + 1] = f /\ \A i \in 1..n : gs[i] = fs[i]
  BY <1>1
<1>3. n \in Nat /\ DOMAIN fs = 1..n
  OBVIOUS
<1> HIDE DEF gs
<1>4. Open(gs) = Open(fs) \cup {n + 1} /\ Open(fs) \subseteq 1..n
  BY <1>1, <1>2, <1>3 DEF Open
<1>5. OpenBelow(gs, n + 1, n + 2)
  BY <1>2, <1>3, <1>4 DEF OpenBelow
<1>6. OpenBelow(gs, p, n + 1)
  BY <1>3, <1>4 DEF WellLinked, OpenBelow
<1>7. \A i \in Open(gs) : OpenBelow(gs, gs[i].prev, i)
  <2>1. ASSUME NEW i \in Open(fs) PROVE OpenBelow(gs, gs[i].prev, i)
    <3>1. OpenBelow(fs, fs[i].prev, i) /\ i \in 1..n
      BY <1>4 DEF WellLinked
    <3>2. gs[i].prev = fs[i].prev
      BY <1>2, <3>1
    <3>3. QED
      BY <1>3, <1>4, <3>1, <3>2 DEF OpenBelow
  <2>2. QED
    BY <1>1, <1>2, <1>4, <1>6, <2>1
<1>8. BlocksOrdered(gs)
  <2>1. BlocksOrdered(fs)
    BY DEF WellLinked
  <2>2. ASSUME NEW i \in 1..n PROVE (gs[i].flag = "Entered" => gs[i].block = "try") /\ (gs[i].block = "try" => gs[i].flag = "Entered")
    BY <1>2, <1>3, <2>1 DEF BlocksOrdered
  <2>3. QED
    BY <1>1, <1>2, <1>3, <2>2 DEF BlocksOrdered
<1>9. WellLinked(gs, n + 1)
  <2>1. Len(gs) + 1 = n + 2
    BY <1>2, <1>3
  <2>2. QED
    BY <1>5, <1>7, <1>8, <2>1 DEF WellLinked
<1>10. QED
  BY <1>2, <1>9 DEF gs, f

\* The frames below some frame link as they did.
LEMMA CutLinks ==
  ASSUME NEW fs \in Seq(Frames), NEW p \in Nat, NEW q \in Nat, WellLinked(fs, q), NEW n \in Nat, n < Len(fs),
         OpenBelow(fs, p, n + 1)
  PROVE  WellLinked(SubSeq(fs, 1, n), p)
<1> DEFINE gs == SubSeq(fs, 1, n)
<1>1. gs \in Seq(Frames) /\ Len(gs) = n /\ DOMAIN gs = 1..n /\ \A i \in 1..n : gs[i] = fs[i]
  BY CutIs
<1>2. DOMAIN fs = 1..Len(fs) /\ Len(fs) \in Nat
  OBVIOUS
<1> HIDE DEF gs
<1>3. Open(gs) = {i \in Open(fs) : i <= n} /\ Open(fs) \subseteq 1..Len(fs)
  BY <1>1, <1>2 DEF Open
<1>4. OpenBelow(gs, p, n + 1)
  BY <1>2, <1>3 DEF OpenBelow
<1>5. \A i \in Open(gs) : OpenBelow(gs, gs[i].prev, i)
  <2>1. SUFFICES ASSUME NEW i \in Open(gs) PROVE OpenBelow(gs, gs[i].prev, i)
    OBVIOUS
  <2>2. i \in Open(fs) /\ i <= n /\ i \in 1..n /\ gs[i].prev = fs[i].prev /\ OpenBelow(fs, fs[i].prev, i)
    BY <1>1, <1>2, <1>3 DEF WellLinked
  <2>3. QED
    BY <1>2, <1>3, <2>2 DEF OpenBelow
<1>6. BlocksOrdered(gs)
  BY <1>1, <1>2 DEF WellLinked, BlocksOrdered
<1>7. QED
  BY <1>1, <1>4, <1>5, <1>6 DEF WellLinked, gs

\* The innermost frame is in another block, and not open any more.
LEMMA EnterLinks ==
  ASSUME NEW fs \in Seq(Frames), NEW gs \in Seq(Frames), NEW p \in Nat, NEW q \in Nat, WellLinked(fs, q),
         Len(gs) = Len(fs), Len(fs) > 0, \A i \in 1..(Len(fs) - 1) : gs[i] = fs[i],
         gs[Len(fs)].flag # "Entered", gs[Len(fs)].block = "try" => gs[Len(fs)].flag = "Thrown", OpenBelow(fs, p, Len(fs))
  PROVE  WellLinked(gs, p)
<1> DEFINE n == Len(fs)
<1>1. DOMAIN fs = 1..n /\ n \in Nat /\ n > 0 /\ DOMAIN gs = 1..n /\ Len(gs) = n
  OBVIOUS
<1>0. OpenBelow(fs, p, n)
  OBVIOUS
<1> HIDE DEF n
<1>2. \A i \in 1..n : i = n \/ i \in 1..(n - 1)
  BY <1>1
<1>3. Open(gs) = Open(fs) \ {n} /\ Open(fs) \subseteq 1..n
  BY <1>1, <1>2 DEF Open, n
<1>4. OpenBelow(gs, p, n + 1)
  BY <1>0, <1>1, <1>3 DEF OpenBelow
<1>5. \A i \in Open(gs) : OpenBelow(gs, gs[i].prev, i)
  <2>1. SUFFICES ASSUME NEW i \in Open(gs) PROVE OpenBelow(gs, gs[i].prev, i)
    OBVIOUS
  <2>2. i \in Open(fs) /\ i \in 1..(n - 1) /\ OpenBelow(fs, fs[i].prev, i)
    BY <1>1, <1>2, <1>3 DEF WellLinked
  <2>3. gs[i].prev = fs[i].prev
    BY <2>2 DEF n
  <2>4. QED
    BY <1>1, <1>3, <2>2, <2>3 DEF OpenBelow
<1>6. BlocksOrdered(gs)
  <2>1. BlocksOrdered(fs)
    BY DEF WellLinked
  <2>2. ASSUME NEW i \in 1..(n - 1) PROVE (gs[i].flag = "Entered" => gs[i].block = "try") /\ (gs[i].block = "try" => gs[i].flag = "Entered")
    BY <1>1, <2>1, <2>2 DEF BlocksOrdered, n
  <2>3. QED
    BY <1>1, <1>2, <2>2 DEF BlocksOrdered, n
<1>7. QED
  BY <1>1, <1>4, <1>5, <1>6 DEF WellLinked

\* A throw to an open frame leaves what is inside of it, and pops it.
LEMMA ThrownLinks ==
  ASSUME NEW fs \in Seq(Frames), NEW p \in 1..Len(fs), NEW e \in ExceptionKinds \cup {"none"}
  PROVE  /\ Thrown(fs, p, e).frames \in Seq(Frames) /\ Thrown(fs, p, e).top \in Nat /\ Len(Thrown(fs, p, e).frames) = p
         /\ \A q \in Nat : WellLinked(fs, q) /\ p \in Open(fs) => WellLinked(Thrown(fs, p, e).frames, Thrown(fs, p, e).top)
<1> DEFINE f == [fs[p] EXCEPT !.exception = e, !.flag = "Thrown"]
           hs == SubSeq(fs, 1, p - 1)
           cut == SubSeq(fs, 1, p)
           gs == Append(hs, f)
<1>1. fs[p] \in Frames /\ Len(fs) \in Nat /\ DOMAIN fs = 1..Len(fs)
  OBVIOUS
<1>2. f \in Frames /\ f.flag = "Thrown" /\ f.block = fs[p].block /\ fs[p].prev \in Nat
  BY <1>1 DEF Frames
<1> HIDE DEF f
<1>3. hs \in Seq(Frames) /\ Len(hs) = p - 1 /\ \A i \in 1..(p - 1) : hs[i] = fs[i]
  <2>1. p - 1 \in 0..Len(fs)
    BY <1>1
  <2>2. QED
    BY <2>1, CutIs
<1> HIDE DEF hs
<1>4. gs \in Seq(Frames) /\ Len(gs) = p /\ gs[p] = f /\ \A i \in 1..(p - 1) : gs[i] = fs[i]
  BY <1>2, <1>3
<1> HIDE DEF gs
<1>5. Thrown(fs, p, e) = [frames |-> gs, top |-> fs[p].prev]
  BY DEF Thrown, gs, hs, f
<1>6. ASSUME NEW q \in Nat, WellLinked(fs, q), p \in Open(fs) PROVE WellLinked(gs, fs[p].prev)
  <2>1. OpenBelow(fs, fs[p].prev, p)
    BY <1>6 DEF WellLinked
  <2>2. cut \in Seq(Frames) /\ Len(cut) = p /\ \A i \in 1..p : cut[i] = fs[i]
    BY <1>1, CutIs
  <2>3. WellLinked(cut, p)
    <3>0. p = Len(fs) \/ p < Len(fs)
      <4> DEFINE n == Len(fs)
      <4>1. n \in Nat /\ p \in 1..n
        BY <1>1
      <4> HIDE DEF n
      <4>2. p = n \/ p < n
        BY <4>1
      <4>3. QED
        BY <4>2 DEF n
    <3>1. CASE p = Len(fs)
      <4>1. cut = fs
        BY <3>1
      <4>2. q = p
        <5>1. q < p + 1 /\ (p < p + 1 => p <= q)
          BY <1>6, <3>1 DEF WellLinked, OpenBelow
        <5>2. QED
          BY <1>6, <5>1
      <4>3. QED
        BY <1>6, <4>1, <4>2
    <3>2. CASE p < Len(fs)
      <4>1. OpenBelow(fs, p, p + 1)
        BY <1>1, <1>6 DEF OpenBelow, Open
      <4>2. QED
        BY <1>6, <3>2, <4>1, CutLinks
    <3>3. QED
      BY <3>0, <3>1, <3>2
  <2> HIDE DEF cut
  <2>4. OpenBelow(cut, fs[p].prev, p)
    <3>1. p \in Open(cut) /\ cut[p].prev = fs[p].prev
      BY <1>6, <2>2 DEF Open
    <3>2. QED
      BY <2>3, <3>1 DEF WellLinked
  <2>5. f.block = "try" /\ p > 0
    BY <1>2, <1>6 DEF Open
  <2>6. \A i \in 1..(p - 1) : gs[i] = cut[i]
    BY <1>4, <2>2
  <2>7. QED
    BY <1>2, <1>4, <2>2, <2>3, <2>4, <2>5, <2>6, EnterLinks
<1>7. QED
  BY <1>2, <1>4, <1>5, <1>6

\* One thread has moved on.
LEMMA ThreadMoves ==
  ASSUME ExceptionInv, NEW t \in ExceptionThreads, NEW fs \in Seq(Frames), NEW p \in Nat,
         frames' = [frames EXCEPT ![t] = fs], top' = [top EXCEPT ![t] = p], left \subseteq left',
         deadJump' = deadJump, t \notin left' => WellLinked(fs, p)
  PROVE  ExceptionInv'
<1>1. ExceptionType /\ (deadJump => left # {}) /\ \A u \in ExceptionThreads \ left : WellLinked(frames[u], top[u])
  BY DEF ExceptionInv
<1>2. /\ frames'[t] = fs /\ top'[t] = p
      /\ \A u \in ExceptionThreads \ {t} : frames'[u] = frames[u] /\ top'[u] = top[u]
  BY <1>1 DEF ExceptionType
<1>3. ExceptionType'
  BY <1>1 DEF ExceptionType
<1>4. ASSUME NEW u \in ExceptionThreads \ left' PROVE WellLinked(frames'[u], top'[u])
  <2>1. CASE u = t
    BY <1>2, <2>1
  <2>2. CASE u # t
    <3>1. WellLinked(frames[u], top[u]) /\ frames'[u] = frames[u] /\ top'[u] = top[u]
      BY <1>1, <1>2, <2>2
    <3>2. QED
      BY <3>1
  <2>3. QED
    BY <2>1, <2>2
<1>5. QED
  BY <1>1, <1>3, <1>4 DEF ExceptionInv

\* The types of what one thread is in.
LEMMA ThreadTypes ==
  ASSUME ExceptionInv, NEW t \in ExceptionThreads
  PROVE  /\ frames[t] \in Seq(Frames) /\ top[t] \in Nat /\ Depth(t) = Len(frames[t]) /\ Depth(t) \in Nat
         /\ DOMAIN frames[t] = 1..Depth(t) /\ (Depth(t) > 0 => Inner(t) \in Frames /\ Inner(t) = frames[t][Depth(t)])
         /\ t \notin left => WellLinked(frames[t], top[t])
<1>1. frames[t] \in Seq(Frames) /\ top[t] \in Nat
  BY DEF ExceptionInv, ExceptionType
<1>2. Len(frames[t]) \in Nat /\ DOMAIN frames[t] = 1..Len(frames[t])
  BY <1>1
<1>3. Len(frames[t]) > 0 => frames[t][Len(frames[t])] \in Frames
  BY <1>1, <1>2
<1>4. QED
  BY <1>1, <1>2, <1>3 DEF ExceptionInv, Depth, Inner

\* A statement that nobody is out of has had its Finally.
LEMMA NoneLeft ==
  ASSUME \A t \in ExceptionThreads : Depth(t) \in Nat /\ (t \in left' \/ (Len(frames'[t]) \in Nat /\ Len(frames'[t]) >= Depth(t)))
  PROVE  FinallyRuns
  BY DEF FinallyRuns

\* Of the frames above q, those in a Try block would be open.
LEMMA AboveIsPast ==
  ASSUME NEW fs \in Seq(Frames), NEW q \in Nat, WellLinked(fs, q), NEW i \in DOMAIN fs, i > q,
         ~ (i = Len(fs) /\ fs[i].flag = "Thrown" /\ fs[i].block = "try")
  PROVE  fs[i].block # "try"
<1>1. SUFFICES ASSUME fs[i].block = "try" PROVE FALSE
  OBVIOUS
<1>2. fs[i].flag = "Entered"
  BY <1>1 DEF WellLinked, BlocksOrdered
<1>3. i \in Open(fs) /\ i \in Nat /\ i < Len(fs) + 1
  BY <1>1, <1>2 DEF Open
<1>4. i <= q
  BY <1>3 DEF WellLinked, OpenBelow
<1>5. QED
  BY <1>3, <1>4

\* Try enters a frame.
LEMMA TryKeeps ==
  ASSUME ExceptionInv, NEW t \in ExceptionThreads, NEW catches \in SUBSET ExceptionKinds, NEW finally \in BOOLEAN,
         Try(t, catches, finally)
  PROVE  ExceptionInv' /\ FinallyRuns
<1> DEFINE fs == frames[t]
           gs == Append(fs, Frame(top[t], catches, finally))
<1>1. /\ ~ Chooses(t) /\ t \notin left /\ frames' = [frames EXCEPT ![t] = gs] /\ top' = [top EXCEPT ![t] = Depth(t) + 1]
      /\ UNCHANGED <<swallowed, left, deadJump>>
  BY DEF Try
<1>2. /\ fs \in Seq(Frames) /\ top[t] \in Nat /\ WellLinked(fs, top[t]) /\ Depth(t) = Len(fs) /\ Depth(t) \in Nat
      /\ (Depth(t) > 0 => Inner(t) = fs[Depth(t)])
  BY <1>1, ThreadTypes
<1>3. Len(fs) > 0 => ~ (fs[Len(fs)].flag = "Thrown" /\ fs[Len(fs)].block # "finally")
  BY <1>1, <1>2 DEF Chooses
<1>4. gs \in Seq(Frames) /\ WellLinked(gs, Len(fs) + 1)
  BY <1>2, <1>3, PushLinks
<1>5. Len(gs) = Len(fs) + 1
  BY <1>2
<1> HIDE DEF gs, fs
<1>6. Depth(t) + 1 \in Nat /\ Depth(t) + 1 = Len(fs) + 1
  BY <1>2
<1>7. ExceptionInv'
  BY <1>1, <1>4, <1>6, ThreadMoves
<1>8. FinallyRuns
  <2>1. \A u \in ExceptionThreads : Depth(u) \in Nat /\ Depth(u) = Len(frames[u])
    BY ThreadTypes
  <2>2. \A u \in ExceptionThreads \ {t} : frames'[u] = frames[u]
    BY <1>1 DEF ExceptionInv, ExceptionType
  <2>3. frames'[t] = gs
    BY <1>1 DEF ExceptionInv, ExceptionType
  <2>4. \A u \in ExceptionThreads : Len(frames'[u]) \in Nat /\ Len(frames'[u]) >= Depth(u)
    BY <1>2, <1>5, <2>1, <2>2, <2>3 DEF fs
  <2>5. QED
    BY <2>1, <2>4, NoneLeft
<1>9. QED
  BY <1>7, <1>8

\* What a throw leaves: the frames above the one it goes to, without one in a Try block.
LEMMA ThrownKeeps ==
  ASSUME ExceptionInv, NEW t \in ExceptionThreads, NEW e \in ExceptionKinds \cup {"none"}, top[t] \in 1..Depth(t),
         frames' = [frames EXCEPT ![t] = Thrown(frames[t], top[t], e).frames],
         top' = [top EXCEPT ![t] = Thrown(frames[t], top[t], e).top], UNCHANGED <<left, deadJump>>,
         Chooses(t) => Passed(Inner(t))
  PROVE  ExceptionInv' /\ FinallyRuns
<1> DEFINE fs == frames[t]
           p == top[t]
           gs == Thrown(fs, p, e).frames
           q == Thrown(fs, p, e).top
<1>1. /\ fs \in Seq(Frames) /\ p \in Nat /\ Depth(t) = Len(fs) /\ Depth(t) \in Nat /\ DOMAIN fs = 1..Depth(t)
      /\ (Depth(t) > 0 => Inner(t) \in Frames /\ Inner(t) = fs[Depth(t)]) /\ (t \notin left => WellLinked(fs, p))
  BY ThreadTypes
<1>2. gs \in Seq(Frames) /\ q \in Nat /\ Len(gs) = p /\ (WellLinked(fs, p) /\ p \in Open(fs) => WellLinked(gs, q))
  BY <1>1, ThrownLinks
<1>3. frames' = [frames EXCEPT ![t] = gs] /\ top' = [top EXCEPT ![t] = q] /\ UNCHANGED <<left, deadJump>>
  OBVIOUS
<1> HIDE DEF gs, q, fs, p
<1>4. t \notin left => WellLinked(gs, q)
  <2>1. t \notin left => p \in Open(fs)
    BY <1>1 DEF WellLinked, OpenBelow, p
  <2>2. QED
    BY <1>1, <1>2, <2>1
<1>5. ExceptionInv'
  BY <1>2, <1>3, <1>4, ThreadMoves
<1>6. FinallyRuns
  <2>1. SUFFICES ASSUME NEW u \in ExceptionThreads, NEW i \in 1..Depth(u), Len(frames'[u]) < i, frames[u][i].finally,
                        frames[u][i].block # "finally", u \notin left'
                 PROVE  frames[u][i].block = "catch"
    BY DEF FinallyRuns
  <2>2. u = t
    <3>1. u # t => frames'[u] = frames[u]
      BY <1>3 DEF ExceptionInv, ExceptionType
    <3>2. Depth(u) = Len(frames[u]) /\ Depth(u) \in Nat
      BY ThreadTypes
    <3>3. QED
      BY <2>1, <3>1, <3>2
  <2>3. frames'[t] = gs
    BY <1>3 DEF ExceptionInv, ExceptionType
  <2>4. p < i /\ i \in DOMAIN fs /\ WellLinked(fs, p) /\ fs[i] \in Frames /\ fs[i].finally /\ fs[i].block # "finally"
    BY <1>1, <1>2, <1>3, <2>1, <2>2, <2>3 DEF fs
  <2>5. ~ (i = Len(fs) /\ fs[i].flag = "Thrown" /\ fs[i].block = "try")
    BY <1>1, <2>4 DEF Chooses, Passed
  <2>6. fs[i].block # "try"
    BY <1>1, <2>4, <2>5, AboveIsPast
  <2>7. fs[i].block = "catch"
    BY <2>4, <2>6 DEF Frames
  <2>8. QED
    BY <2>2, <2>7 DEF fs
<1>7. QED
  BY <1>5, <1>6

\* Nothing moves but what is recorded.
LEMMA StillKeeps ==
  ASSUME ExceptionInv, UNCHANGED <<frames, top, left>>, deadJump' => left # {}
  PROVE  ExceptionInv' /\ FinallyRuns
<1>1. ExceptionInv'
  BY DEF ExceptionInv, ExceptionType
<1>2. FinallyRuns
  <2>1. \A u \in ExceptionThreads : Depth(u) \in Nat /\ Depth(u) = Len(frames[u])
    BY ThreadTypes
  <2>2. QED
    BY <2>1, NoneLeft
<1>3. QED
  BY <1>1, <1>2

\* Who has not left a Try block early has a living frame on top.
LEMMA TopLives ==
  ASSUME ExceptionInv, NEW t \in ExceptionThreads, top[t] > Depth(t)
  PROVE  left # {}
<1>1. Depth(t) \in Nat /\ Depth(t) = Len(frames[t]) /\ top[t] \in Nat /\ (t \notin left => WellLinked(frames[t], top[t]))
  BY ThreadTypes
<1>2. t \notin left => top[t] < Depth(t) + 1
  BY <1>1 DEF WellLinked, OpenBelow
<1>3. QED
  BY <1>1, <1>2

\* A throw leaves the frames that cannot handle it, and enters one that can.
LEMMA ThrowKeeps ==
  ASSUME ExceptionInv, NEW t \in ExceptionThreads, NEW e \in ExceptionKinds, Throw(t, e)
  PROVE  ExceptionInv' /\ FinallyRuns
<1>1. ~ Chooses(t) /\ UNCHANGED left
  BY DEF Throw
<1>2. Depth(t) \in Nat /\ top[t] \in Nat
  BY ThreadTypes
<1>3. CASE top[t] = 0
  <2>1. UNCHANGED <<frames, top, deadJump>>
    BY <1>3 DEF Throw
  <2>2. deadJump' => left # {}
    BY <2>1 DEF ExceptionInv
  <2>3. QED
    BY <1>1, <2>1, <2>2, StillKeeps
<1>4. CASE top[t] # 0 /\ top[t] > Depth(t)
  BY <1>1, <1>4, StillKeeps, TopLives DEF Throw
<1>5. CASE top[t] # 0 /\ ~ (top[t] > Depth(t))
  <2>1. top[t] \in 1..Depth(t)
    BY <1>2, <1>5
  <2>2. /\ frames' = [frames EXCEPT ![t] = Thrown(frames[t], top[t], e).frames]
        /\ top' = [top EXCEPT ![t] = Thrown(frames[t], top[t], e).top] /\ UNCHANGED <<left, deadJump>>
    BY <1>1, <1>5 DEF Throw
  <2>3. QED
    BY <1>1, <2>1, <2>2, ThrownKeeps
<1>6. QED
  BY <1>3, <1>4, <1>5

\* The innermost frame goes into another block.
LEMMA EnterIs ==
  ASSUME ExceptionInv, NEW t \in ExceptionThreads, Depth(t) > 0,
         NEW block \in {"catch", "finally"}, NEW flag \in {"Thrown", "Handled", "Finalized"}, Enter(t, block, flag)
  PROVE  \E gs \in Seq(Frames) :
           /\ frames' = [frames EXCEPT ![t] = gs] /\ Len(gs) = Depth(t) /\ gs[Depth(t)].flag = flag /\ gs[Depth(t)].block = block
           /\ \A i \in 1..(Depth(t) - 1) : gs[i] = frames[t][i]
<1> DEFINE fs == frames[t]
           n == Depth(t)
           f == [fs[n] EXCEPT !.block = block, !.flag = flag]
           gs == [fs EXCEPT ![n] = f]
<1>1. frames' = [frames EXCEPT ![t] = gs]
  BY DEF Enter
<1>2. fs \in Seq(Frames) /\ n = Len(fs) /\ n \in Nat /\ n > 0 /\ n \in 1..Len(fs)
  BY ThreadTypes
<1>3. fs[n] \in Frames
  BY <1>2
<1>4. f \in Frames /\ f.flag = flag /\ f.block = block
  BY <1>3 DEF Frames
<1> HIDE DEF f, n, fs
<1>5. gs \in Seq(Frames) /\ Len(gs) = n /\ gs[n] = f /\ \A i \in 1..(n - 1) : gs[i] = fs[i]
  BY <1>2, <1>4
<1> HIDE DEF gs
<1>6. QED
  BY <1>1, <1>4, <1>5 DEF n, fs

\* The top is below the innermost frame when that is not open, and its prev when it is.
LEMMA BelowInnermost ==
  ASSUME NEW fs \in Seq(Frames), NEW p \in Nat, WellLinked(fs, p), Len(fs) > 0
  PROVE  /\ fs[Len(fs)].flag # "Entered" => OpenBelow(fs, p, Len(fs))
         /\ fs[Len(fs)].flag = "Entered" => OpenBelow(fs, fs[Len(fs)].prev, Len(fs))
<1> DEFINE n == Len(fs)
<1>1. n \in Nat /\ n > 0 /\ DOMAIN fs = 1..n /\ n \in DOMAIN fs
  OBVIOUS
<1>2. OpenBelow(fs, p, n + 1) /\ \A i \in Open(fs) : OpenBelow(fs, fs[i].prev, i)
  BY DEF WellLinked
<1>3. Open(fs) \subseteq 1..n
  BY <1>1 DEF Open
<1>4. fs[n].flag = "Entered" => n \in Open(fs)
  BY <1>1 DEF Open, WellLinked, BlocksOrdered
<1>5. fs[n].flag # "Entered" => n \notin Open(fs)
  BY DEF Open
<1> HIDE DEF n
<1>6. n \notin Open(fs) => OpenBelow(fs, p, n)
  BY <1>1, <1>2, <1>3 DEF OpenBelow
<1>7. QED
  BY <1>2, <1>4, <1>5, <1>6 DEF n

\* A block of the innermost frame is entered, and top is below it.
LEMMA EnteredKeeps ==
  ASSUME ExceptionInv, NEW t \in ExceptionThreads, Depth(t) > 0,
         NEW block \in {"catch", "finally"}, NEW flag \in {"Thrown", "Handled", "Finalized"}, Enter(t, block, flag),
         NEW p \in Nat, top' = [top EXCEPT ![t] = p], t \notin left => OpenBelow(frames[t], p, Depth(t))
  PROVE  ExceptionInv' /\ FinallyRuns
<1> DEFINE fs == frames[t]
           n == Depth(t)
<1>1. /\ fs \in Seq(Frames) /\ top[t] \in Nat /\ n = Len(fs) /\ n \in Nat /\ (t \notin left => WellLinked(fs, top[t]))
  BY ThreadTypes
<1>2. PICK gs \in Seq(Frames) :
        /\ frames' = [frames EXCEPT ![t] = gs] /\ Len(gs) = n /\ gs[n].flag = flag /\ gs[n].block = block
        /\ \A i \in 1..(n - 1) : gs[i] = fs[i]
  BY EnterIs
<1>3. UNCHANGED <<left, deadJump>>
  BY DEF Enter
<1>4. t \notin left => WellLinked(gs, p)
  <2>1. SUFFICES ASSUME t \notin left PROVE WellLinked(gs, p)
    OBVIOUS
  <2> DEFINE q == top[t]
  <2>2. q \in Nat /\ WellLinked(fs, q) /\ OpenBelow(fs, p, n)
    BY <1>1, <2>1
  <2> HIDE DEF q, fs, n
  <2>3. n > 0 /\ gs[n].flag # "Entered" /\ gs[n].block # "try"
    BY <1>2 DEF n
  <2>4. QED
    BY <1>1, <1>2, <2>2, <2>3, EnterLinks
<1>5. ExceptionInv'
  BY <1>2, <1>3, <1>4, ThreadMoves
<1>6. FinallyRuns
  <2>1. \A u \in ExceptionThreads : Depth(u) \in Nat /\ Depth(u) = Len(frames[u])
    BY ThreadTypes
  <2>2. frames'[t] = gs /\ \A u \in ExceptionThreads \ {t} : frames'[u] = frames[u]
    BY <1>2 DEF ExceptionInv, ExceptionType
  <2>3. \A u \in ExceptionThreads : Len(frames'[u]) \in Nat /\ Len(frames'[u]) >= Depth(u)
    BY <1>1, <1>2, <2>1, <2>2
  <2>4. QED
    BY <2>1, <2>3, NoneLeft
<1>7. QED
  BY <1>5, <1>6

\* Catch handles what was thrown.
LEMMA CatchKeeps == ASSUME ExceptionInv, NEW t \in ExceptionThreads, Catch(t) PROVE ExceptionInv' /\ FinallyRuns
<1>1. Depth(t) > 0 /\ Inner(t).flag = "Thrown" /\ Enter(t, "catch", "Handled") /\ top' = top
  BY DEF Catch, Chooses
<1>2. /\ frames[t] \in Seq(Frames) /\ top[t] \in Nat /\ Depth(t) = Len(frames[t]) /\ Inner(t) = frames[t][Depth(t)]
      /\ (t \notin left => WellLinked(frames[t], top[t]))
  BY <1>1, ThreadTypes
<1>3. t \notin left => OpenBelow(frames[t], top[t], Depth(t))
  BY <1>1, <1>2, BelowInnermost
<1>4. top' = [top EXCEPT ![t] = top[t]]
  BY <1>1 DEF ExceptionInv, ExceptionType
<1>5. QED
  BY <1>1, <1>2, <1>3, <1>4, EnteredKeeps

\* Finally enters the last block of the frame.
LEMMA FinallyKeeps == ASSUME ExceptionInv, NEW t \in ExceptionThreads, Finally(t) PROVE ExceptionInv' /\ FinallyRuns
<1> DEFINE flag == IF Inner(t).flag = "Entered" THEN "Finalized" ELSE Inner(t).flag
           p == IF Inner(t).flag = "Entered" THEN Inner(t).prev ELSE top[t]
<1>1. Depth(t) > 0 /\ Enter(t, "finally", flag)
      /\ top' = IF Inner(t).flag = "Entered" THEN [top EXCEPT ![t] = Inner(t).prev] ELSE top
  BY DEF Finally
<1>2. /\ frames[t] \in Seq(Frames) /\ top[t] \in Nat /\ Depth(t) = Len(frames[t]) /\ Inner(t) = frames[t][Depth(t)]
      /\ Inner(t) \in Frames /\ (t \notin left => WellLinked(frames[t], top[t]))
  BY <1>1, ThreadTypes
<1>3. flag \in {"Thrown", "Handled", "Finalized"} /\ p \in Nat
  BY <1>2 DEF Frames
<1>4. t \notin left => OpenBelow(frames[t], p, Depth(t))
  BY <1>1, <1>2, BelowInnermost
<1>5. top' = [top EXCEPT ![t] = p]
  BY <1>1 DEF ExceptionInv, ExceptionType
<1> HIDE DEF flag, p
<1>6. QED
  BY <1>1, <1>3, <1>4, <1>5, EnteredKeeps

\* The innermost frame is left, with its Finally behind it, or early.
LEMMA PopKeeps ==
  ASSUME ExceptionInv, NEW t \in ExceptionThreads, Depth(t) > 0, NEW p \in Nat,
         frames' = [frames EXCEPT ![t] = SubSeq(@, 1, Depth(t) - 1)], top' = [top EXCEPT ![t] = p],
         left \subseteq left', UNCHANGED deadJump, t \notin left' => OpenBelow(frames[t], p, Depth(t)),
         t \notin left' => Passed(Inner(t)) \/ Inner(t).block = "catch"
  PROVE  ExceptionInv' /\ FinallyRuns
<1> DEFINE fs == frames[t]
           n == Depth(t)
           gs == SubSeq(fs, 1, n - 1)
<1>1. /\ fs \in Seq(Frames) /\ top[t] \in Nat /\ n = Len(fs) /\ n \in Nat /\ (t \notin left => WellLinked(fs, top[t]))
      /\ Inner(t) = fs[n]
  BY ThreadTypes
<1>2. frames' = [frames EXCEPT ![t] = gs]
  BY DEF ExceptionInv, ExceptionType
<1> HIDE DEF n, fs
<1>3. gs \in Seq(Frames) /\ Len(gs) = n - 1 /\ n > 0
  <2>1. n > 0
    BY DEF n
  <2>2. n - 1 \in 0..Len(fs)
    BY <1>1, <2>1
  <2>3. QED
    BY <1>1, <2>1, <2>2, CutIs
<1>4. t \notin left' => WellLinked(gs, p)
  <2>1. SUFFICES ASSUME t \notin left' PROVE WellLinked(gs, p)
    OBVIOUS
  <2> DEFINE q == top[t]
             m == n - 1
  <2>2. q \in Nat /\ WellLinked(fs, q) /\ OpenBelow(fs, p, n)
    BY <1>1, <2>1 DEF n, fs
  <2>3. m \in Nat /\ m < Len(fs) /\ m + 1 = n
    BY <1>1, <1>3
  <2> HIDE DEF q, m
  <2>4. WellLinked(SubSeq(fs, 1, m), p)
    BY <1>1, <2>2, <2>3, CutLinks
  <2>5. QED
    BY <2>4 DEF m
<1> HIDE DEF gs
<1>5. ExceptionInv'
  BY <1>2, <1>3, <1>4, ThreadMoves
<1>6. FinallyRuns
  <2>1. SUFFICES ASSUME NEW u \in ExceptionThreads, NEW i \in 1..Depth(u), Len(frames'[u]) < i, frames[u][i].finally,
                        frames[u][i].block # "finally", u \notin left'
                 PROVE  frames[u][i].block = "catch"
    BY DEF FinallyRuns
  <2>2. u = t
    <3>1. u # t => frames'[u] = frames[u]
      BY <1>2 DEF ExceptionInv, ExceptionType
    <3>2. Depth(u) = Len(frames[u]) /\ Depth(u) \in Nat
      BY ThreadTypes
    <3>3. QED
      BY <2>1, <3>1, <3>2
  <2>3. frames'[t] = gs
    BY <1>2 DEF ExceptionInv, ExceptionType
  <2>4. i = n
    BY <1>1, <1>3, <2>1, <2>2, <2>3 DEF n
  <2>5. Inner(t).finally /\ Inner(t).block # "finally" /\ t \notin left' /\ Inner(t) = frames[u][i]
    BY <1>1, <2>1, <2>2, <2>4 DEF fs
  <2>6. QED
    BY <2>5 DEF Passed
<1>7. QED
  BY <1>5, <1>6

\* EndTry leaves the frame, or throws again from it.
LEMMA EndTryKeeps == ASSUME ExceptionInv, NEW t \in ExceptionThreads, EndTry(t) PROVE ExceptionInv' /\ FinallyRuns
<1> DEFINE f == Inner(t)
           rest == SubSeq(frames[t], 1, Depth(t) - 1)
           prev == IF f.flag = "Entered" THEN f.prev ELSE top[t]
<1>1. /\ Depth(t) > 0 /\ Passed(f) /\ UNCHANGED left
      /\ IF f.flag # "Thrown"
         THEN /\ frames' = [frames EXCEPT ![t] = rest] /\ top' = [top EXCEPT ![t] = prev]
              /\ UNCHANGED <<swallowed, deadJump>>
         ELSE IF prev = 0
         THEN /\ frames' = [frames EXCEPT ![t] = rest] /\ swallowed' = swallowed \cup {t}
              /\ UNCHANGED <<top, deadJump>>
         ELSE IF prev > Depth(t)
         THEN deadJump' = TRUE /\ UNCHANGED <<frames, top, swallowed>>
         ELSE LET to == Thrown(frames[t], prev, f.exception)
              IN /\ frames' = [frames EXCEPT ![t] = to.frames] /\ top' = [top EXCEPT ![t] = to.top]
                 /\ UNCHANGED <<swallowed, deadJump>>
  BY DEF EndTry
<1>2. /\ frames[t] \in Seq(Frames) /\ top[t] \in Nat /\ Depth(t) = Len(frames[t]) /\ Depth(t) \in Nat
      /\ f = frames[t][Depth(t)] /\ f \in Frames /\ (t \notin left => WellLinked(frames[t], top[t]))
  BY <1>1, ThreadTypes
<1>3. prev \in Nat /\ f.exception \in ExceptionKinds \cup {"none"}
  BY <1>2 DEF Frames
<1>4. t \notin left => OpenBelow(frames[t], prev, Depth(t))
  BY <1>1, <1>2, BelowInnermost
<1>5. ASSUME frames' = [frames EXCEPT ![t] = rest], top' = [top EXCEPT ![t] = prev], UNCHANGED deadJump
      PROVE  ExceptionInv' /\ FinallyRuns
  <2>1. frames' = [frames EXCEPT ![t] = SubSeq(@, 1, Depth(t) - 1)]
    BY <1>5 DEF ExceptionInv, ExceptionType
  <2> HIDE DEF prev, rest
  <2>2. QED
    BY <1>1, <1>3, <1>4, <1>5, <2>1, PopKeeps
<1>6. CASE f.flag # "Thrown"
  BY <1>1, <1>5, <1>6
<1>7. CASE f.flag = "Thrown" /\ prev = 0
  <2>1. top' = [top EXCEPT ![t] = prev]
    BY <1>1, <1>7 DEF ExceptionInv, ExceptionType
  <2>2. QED
    BY <1>1, <1>5, <1>7, <2>1
<1>8. CASE f.flag = "Thrown" /\ prev # 0 /\ prev > Depth(t)
  <2>1. top[t] > Depth(t) /\ UNCHANGED <<frames, top, left>>
    BY <1>1, <1>8
  <2>2. QED
    BY <2>1, StillKeeps, TopLives
<1>9. CASE f.flag = "Thrown" /\ prev # 0 /\ ~ (prev > Depth(t))
  <2>1. prev = top[t]
    BY <1>9
  <2>2. top[t] \in 1..Depth(t)
    BY <1>2, <1>9, <2>1
  <2> DEFINE e == f.exception
  <2>3. /\ frames' = [frames EXCEPT ![t] = Thrown(frames[t], top[t], e).frames]
        /\ top' = [top EXCEPT ![t] = Thrown(frames[t], top[t], e).top] /\ UNCHANGED <<left, deadJump>>
    BY <1>1, <1>9, <2>1
  <2>4. e \in ExceptionKinds \cup {"none"}
    BY <1>3
  <2> HIDE DEF e
  <2>5. QED
    BY <1>1, <2>2, <2>3, <2>4, ThrownKeeps
<1>10. QED
  BY <1>6, <1>7, <1>8, <1>9

\* A block is left for the next one.
LEMMA LeaveKeeps == ASSUME ExceptionInv, NEW t \in ExceptionThreads, Leave(t) PROVE ExceptionInv' /\ FinallyRuns
<1>1. /\ Depth(t) > 0 /\ ~ Chooses(t) /\ frames' = [frames EXCEPT ![t] = SubSeq(@, 1, Depth(t) - 1)]
      /\ left' = (IF Inner(t).block = "try" THEN left \cup {t} ELSE left) /\ UNCHANGED <<top, deadJump>>
  BY DEF Leave
<1>2. /\ frames[t] \in Seq(Frames) /\ top[t] \in Nat /\ Depth(t) = Len(frames[t]) /\ Depth(t) \in Nat
      /\ Inner(t) = frames[t][Depth(t)] /\ Inner(t) \in Frames /\ (t \notin left => WellLinked(frames[t], top[t]))
      /\ DOMAIN frames[t] = 1..Depth(t)
  BY <1>1, ThreadTypes
<1>3. t \notin left' => t \notin left /\ Inner(t).block \in {"catch", "finally"}
  BY <1>1, <1>2 DEF Frames
<1>4. t \notin left' => Inner(t).flag # "Entered"
  <2>1. Depth(t) \in DOMAIN frames[t]
    BY <1>1, <1>2
  <2>2. QED
    BY <1>2, <1>3, <2>1 DEF WellLinked, BlocksOrdered
<1>5. t \notin left' => OpenBelow(frames[t], top[t], Depth(t))
  BY <1>1, <1>2, <1>3, <1>4, BelowInnermost
<1>6. top' = [top EXCEPT ![t] = top[t]] /\ left \subseteq left' /\ UNCHANGED deadJump
  BY <1>1 DEF ExceptionInv, ExceptionType
<1>7. t \notin left' => Passed(Inner(t)) \/ Inner(t).block = "catch"
  BY <1>3 DEF Passed
<1>8. QED
  BY <1>1, <1>2, <1>5, <1>6, <1>7, PopKeeps

\* No thread is in a Try block.
LEMMA ExceptionStarts == ExceptionInit => ExceptionInv
<1> SUFFICES ASSUME ExceptionInit PROVE ExceptionInv
  OBVIOUS
<1>1. ExceptionType /\ (deadJump => left # {})
  BY DEF ExceptionInit, ExceptionType
<1>2. ASSUME NEW t \in ExceptionThreads PROVE WellLinked(frames[t], top[t])
  <2>1. frames[t] = <<>> /\ top[t] = 0
    BY DEF ExceptionInit
  <2>2. QED
    BY <2>1 DEF WellLinked, OpenBelow, Open, BlocksOrdered
<1>3. QED
  BY <1>1, <1>2 DEF ExceptionInv

\* Every step of a thread keeps the invariant, and runs the Finally that is due.
LEMMA ExceptionStep == ExceptionInv /\ ExceptionNext => ExceptionInv' /\ FinallyRuns
<1> SUFFICES ASSUME ExceptionInv, ExceptionNext PROVE ExceptionInv' /\ FinallyRuns
  OBVIOUS
<1>1. PICK t \in ExceptionThreads :
        \/ \E catches \in SUBSET ExceptionKinds, finally \in BOOLEAN : Try(t, catches, finally)
        \/ \E e \in ExceptionKinds : Throw(t, e)
        \/ Catch(t) \/ Finally(t) \/ EndTry(t) \/ Leave(t)
  BY DEF ExceptionNext
<1>2. QED
  BY <1>1, TryKeeps, ThrowKeeps, CatchKeeps, FinallyKeeps, EndTryKeeps, LeaveKeeps

\* So does every other step.
LEMMA ExceptionStays == ExceptionInv /\ UNCHANGED exceptionVars => ExceptionInv'
  BY DEF exceptionVars, ExceptionInv, ExceptionType

\* The frames of a thread are its Try blocks, innermost first.
LEMMA LinkedFrames == ExceptionInv => FramesAreTryBlocks
<1> SUFFICES ASSUME ExceptionInv PROVE FramesAreTryBlocks
  OBVIOUS
<1>1. \A t \in ExceptionThreads : Depth(t) = Len(frames[t])
  BY ThreadTypes
<1>2. QED
  BY <1>1 DEF ExceptionInv, FramesAreTryBlocks, WellLinked

\* The theorem of this section: a throw reaches the Try blocks its thread is in, innermost first,
\* and a statement with a Finally is not over before its Finally has been entered, with the
\* exceptions the property names (ntyExceptionThrow, EndTry), for any threads and nesting.
THEOREM BlocksAlwaysRun == ExceptionSpec => BlocksRun
<1>1. ExceptionInv /\ [ExceptionNext]_exceptionVars => ExceptionInv'
  BY ExceptionStep, ExceptionStays
<1>2. ExceptionInv' => FramesAreTryBlocks'
  BY LinkedFrames, PTL
<1>3. ExceptionInv /\ [ExceptionNext]_exceptionVars => [FramesAreTryBlocks' /\ FinallyRuns]_exceptionVars
  BY <1>2, ExceptionStep
<1>4. QED
  BY ExceptionStarts, <1>1, <1>3, PTL DEF ExceptionSpec, BlocksRun

----------------------------------------------------------------------------
(* The memory pool: blocks, large allocations and cleanups. *)

\* Any inputs, and any steps of the program.
PoolSpec == PoolInit /\ [][PoolNext]_poolVars

PoolBlocks == [last : Nat, failed : Nat]
PoolCleanups == [fd : Fds, handler : BOOLEAN]
PoolStructs ==
  [blocks : Seq(PoolBlocks), end : PoolSizes, current : Nat \ {0}, large : Seq(Nat), cleanup : Seq(PoolCleanups), max : Int]
PoolPieces == [what : {"data", "node", "cleanup", "forgotten"}, block : Nat \ {0}, from : Nat, to : Nat]

\* Of every block the header is taken, and, if its end is aligned, no more than the block.
PoolSound(p) ==
  /\ p \in PoolStructs /\ Len(p.blocks) > 0 /\ p.max <= p.end - PoolHeader
  /\ \A b \in 1..Len(p.blocks) : /\ HeaderOf(b) <= p.blocks[b].last
                                 /\ p.end % NGX_ALIGNMENT = 0 => p.blocks[b].last <= p.end

\* What was cut off a block lies before its last, but for the cleanups that ngx_reset_pool forgot.
PiecesSound(G, p) ==
  /\ G \subseteq PoolPieces
  /\ \A g \in G : /\ g.from >= HeaderOf(g.block)
                  /\ p.end % NGX_ALIGNMENT = 0 => g.to <= p.end
                  /\ g.what # "forgotten" => g.block \in 1..Len(p.blocks) /\ g.to <= p.blocks[g.block].last

\* Whatever was registered is in the list of the pool, and has a handler until it has run.
CleanupsSound(p) ==
  /\ \A i, j \in DOMAIN p.cleanup : p.cleanup[i].fd = p.cleanup[j].fd => i = j
  /\ registered = {p.cleanup[i].fd : i \in DOMAIN p.cleanup}
  /\ \A i \in DOMAIN cleaned : \E j \in DOMAIN p.cleanup : p.cleanup[j].fd = cleaned[i] /\ ~ p.cleanup[j].handler
  /\ \A j \in DOMAIN p.cleanup : p.cleanup[j].handler \/ \E i \in DOMAIN cleaned : cleaned[i] = p.cleanup[j].fd

CleanedDiffer == \A i, j \in DOMAIN cleaned : cleaned[i] = cleaned[j] => i = j

PoolInv ==
  /\ "shared" \notin faults /\ cleaned \in Seq(Fds) /\ CleanedDiffer /\ IsFiniteSet(malloced) /\ LargeOwnedOnce
  /\ \/ pool = NoPool /\ given = {} /\ ("overwritten" \notin faults => registered = ToSet(cleaned))
     \/ PoolSound(pool) /\ PiecesSound(given, pool) /\ CleanupsSound(pool)

\* A place q of size bytes in what becomes of the pool p.
PlaceFound(p, size, q) ==
  /\ PoolSound(q.pool) /\ q.block \in 1..Len(q.pool.blocks) /\ q.from \in Nat /\ q.from >= HeaderOf(q.block)
  /\ q.from + size = q.pool.blocks[q.block].last
  /\ Len(p.blocks) <= Len(q.pool.blocks)
  /\ \A b \in 1..Len(p.blocks) : /\ p.blocks[b].last <= q.pool.blocks[b].last
                                 /\ q.block = b => p.blocks[b].last <= q.from
  /\ q.pool.large = p.large /\ q.pool.cleanup = p.cleanup /\ q.pool.end = p.end

\* A pool is not the lack of one.
LEMMA SoundIsPool == ASSUME NEW p, PoolSound(p) PROVE p # NoPool
<1>1. "current" \in DOMAIN p
  BY DEF PoolSound, PoolStructs
<1>2. "current" \notin DOMAIN NoPool
  BY DEF NoPool
<1>3. QED
  BY <1>1, <1>2

\* Aligned up, an address is not lower, and still inside a block whose end is aligned.
LEMMA AlignUp ==
  ASSUME NEW n \in Nat, NEW end \in Nat
  PROVE  /\ Align(n) \in Nat /\ n <= Align(n)
         /\ end % NGX_ALIGNMENT = 0 /\ n <= end => Align(n) <= end
<1> DEFINE A == NGX_ALIGNMENT
           m == n + A - 1
           k == m \div A
           q == end \div A
<1>1. A \in Nat \ {0} /\ end \in Nat
  BY MemoryPoolAssumption
<1>2. Align(n) = k * A
  BY DEF Align
<1> HIDE DEF A
<1>3. m \in Nat
  BY <1>1
<1>4. m = n + A - 1
  OBVIOUS
<1> HIDE DEF m
<1>5. k \in Nat /\ m % A \in 0..(A - 1) /\ m = (A * k) + (m % A)
  BY <1>1, <1>3
<1>6. q \in Nat /\ end = (A * q) + (end % A)
  BY <1>1
<1> HIDE DEF k, q
<1>7. k * A = A * k /\ A * k \in Nat
  BY <1>1, <1>5, <1>6
<1>8. n <= k * A
  BY <1>1, <1>4, <1>5, <1>7
<1>9. ASSUME end % A = 0, n <= end PROVE k * A <= end
  <2>0. end = A * q
    BY <1>1, <1>6, <1>9
  <2>1. SUFFICES ASSUME q + 1 <= k PROVE FALSE
    <3>1. k <= q \/ q + 1 <= k
      BY <1>5, <1>6
    <3>2. k <= q => A * k <= A * q
      BY <1>1, <1>5, <1>6
    <3>3. QED
      BY <1>7, <2>0, <3>1, <3>2
  <2>2. A * (q + 1) <= A * k
    BY <1>1, <1>5, <1>6, <2>1
  <2>3. A * (q + 1) = (A * q) + A
    BY <1>1, <1>6
  <2> DEFINE s == A * q
             t == A * k
  <2>4. s \in Nat /\ t \in Nat /\ s + A <= t /\ end = s /\ m = t + (m % A)
    BY <1>1, <1>5, <1>6, <1>7, <2>0, <2>2, <2>3
  <2> HIDE DEF s, t
  <2>5. QED
    BY <1>1, <1>3, <1>4, <1>5, <1>9, <2>4
<1>10. QED
  BY <1>2, <1>7, <1>8, <1>9 DEF A

\* A new block: what it gives lies behind its header.
LEMMA BlockCut ==
  ASSUME NEW p, PoolSound(p), NEW size \in Nat, size <= p.end - PoolHeader
  PROVE  PlaceFound(p, size, ngx_palloc_block(p, size))
<1> DEFINE n == Len(p.blocks)
           m == Align(DataHeader)
           older == [b \in 1..n |-> IF b >= p.current /\ b < n
                                    THEN [p.blocks[b] EXCEPT !.failed = @ + 1] ELSE p.blocks[b]]
           tired == {b \in p.current..(n - 1) : p.blocks[b].failed > MaxFailed}
           current == IF tired = {} THEN p.current ELSE 1 + CHOOSE b \in tired : \A c \in tired : c <= b
           blocks == Append(older, NewBlock(m + size))
           r == [p EXCEPT !.blocks = blocks, !.current = current]
<1>1. /\ p \in PoolStructs /\ p.blocks \in Seq(PoolBlocks) /\ n \in Nat \ {0} /\ p.current \in Nat \ {0}
      /\ p.end \in PoolSizes /\ p.max <= p.end - PoolHeader
      /\ \A b \in 1..n : /\ p.blocks[b] \in PoolBlocks /\ HeaderOf(b) <= p.blocks[b].last
                         /\ p.end % NGX_ALIGNMENT = 0 => p.blocks[b].last <= p.end
  BY DEF PoolSound, PoolStructs
<1>2. m \in Nat /\ DataHeader <= m /\ m <= PoolHeader /\ DataHeader \in Nat
  BY AlignUp, MemoryPoolAssumption
<1>3. ngx_palloc_block(p, size) = [pool |-> r, block |-> n + 1, from |-> m]
  BY DEF ngx_palloc_block
<1> HIDE DEF m
<1>4. \A b \in 1..n : older[b] \in PoolBlocks /\ older[b].last = p.blocks[b].last
  <2>1. SUFFICES ASSUME NEW b \in 1..n PROVE older[b] \in PoolBlocks /\ older[b].last = p.blocks[b].last
    OBVIOUS
  <2>2. p.blocks[b] \in PoolBlocks
    BY <1>1
  <2>3. QED
    BY <2>2 DEF PoolBlocks
<1>5. older \in Seq(PoolBlocks) /\ Len(older) = n
  <2>1. older \in [1..n -> PoolBlocks]
    BY <1>4
  <2> HIDE DEF older
  <2>2. QED
    BY <1>1, <2>1
<1> HIDE DEF older
<1>6. NewBlock(m + size) \in PoolBlocks /\ NewBlock(m + size).last = m + size
  BY <1>2 DEF NewBlock, PoolBlocks
<1>7. /\ blocks \in Seq(PoolBlocks) /\ Len(blocks) = n + 1 /\ blocks[n + 1] = NewBlock(m + size)
      /\ \A b \in 1..n : blocks[b] = older[b]
  BY <1>1, <1>5, <1>6
<1> HIDE DEF blocks
<1>8. current \in Nat \ {0}
  <2>1. SUFFICES ASSUME tired # {} PROVE (CHOOSE b \in tired : \A c \in tired : c <= b) \in Nat
    BY <1>1
  <2>2. tired \in SUBSET Nat /\ \A b \in tired : b <= n
    BY <1>1
  <2> HIDE DEF tired
  <2>3. \E b \in tired : \A c \in tired : c <= b
    BY <1>1, <2>1, <2>2, GreatestOf
  <2>4. (CHOOSE b \in tired : \A c \in tired : c <= b) \in tired
    BY <2>3
  <2>5. QED
    BY <2>2, <2>4
<1> HIDE DEF current
<1>9. /\ r \in PoolStructs /\ r.blocks = blocks /\ r.max = p.max /\ r.large = p.large /\ r.cleanup = p.cleanup /\ r.end = p.end
  BY <1>1, <1>7, <1>8 DEF PoolStructs
<1> HIDE DEF r
<1>10. HeaderOf(n + 1) <= m
  BY <1>1, <1>2 DEF HeaderOf
<1>11. PoolSound(r)
  <2>1. \A b \in 1..(n + 1) : /\ HeaderOf(b) <= blocks[b].last
                              /\ p.end % NGX_ALIGNMENT = 0 => blocks[b].last <= p.end
    <3>1. SUFFICES ASSUME NEW b \in 1..(n + 1)
                   PROVE  /\ HeaderOf(b) <= blocks[b].last
                          /\ p.end % NGX_ALIGNMENT = 0 => blocks[b].last <= p.end
      OBVIOUS
    <3>2. CASE b \in 1..n
      BY <1>1, <1>4, <1>7, <3>2
    <3>3. CASE b = n + 1
      <4>1. m + size <= p.end
        <5>1. p.end \in Nat /\ PoolHeader \in Nat
          BY <1>1, MemoryPoolAssumption
        <5>2. QED
          BY <1>2, <5>1
      <4>2. HeaderOf(b) <= m + size
        BY <1>2, <1>10, <3>3, MemoryPoolAssumption DEF HeaderOf
      <4>3. QED
        BY <1>6, <1>7, <3>3, <4>1, <4>2
    <3>4. QED
      BY <1>1, <3>2, <3>3
  <2>2. QED
    BY <1>1, <1>7, <1>9, <2>1 DEF PoolSound
<1>12. \A b \in 1..n : p.blocks[b].last <= blocks[b].last /\ b # n + 1
  <2>1. SUFFICES ASSUME NEW b \in 1..n PROVE p.blocks[b].last <= blocks[b].last /\ b # n + 1
    OBVIOUS
  <2>2. p.blocks[b].last \in Nat /\ blocks[b].last = p.blocks[b].last
    BY <1>1, <1>4, <1>7 DEF PoolBlocks
  <2>3. QED
    BY <1>1, <2>2
<1>13. QED
  BY <1>1, <1>2, <1>3, <1>6, <1>7, <1>9, <1>10, <1>11, <1>12 DEF PlaceFound

\* Room in a block from current on is taken before a new block is.
LEMMA SmallCut ==
  ASSUME NEW p, PoolSound(p), NEW size \in Nat, size <= p.end - PoolHeader, NEW align \in BOOLEAN
  PROVE  PlaceFound(p, size, ngx_palloc_small(p, size, align))
<1> DEFINE n == Len(p.blocks)
           fits == {b \in p.current..n : FitsIn(p, b, size, align)}
           b == CHOOSE c \in fits : \A d \in fits : c <= d
           start == StartIn(p, b, align)
           r == [p EXCEPT !.blocks[b].last = start + size]
<1>1. /\ p \in PoolStructs /\ p.blocks \in Seq(PoolBlocks) /\ n \in Nat \ {0} /\ p.current \in Nat \ {0}
      /\ p.end \in PoolSizes /\ p.max <= p.end - PoolHeader
      /\ \A c \in 1..n : /\ p.blocks[c] \in PoolBlocks /\ HeaderOf(c) <= p.blocks[c].last
                         /\ p.end % NGX_ALIGNMENT = 0 => p.blocks[c].last <= p.end
  BY DEF PoolSound, PoolStructs
<1>2. CASE fits = {}
  <2>1. ngx_palloc_small(p, size, align) = ngx_palloc_block(p, size)
    BY <1>2 DEF ngx_palloc_small
  <2>2. QED
    BY <2>1, BlockCut
<1>3. CASE fits # {}
  <2>1. ngx_palloc_small(p, size, align) = [pool |-> r, block |-> b, from |-> start]
    BY <1>3 DEF ngx_palloc_small
  <2>2. b \in 1..n /\ FitsIn(p, b, size, align)
    <3>1. fits \in SUBSET Nat /\ \A c \in fits : c \in 1..n /\ FitsIn(p, c, size, align)
      BY <1>1
    <3> HIDE DEF fits
    <3>2. \E c \in fits : \A d \in fits : c <= d
      BY <1>3, <3>1, LeastOf
    <3>3. b \in fits
      BY <3>2
    <3>4. QED
      BY <3>1, <3>3
  <2> HIDE DEF b
  <2> DEFINE last == p.blocks[b].last
  <2>3. /\ p.blocks[b] \in PoolBlocks /\ last \in Nat /\ HeaderOf(b) <= last
        /\ p.end % NGX_ALIGNMENT = 0 => last <= p.end
    BY <1>1, <2>2 DEF PoolBlocks
  <2>4. /\ start \in Nat /\ last <= start /\ p.end \in Nat
        /\ p.end % NGX_ALIGNMENT = 0 => start <= p.end
    <3>1. p.end \in Nat
      BY <1>1, MemoryPoolAssumption
    <3>2. QED
      BY <2>3, <3>1, AlignUp DEF StartIn
  <2> HIDE DEF start
  <2>5. ASSUME p.end % NGX_ALIGNMENT = 0 PROVE start + size <= p.end
    <3>1. (p.end - start) % SizeSpan >= size
      BY <2>2 DEF FitsIn, start
    <3> DEFINE room == p.end - start
    <3>2. room \in Nat /\ room < SizeSpan /\ SizeSpan \in Nat \ {0} /\ p.end \in Nat
      BY <1>1, <2>4, <2>5, MemoryPoolAssumption
    <3>3. room % SizeSpan = room
      <4> HIDE DEF room
      <4>1. QED
        BY <3>2
    <3>4. QED
      BY <2>4, <3>1, <3>2, <3>3
  <2>6. HeaderOf(b) \in Nat
    BY MemoryPoolAssumption DEF HeaderOf
  <2> DEFINE new == [p.blocks[b] EXCEPT !.last = start + size]
             blocks == [p.blocks EXCEPT ![b] = new]
  <2>7. new \in PoolBlocks /\ new.last = start + size
    BY <2>3, <2>4 DEF PoolBlocks
  <2>8. r = [p EXCEPT !.blocks = blocks]
    BY <1>1 DEF PoolStructs
  <2> HIDE DEF new
  <2>9. /\ blocks \in Seq(PoolBlocks) /\ Len(blocks) = n /\ blocks[b] = new
        /\ \A c \in 1..n : c # b => blocks[c] = p.blocks[c]
    BY <1>1, <2>2, <2>7
  <2> HIDE DEF blocks, r
  <2>10. r \in PoolStructs /\ r.blocks = blocks /\ r.max = p.max /\ r.large = p.large /\ r.cleanup = p.cleanup /\ r.end = p.end
    BY <1>1, <2>8, <2>9 DEF PoolStructs
  <2>11. ASSUME NEW c \in 1..n
         PROVE  /\ HeaderOf(c) <= blocks[c].last /\ (p.end % NGX_ALIGNMENT = 0 => blocks[c].last <= p.end)
                /\ p.blocks[c].last <= blocks[c].last /\ (b = c => p.blocks[c].last <= start)
    <3>1. CASE c = b
      <4>1. blocks[c].last = start + size
        BY <2>7, <2>9, <3>1
      <4>2. HeaderOf(b) <= start + size /\ last <= start + size
        BY <2>3, <2>4, <2>6
      <4>3. QED
        BY <2>4, <2>5, <3>1, <4>1, <4>2
    <3>2. CASE c # b
      <4>1. blocks[c] = p.blocks[c] /\ p.blocks[c].last \in Nat
        BY <1>1, <2>9, <3>2 DEF PoolBlocks
      <4>2. QED
        BY <1>1, <3>2, <4>1
    <3>3. QED
      BY <3>1, <3>2
  <2>12. PoolSound(r)
    BY <1>1, <2>9, <2>10, <2>11 DEF PoolSound
  <2>13. start >= HeaderOf(b)
    BY <2>3, <2>4, <2>6
  <2>14. QED
    BY <1>1, <2>1, <2>2, <2>4, <2>7, <2>9, <2>10, <2>11, <2>12, <2>13 DEF PlaceFound
<1>4. QED
  BY <1>2, <1>3

\* A sound pool has its blocks in a sequence.
LEMMA SoundHasBlocks == ASSUME NEW p, PoolSound(p) PROVE p.blocks \in Seq(PoolBlocks)
  BY DEF PoolSound, PoolStructs

\* What is cut off next is behind all that was given before.
LEMMA GivenGrows ==
  ASSUME NEW p, PoolSound(p), NEW G, PiecesSound(G, p), NEW size \in Nat, NEW q, PlaceFound(p, size, q),
         NEW what \in {"data", "node", "cleanup"}
  PROVE  LET new == PieceAt(what, q.block, q.from, size)
         IN PiecesSound(G \cup {new}, q.pool) /\ "shared" \notin Faults(G, new)
<1> DEFINE new == PieceAt(what, q.block, q.from, size)
           all == G \cup {new}
<1>1. /\ q.block \in 1..Len(q.pool.blocks) /\ q.from \in Nat /\ q.from >= HeaderOf(q.block) /\ PoolSound(q.pool)
      /\ q.from + size = q.pool.blocks[q.block].last /\ Len(p.blocks) <= Len(q.pool.blocks)
      /\ \A b \in 1..Len(p.blocks) : /\ p.blocks[b].last <= q.pool.blocks[b].last
                                     /\ q.block = b => p.blocks[b].last <= q.from
      /\ q.pool.end = p.end
  <2>1. q.block \in 1..Len(q.pool.blocks) /\ q.from \in Nat /\ q.from >= HeaderOf(q.block) /\ PoolSound(q.pool)
    BY Zenon DEF PlaceFound
  <2>2. q.from + size = q.pool.blocks[q.block].last /\ Len(p.blocks) <= Len(q.pool.blocks) /\ q.pool.end = p.end
    BY Zenon DEF PlaceFound
  <2>3. \A b \in 1..Len(p.blocks) : /\ p.blocks[b].last <= q.pool.blocks[b].last
                                    /\ q.block = b => p.blocks[b].last <= q.from
    BY Zenon DEF PlaceFound
  <2>4. QED
    BY <2>1, <2>2, <2>3, Zenon
<1>2. Len(p.blocks) \in Nat /\ Len(q.pool.blocks) \in Nat /\ q.block \in Nat \ {0}
  <2>1. p.blocks \in Seq(PoolBlocks) /\ q.pool.blocks \in Seq(PoolBlocks)
    BY <1>1, SoundHasBlocks
  <2>2. Len(p.blocks) \in Nat /\ Len(q.pool.blocks) \in Nat
    BY <2>1
  <2>3. QED
    BY <1>1, <2>2
<1>3. \A b \in 1..Len(p.blocks) : p.blocks[b].last \in Nat /\ q.pool.blocks[b].last \in Nat
  <2>1. p.blocks \in Seq(PoolBlocks) /\ q.pool.blocks \in Seq(PoolBlocks)
    BY <1>1, SoundHasBlocks
  <2>2. SUFFICES ASSUME NEW b \in 1..Len(p.blocks) PROVE p.blocks[b].last \in Nat /\ q.pool.blocks[b].last \in Nat
    OBVIOUS
  <2>3. b \in 1..Len(q.pool.blocks)
    BY <1>1, <1>2
  <2>4. p.blocks[b] \in PoolBlocks /\ q.pool.blocks[b] \in PoolBlocks
    BY <2>1, <2>3
  <2>5. QED
    BY <2>4 DEF PoolBlocks
<1>4. new \in PoolPieces /\ new.what = what /\ new.block = q.block /\ new.from = q.from /\ new.to = q.from + size
  BY <1>1, <1>2 DEF PieceAt, PoolPieces
<1> HIDE DEF new
<1>5. ASSUME NEW g \in G
      PROVE  /\ g \in PoolPieces /\ g.from >= HeaderOf(g.block)
             /\ p.end % NGX_ALIGNMENT = 0 => g.to <= p.end
             /\ g.what # "forgotten" => /\ g.block \in 1..Len(q.pool.blocks) /\ g.to <= q.pool.blocks[g.block].last
                                        /\ ~ PiecesOverlap(g, new)
  <2>1. /\ g \in PoolPieces /\ g.from >= HeaderOf(g.block) /\ g.to \in Nat /\ g.block \in Nat /\ g.from \in Nat
        /\ p.end % NGX_ALIGNMENT = 0 => g.to <= p.end
    BY DEF PiecesSound, PoolPieces
  <2>2. SUFFICES ASSUME g.what # "forgotten"
                 PROVE  g.block \in 1..Len(q.pool.blocks) /\ g.to <= q.pool.blocks[g.block].last /\ ~ PiecesOverlap(g, new)
    BY <2>1
  <2>3. g.block \in 1..Len(p.blocks) /\ g.to <= p.blocks[g.block].last
    BY <2>2 DEF PiecesSound
  <2>4. g.block \in 1..Len(q.pool.blocks) /\ p.blocks[g.block].last <= q.pool.blocks[g.block].last
    BY <1>1, <1>2, <2>1, <2>3
  <2>5. g.to <= q.pool.blocks[g.block].last
    BY <1>3, <2>1, <2>3, <2>4
  <2>6. g.block = q.block => g.to <= q.from
    BY <1>1, <1>3, <2>1, <2>3
  <2>7. ~ PiecesOverlap(g, new)
    BY <1>1, <1>4, <2>1, <2>6 DEF PiecesOverlap
  <2>8. QED
    BY <2>4, <2>5, <2>7
<1>6. all \subseteq PoolPieces
  BY <1>4, <1>5
<1>7. ASSUME NEW g \in all
      PROVE  /\ g.from >= HeaderOf(g.block)
             /\ p.end % NGX_ALIGNMENT = 0 => g.to <= p.end
             /\ g.what # "forgotten" => g.block \in 1..Len(q.pool.blocks) /\ g.to <= q.pool.blocks[g.block].last
  <2>1. CASE g \in G
    BY <1>5, <2>1
  <2>2. CASE g = new
    <3>1. /\ q.pool.blocks[q.block].last \in Int
          /\ p.end % NGX_ALIGNMENT = 0 => q.pool.blocks[q.block].last <= p.end
      BY <1>1 DEF PoolSound
    <3>2. q.pool.blocks[q.block].last <= q.pool.blocks[q.block].last
      BY <3>1
    <3>3. QED
      BY <1>1, <1>4, <2>2, <3>1, <3>2
  <2>3. QED
    BY <2>1, <2>2
<1>8. "shared" \notin Faults(G, new)
  BY <1>5 DEF Faults
<1>9. PiecesSound(all, q.pool)
  BY <1>1, <1>6, <1>7 DEF PiecesSound
<1>10. QED
  BY <1>8, <1>9 DEF new

\* Every large allocation of M is in one node of the list s.
LargeSound(M, s) == M = ToSet(s) \ {0} /\ \A i, j \in DOMAIN s : s[i] = s[j] /\ i # j => s[i] = 0

\* What the invariant is while there is a pool.
LEMMA PoolIs ==
  ASSUME PoolInv, pool # NoPool
  PROVE  /\ PoolSound(pool) /\ PiecesSound(given, pool) /\ CleanupsSound(pool) /\ LargeSound(malloced, pool.large)
         /\ pool.blocks \in Seq(PoolBlocks) /\ Len(pool.blocks) \in Nat /\ pool.large \in Seq(Nat)
         /\ pool.cleanup \in Seq(PoolCleanups) /\ pool.max <= pool.end - PoolHeader /\ pool.end \in PoolSizes
<1>1. PoolSound(pool) /\ PiecesSound(given, pool) /\ CleanupsSound(pool) /\ LargeSound(malloced, pool.large)
  BY DEF PoolInv, LargeOwnedOnce, LargeSound
<1>2. QED
  BY <1>1 DEF PoolSound, PoolStructs

\* What the invariant asks of the pool after a step.
LEMMA PoolBecomes ==
  ASSUME NEW p, pool' = p, PoolSound(p), PiecesSound(given', p),
         "shared" \notin faults', cleaned' \in Seq(Fds), CleanedDiffer', CleanupsSound(p)', IsFiniteSet(malloced'), LargeSound(malloced', p.large)
  PROVE  PoolInv'
<1>1. p # NoPool
  BY SoundIsPool
<1>2. LargeOwnedOnce'
  BY <1>1 DEF LargeSound, LargeOwnedOnce
<1>3. QED
  BY <1>2 DEF PoolInv, PiecesSound, CleanupsSound, PoolSound

\* Only the blocks and their end matter to the pieces that were cut off them.
LEMMA SameBlocks ==
  ASSUME NEW G, NEW p, NEW r, PiecesSound(G, p), r.blocks = p.blocks, r.end = p.end
  PROVE  PiecesSound(G, r)
  BY DEF PiecesSound

\* A new node takes a large allocation.
LEMMA LargeGrows ==
  ASSUME NEW M, NEW s \in Seq(Nat), LargeSound(M, s), NEW x \in Nat \ {0}, x \notin M
  PROVE  LargeSound(M \cup {x}, <<x>> \o s) /\ <<x>> \o s \in Seq(Nat)
<1> DEFINE t == <<x>> \o s
<1>1. t \in Seq(Nat) /\ Len(t) = Len(s) + 1 /\ t[1] = x /\ \A i \in 1..Len(s) : t[i + 1] = s[i]
  OBVIOUS
<1>2. Len(s) \in Nat /\ DOMAIN s = 1..Len(s) /\ DOMAIN t = 1..(Len(s) + 1)
  BY <1>1
<1> HIDE DEF t
<1>3. \A i \in DOMAIN t : i = 1 \/ (i # 1 /\ i - 1 \in DOMAIN s /\ t[i] = s[i - 1])
  <2>1. SUFFICES ASSUME NEW i \in DOMAIN t, i # 1 PROVE i - 1 \in DOMAIN s /\ t[i] = s[i - 1]
    OBVIOUS
  <2>2. i - 1 \in 1..Len(s) /\ (i - 1) + 1 = i
    BY <1>2, <2>1
  <2>3. QED
    BY <1>1, <1>2, <2>2
<1>4. \A i \in DOMAIN s : i + 1 \in DOMAIN t /\ t[i + 1] = s[i] /\ s[i] # x
  <2>1. SUFFICES ASSUME NEW i \in DOMAIN s PROVE i + 1 \in DOMAIN t /\ t[i + 1] = s[i] /\ s[i] # x
    OBVIOUS
  <2>2. s[i] \in ToSet(s) /\ x \notin ToSet(s)
    BY DEF LargeSound, ToSet
  <2>3. QED
    BY <1>1, <1>2, <2>2
<1>5. ToSet(t) = ToSet(s) \cup {x}
  <2>1. ToSet(t) \subseteq ToSet(s) \cup {x}
    <3>1. SUFFICES ASSUME NEW i \in DOMAIN t PROVE t[i] \in ToSet(s) \cup {x}
      BY DEF ToSet
    <3>2. QED
      BY <1>1, <1>3 DEF ToSet
  <2>2. 1 \in DOMAIN t
    BY <1>2
  <2>3. x \in ToSet(t)
    BY <1>1, <2>2 DEF ToSet
  <2>4. ToSet(s) \subseteq ToSet(t)
    BY <1>4 DEF ToSet
  <2>5. QED
    BY <2>1, <2>3, <2>4
<1>6. ASSUME NEW i \in DOMAIN t, NEW j \in DOMAIN t, t[i] = t[j], i # j PROVE t[i] = 0
  <2>1. i # 1 /\ j # 1
    BY <1>1, <1>3, <1>4, <1>6
  <2>2. i - 1 \in DOMAIN s /\ j - 1 \in DOMAIN s /\ i - 1 # j - 1 /\ t[i] = s[i - 1] /\ t[j] = s[j - 1]
    BY <1>2, <1>3, <1>6, <2>1
  <2>3. QED
    BY <1>6, <2>2 DEF LargeSound
<1>7. QED
  BY <1>1, <1>5, <1>6 DEF LargeSound, t

\* There is a number for one allocation more.
LEMMA NextIs ==
  ASSUME PoolInv, Cardinality(malloced) < MaxLarge
  PROVE  NextLarge \in Nat \ {0} /\ NextLarge \notin malloced
<1>1. \E x \in 1..(MaxLarge + 1) : x \notin malloced
  <2>1. SUFFICES ASSUME 1..(MaxLarge + 1) \subseteq malloced PROVE FALSE
    OBVIOUS
  <2>2. MaxLarge \in Nat
    BY MemoryPoolAssumption
  <2>3. Cardinality(1..(MaxLarge + 1)) = MaxLarge + 1
    BY <2>2, FS_Interval
  <2>4. IsFiniteSet(malloced) /\ Cardinality(malloced) \in Nat
    BY FS_CardinalityType DEF PoolInv
  <2>5. Cardinality(1..(MaxLarge + 1)) <= Cardinality(malloced)
    BY <2>1, <2>4, FS_Subset
  <2>6. QED
    BY <2>2, <2>3, <2>4, <2>5
<1>2. NextLarge \in 1..(MaxLarge + 1) /\ NextLarge \notin malloced
  BY <1>1 DEF NextLarge
<1>3. QED
  BY <1>2, MemoryPoolAssumption

\* A new pool has one block, of which its header is taken.
LEMMA CreateKeeps == ASSUME PoolInv, NEW size \in PoolSizes, ngx_create_pool(size) PROVE PoolInv'
<1>1. pool = NoPool /\ given = {}
  BY SoundIsPool DEF PoolInv, ngx_create_pool
<1>2. malloced = {}
  BY <1>1 DEF PoolInv, LargeOwnedOnce, ToSet
<1> DEFINE m == IF size - PoolHeader < NGX_MAX_ALLOC_FROM_POOL THEN size - PoolHeader ELSE NGX_MAX_ALLOC_FROM_POOL
           p == [blocks |-> <<NewBlock(PoolHeader)>>, end |-> size, current |-> 1, large |-> <<>>, cleanup |-> <<>>, max |-> m]
<1>3. size \in Nat /\ PoolHeader <= size /\ PoolHeader \in Nat /\ DataHeader \in 1..PoolHeader
  BY MemoryPoolAssumption
<1>4. m \in Int /\ m <= size - PoolHeader
  BY <1>3, MemoryPoolAssumption
<1>5. NewBlock(PoolHeader) \in PoolBlocks /\ NewBlock(PoolHeader).last = PoolHeader
  BY <1>3 DEF NewBlock, PoolBlocks
<1>6. pool' = p
  BY DEF ngx_create_pool
<1> HIDE DEF m
<1>7. /\ p \in PoolStructs /\ Len(p.blocks) = 1 /\ p.blocks[1] = NewBlock(PoolHeader) /\ p.end = size
      /\ p.max = m /\ p.large = <<>> /\ p.cleanup = <<>>
  BY <1>4, <1>5 DEF PoolStructs
<1> HIDE DEF p
<1>8. PoolSound(p)
  BY <1>3, <1>4, <1>5, <1>7 DEF PoolSound, HeaderOf
<1>9. given' = {} /\ cleaned' = <<>> /\ malloced' = {} /\ "shared" \notin faults' /\ registered' = {}
  BY <1>1, <1>2 DEF ngx_create_pool
<1>10. PiecesSound(given', p) /\ CleanupsSound(p)'
  BY <1>7, <1>9 DEF PiecesSound, CleanupsSound
<1>11. LargeSound(malloced', p.large) /\ IsFiniteSet(malloced')
  BY <1>7, <1>9, FS_EmptySet DEF LargeSound, ToSet
<1>12. cleaned' \in Seq(Fds) /\ CleanedDiffer'
  BY <1>9 DEF CleanedDiffer
<1>13. QED
  BY <1>6, <1>8, <1>9, <1>10, <1>11, <1>12, PoolBecomes

\* A piece is taken, and nothing else of the pool but the list large may change.
LEMMA PutKeeps ==
  ASSUME PoolInv, pool # NoPool, NEW size \in Nat, NEW q, PlaceFound(pool, size, q),
         NEW what \in {"data", "node"}, NEW r, r.blocks = q.pool.blocks, r.cleanup = q.pool.cleanup, r.end = q.pool.end,
         PoolSound(r), NEW new, new = PieceAt(what, q.block, q.from, size),
         pool' = r, given' = given \cup {new}, faults' = faults \cup Faults(given, new),
         LargeSound(malloced', r.large), IsFiniteSet(malloced'), UNCHANGED <<registered, cleaned>>
  PROVE  PoolInv'
<1>1. PiecesSound(given', q.pool) /\ "shared" \notin Faults(given, new)
  BY PoolIs, GivenGrows
<1>2. PiecesSound(given', r)
  BY <1>1, SameBlocks
<1>3. "shared" \notin faults'
  BY <1>1 DEF PoolInv
<1>4. r.cleanup = pool.cleanup
  BY DEF PlaceFound
<1>5. CleanupsSound(r)'
  BY <1>4, PoolIs DEF CleanupsSound
<1>6. cleaned' \in Seq(Fds) /\ CleanedDiffer'
  BY DEF PoolInv, CleanedDiffer
<1>7. QED
  BY <1>2, <1>3, <1>5, <1>6, PoolBecomes

\* A small request.
LEMMA SmallKeeps ==
  ASSUME PoolInv, pool # NoPool, NEW size \in RequestSizes, NEW align \in BOOLEAN,
         size <= pool.max, Small(size, align), UNCHANGED malloced
  PROVE  PoolInv'
<1> DEFINE q == ngx_palloc_small(pool, size, align)
           new == PieceAt("data", q.block, q.from, size)
<1>1. size \in Nat /\ size <= pool.end - PoolHeader
  <2>1. pool.max \in Int /\ pool.max <= pool.end - PoolHeader /\ pool.end \in PoolSizes
    BY PoolIs DEF PoolSound, PoolStructs
  <2>2. pool.end \in Nat /\ PoolHeader \in Nat /\ size \in Nat
    BY <2>1, MemoryPoolAssumption
  <2>3. QED
    BY <2>1, <2>2
<1>2. PlaceFound(pool, size, q)
  BY <1>1, SmallCut, PoolIs
<1>3. /\ pool' = q.pool /\ given' = given \cup {new} /\ faults' = faults \cup Faults(given, new)
      /\ UNCHANGED <<registered, cleaned>>
  BY DEF Small, PutPiece
<1> HIDE DEF q
<1>4. PoolSound(q.pool) /\ q.pool.large = pool.large
  BY <1>2 DEF PlaceFound
<1>5. LargeSound(malloced', q.pool.large) /\ IsFiniteSet(malloced')
  BY <1>4, PoolIs DEF PoolInv
<1>6. QED
  BY <1>1, <1>2, <1>3, <1>4, <1>5, PutKeeps

\* A node for the large allocation x.
LEMMA NodeKeeps ==
  ASSUME PoolInv, pool # NoPool, NEW x \in Nat \ {0}, x \notin malloced, AddNode(x),
         malloced' = malloced \cup {x}
  PROVE  PoolInv'
<1> DEFINE q == ngx_palloc_small(pool, LargeNode, TRUE)
           s == <<x>> \o pool.large
           r == [q.pool EXCEPT !.large = s]
           new == PieceAt("node", q.block, q.from, LargeNode)
<1>1. LargeNode \in Nat /\ LargeNode <= pool.end - PoolHeader
  BY PoolIs, MemoryPoolAssumption
<1>2. PlaceFound(pool, LargeNode, q)
  BY <1>1, SmallCut, PoolIs
<1>3. \E pl, b, f : q = [pool |-> pl, block |-> b, from |-> f]
  BY DEF ngx_palloc_small, ngx_palloc_block
<1>4. /\ pool' = [q EXCEPT !.pool.large = s].pool
      /\ \E n : /\ n = PieceAt("node", [q EXCEPT !.pool.large = s].block, [q EXCEPT !.pool.large = s].from, LargeNode)
               /\ given' = given \cup {n} /\ faults' = faults \cup Faults(given, n)
      /\ UNCHANGED <<registered, cleaned>>
  BY DEF AddNode, PutPiece
<1> HIDE DEF q, s
<1>5. [q EXCEPT !.pool.large = s].pool = r /\ [q EXCEPT !.pool.large = s].block = q.block /\ [q EXCEPT !.pool.large = s].from = q.from
  BY <1>3
<1>6. LargeSound(malloced', s) /\ s \in Seq(Nat)
  BY LargeGrows, PoolIs DEF s
<1>7. PoolSound(q.pool) /\ q.pool \in PoolStructs
  BY <1>2 DEF PlaceFound, PoolSound
<1>8. /\ r \in PoolStructs /\ r.blocks = q.pool.blocks /\ r.cleanup = q.pool.cleanup /\ r.large = s
      /\ r.max = q.pool.max /\ r.end = q.pool.end
  BY <1>6, <1>7 DEF PoolStructs
<1> HIDE DEF r
<1>9. PoolSound(r)
  BY <1>7, <1>8 DEF PoolSound
<1>10. IsFiniteSet(malloced')
  BY FS_AddElement DEF PoolInv
<1>11. /\ pool' = r /\ given' = given \cup {new} /\ faults' = faults \cup Faults(given, new)
       /\ UNCHANGED <<registered, cleaned>>
  BY <1>4, <1>5, Zenon
<1>12. new = PieceAt("node", q.block, q.from, LargeNode)
  OBVIOUS
<1> HIDE DEF new
<1>13. QED
  BY <1>1, <1>2, <1>6, <1>8, <1>9, <1>10, <1>11, <1>12, PutKeeps

\* A node that was freed takes a large allocation.
LEMMA LargeSet ==
  ASSUME NEW M, NEW s \in Seq(Nat), LargeSound(M, s), NEW x \in Nat \ {0}, x \notin M, NEW i \in DOMAIN s, s[i] = 0
  PROVE  LargeSound(M \cup {x}, [s EXCEPT ![i] = x]) /\ [s EXCEPT ![i] = x] \in Seq(Nat)
<1> DEFINE t == [s EXCEPT ![i] = x]
<1>1. t \in Seq(Nat) /\ DOMAIN t = DOMAIN s /\ t[i] = x /\ \A j \in DOMAIN s : j # i => t[j] = s[j]
  OBVIOUS
<1> HIDE DEF t
<1>2. x \notin ToSet(s)
  BY DEF LargeSound
<1>3. \A j \in DOMAIN s : s[j] # x
  BY <1>2 DEF ToSet
<1>4. \A e \in Nat \ {0} : e \in ToSet(t) <=> e \in ToSet(s) \/ e = x
  <2>1. SUFFICES ASSUME NEW e \in Nat \ {0} PROVE (\E j \in DOMAIN t : t[j] = e) <=> (\E j \in DOMAIN s : s[j] = e) \/ e = x
    BY DEF ToSet
  <2>2. QED
    BY <1>1
<1>5. ToSet(t) \subseteq Nat /\ ToSet(s) \subseteq Nat
  BY <1>1 DEF ToSet
<1>6. M \cup {x} = ToSet(t) \ {0}
  BY <1>4, <1>5 DEF LargeSound
<1>7. \A j, k \in DOMAIN t : t[j] = t[k] /\ j # k => t[j] = 0
  BY <1>1, <1>3 DEF LargeSound
<1>8. QED
  BY <1>1, <1>6, <1>7 DEF LargeSound, t

\* A node without its allocation.
LEMMA LargeFreed ==
  ASSUME NEW M, NEW s \in Seq(Nat), LargeSound(M, s), NEW i \in DOMAIN s, s[i] # 0
  PROVE  LargeSound(M \ {s[i]}, [s EXCEPT ![i] = 0]) /\ [s EXCEPT ![i] = 0] \in Seq(Nat)
<1> DEFINE t == [s EXCEPT ![i] = 0]
<1>1. t \in Seq(Nat) /\ DOMAIN t = DOMAIN s /\ t[i] = 0 /\ \A j \in DOMAIN s : j # i => t[j] = s[j]
  OBVIOUS
<1> HIDE DEF t
<1>2. \A j \in DOMAIN s : j # i => s[j] # s[i]
  BY DEF LargeSound
<1>3. \A e \in Nat \ {0} : e \in ToSet(t) <=> e \in ToSet(s) /\ e # s[i]
  <2>1. SUFFICES ASSUME NEW e \in Nat \ {0} PROVE (\E j \in DOMAIN t : t[j] = e) <=> (\E j \in DOMAIN s : s[j] = e) /\ e # s[i]
    BY DEF ToSet
  <2>2. QED
    BY <1>1, <1>2
<1>4. ToSet(t) \subseteq Nat /\ ToSet(s) \subseteq Nat
  BY <1>1 DEF ToSet
<1>5. M \ {s[i]} = ToSet(t) \ {0}
  BY <1>3, <1>4 DEF LargeSound
<1>6. \A j, k \in DOMAIN t : t[j] = t[k] /\ j # k => t[j] = 0
  BY <1>1 DEF LargeSound
<1>7. QED
  BY <1>1, <1>5, <1>6 DEF LargeSound, t

\* Only the list large changes.
LEMMA ListKeeps ==
  ASSUME PoolInv, pool # NoPool, NEW s \in Seq(Nat), pool' = [pool EXCEPT !.large = s],
         LargeSound(malloced', s), IsFiniteSet(malloced'), UNCHANGED <<given, faults, registered, cleaned>>
  PROVE  PoolInv'
<1> PICK r : r = [pool EXCEPT !.large = s]
  OBVIOUS
<1>1. PoolSound(pool) /\ pool \in PoolStructs
  BY PoolIs DEF PoolSound
<1>2. /\ r \in PoolStructs /\ r.blocks = pool.blocks /\ r.cleanup = pool.cleanup /\ r.large = s
      /\ r.max = pool.max /\ r.end = pool.end
  BY <1>1 DEF PoolStructs
<1>3. pool' = r
  OBVIOUS
<1>4. PoolSound(r)
  BY <1>1, <1>2 DEF PoolSound
<1>5. PiecesSound(given', r)
  BY <1>2, PoolIs, SameBlocks
<1>6. CleanupsSound(r)'
  BY <1>2, PoolIs DEF CleanupsSound
<1>7. "shared" \notin faults' /\ cleaned' \in Seq(Fds) /\ CleanedDiffer'
  BY DEF PoolInv, CleanedDiffer
<1>8. LargeSound(malloced', r.large)
  BY <1>2
<1>9. QED
  BY <1>3, <1>4, <1>5, <1>6, <1>7, <1>8, PoolBecomes

\* A large request.
LEMMA LargeKeeps ==
  ASSUME PoolInv, pool # NoPool, ngx_palloc_large
  PROVE  PoolInv'
<1> DEFINE x == NextLarge
           i == CHOOSE k \in Spare : \A j \in Spare : k <= j
           s == [pool.large EXCEPT ![i] = x]
<1>1. Cardinality(malloced) < MaxLarge /\ malloced' = malloced \cup {x}
  BY DEF ngx_palloc_large
<1>2. x \in Nat \ {0} /\ x \notin malloced
  BY <1>1, NextIs
<1> HIDE DEF x
<1>3. CASE Spare = {}
  BY <1>1, <1>2, <1>3, NodeKeeps DEF ngx_palloc_large, x
<1>4. CASE Spare # {}
  <2>1. pool.large \in Seq(Nat) /\ LargeSound(malloced, pool.large) /\ pool \in PoolStructs
    BY PoolIs DEF PoolSound
  <2>2. Spare \in SUBSET Nat
    BY <2>1 DEF Spare
  <2>3. \E k \in Spare : \A j \in Spare : k <= j
    BY <1>4, <2>2, LeastOf
  <2>4. i \in Spare
    BY <2>3
  <2>5. i \in DOMAIN pool.large /\ pool.large[i] = 0
    BY <2>4 DEF Spare
  <2>6. pool' = [pool EXCEPT !.large[i] = x] /\ UNCHANGED <<given, faults, registered, cleaned>>
    BY <1>4 DEF ngx_palloc_large, x
  <2> HIDE DEF i
  <2>7. [pool EXCEPT !.large[i] = x] = [pool EXCEPT !.large = s]
    BY <2>1 DEF PoolStructs
  <2>8. LargeSound(malloced', s) /\ s \in Seq(Nat)
    BY <1>1, <1>2, <2>1, <2>5, LargeSet
  <2> HIDE DEF s
  <2>9. IsFiniteSet(malloced')
    BY <1>1, FS_AddElement DEF PoolInv
  <2>10. QED
    BY <2>6, <2>7, <2>8, <2>9, ListKeeps
<1>5. QED
  BY <1>3, <1>4

\* A large allocation is freed, and its node stays.
LEMMA PoolFreeKeeps == ASSUME PoolInv, NEW x \in 1..MaxLarge, ngx_pfree(x) PROVE PoolInv'
<1> DEFINE i == CHOOSE k \in DOMAIN pool.large : pool.large[k] = x
           s == [pool.large EXCEPT ![i] = 0]
<1>1. /\ pool # NoPool /\ x \in ToSet(pool.large) \ {0} /\ malloced' = malloced \ {x}
      /\ pool' = [pool EXCEPT !.large[i] = 0] /\ UNCHANGED <<given, faults, registered, cleaned>>
  BY DEF ngx_pfree
<1>2. pool.large \in Seq(Nat) /\ LargeSound(malloced, pool.large) /\ pool \in PoolStructs
  BY <1>1, PoolIs DEF PoolSound
<1>3. i \in DOMAIN pool.large /\ pool.large[i] = x /\ x # 0
  BY <1>1 DEF ToSet
<1> HIDE DEF i
<1>4. [pool EXCEPT !.large[i] = 0] = [pool EXCEPT !.large = s]
  BY <1>2 DEF PoolStructs
<1>5. LargeSound(malloced', s) /\ s \in Seq(Nat)
  BY <1>1, <1>2, <1>3, LargeFreed
<1> HIDE DEF s
<1>6. IsFiniteSet(malloced')
  BY <1>1, FS_RemoveElement DEF PoolInv
<1>7. QED
  BY <1>1, <1>4, <1>5, <1>6, ListKeeps

\* A cleanup more, of a descriptor that has none.
LEMMA CleanupsGrow ==
  ASSUME NEW p, NEW r, p.cleanup \in Seq(PoolCleanups), CleanupsSound(p), NEW fd \in Fds, fd \notin registered,
         r.cleanup = <<[fd |-> fd, handler |-> TRUE]>> \o p.cleanup,
         registered' = registered \cup {fd}, UNCHANGED cleaned
  PROVE  CleanupsSound(r)' /\ r.cleanup \in Seq(PoolCleanups)
<1> DEFINE c == [fd |-> fd, handler |-> TRUE]
<1>1. c \in PoolCleanups /\ c.fd = fd /\ c.handler = TRUE
  BY DEF PoolCleanups
<1> HIDE DEF c
<1>2. PICK s \in Seq(PoolCleanups) : s = p.cleanup
  OBVIOUS
<1>3. PICK t : t = <<c>> \o s
  OBVIOUS
<1>4. r.cleanup = t
  BY <1>2, <1>3 DEF c
<1>5. t \in Seq(PoolCleanups) /\ Len(t) = Len(s) + 1 /\ t[1] = c /\ \A i \in 1..Len(s) : t[i + 1] = s[i]
  BY <1>1, <1>3
<1>6. Len(s) \in Nat /\ DOMAIN s = 1..Len(s) /\ DOMAIN t = 1..(Len(s) + 1)
  BY <1>5
<1>7. \A i \in DOMAIN t : i = 1 \/ (i # 1 /\ i - 1 \in DOMAIN s /\ t[i] = s[i - 1])
  <2>1. SUFFICES ASSUME NEW i \in DOMAIN t, i # 1 PROVE i - 1 \in DOMAIN s /\ t[i] = s[i - 1]
    OBVIOUS
  <2>2. i - 1 \in 1..Len(s) /\ (i - 1) + 1 = i
    BY <1>6, <2>1
  <2>3. QED
    BY <1>5, <1>6, <2>2
<1>8. 1 \in DOMAIN t /\ \A i \in DOMAIN s : i + 1 \in DOMAIN t /\ t[i + 1] = s[i]
  BY <1>5, <1>6
<1>9. /\ \A i, j \in DOMAIN s : s[i].fd = s[j].fd => i = j
      /\ registered = {s[i].fd : i \in DOMAIN s}
      /\ \A i \in DOMAIN cleaned : \E j \in DOMAIN s : s[j].fd = cleaned[i] /\ ~ s[j].handler
      /\ \A j \in DOMAIN s : s[j].handler \/ \E i \in DOMAIN cleaned : cleaned[i] = s[j].fd
  BY <1>2 DEF CleanupsSound
<1>10. ASSUME NEW i \in DOMAIN t, NEW j \in DOMAIN t, t[i].fd = t[j].fd, i # j PROVE FALSE
  <2>1. CASE i # 1 /\ j # 1
    <3>1. i - 1 \in DOMAIN s /\ j - 1 \in DOMAIN s /\ i - 1 # j - 1 /\ s[i - 1].fd = s[j - 1].fd
      BY <1>6, <1>7, <1>10, <2>1
    <3>2. QED
      BY <1>9, <3>1
  <2>2. CASE i = 1 \/ j = 1
    BY <1>1, <1>5, <1>7, <1>9, <1>10, <2>2
  <2>3. QED
    BY <2>1, <2>2
<1>11. \A k \in DOMAIN cleaned : \E j \in DOMAIN t : t[j].fd = cleaned[k] /\ ~ t[j].handler
  <2>1. SUFFICES ASSUME NEW k \in DOMAIN cleaned PROVE \E j \in DOMAIN t : t[j].fd = cleaned[k] /\ ~ t[j].handler
    OBVIOUS
  <2>2. PICK j \in DOMAIN s : s[j].fd = cleaned[k] /\ ~ s[j].handler
    BY <1>9
  <2>3. QED
    BY <1>8, <2>2
<1>12. \A j \in DOMAIN t : t[j].handler \/ \E i \in DOMAIN cleaned : cleaned[i] = t[j].fd
  <2>1. SUFFICES ASSUME NEW j \in DOMAIN t, j # 1 PROVE t[j].handler \/ \E i \in DOMAIN cleaned : cleaned[i] = t[j].fd
    BY <1>1, <1>5
  <2>2. PICK i : i \in DOMAIN s /\ t[j] = s[i]
    BY <1>7, <2>1
  <2>3. QED
    BY <1>9, <2>2
<1>13. registered \cup {fd} = {t[i].fd : i \in DOMAIN t}
  <2>1. \A i \in DOMAIN t : t[i].fd \in registered \cup {fd}
    BY <1>1, <1>5, <1>7, <1>9
  <2>2. \A e \in registered \cup {fd} : \E i \in DOMAIN t : t[i].fd = e
    <3>1. SUFFICES ASSUME NEW e \in registered PROVE \E i \in DOMAIN t : t[i].fd = e
      BY <1>1, <1>5, <1>8
    <3>2. PICK i \in DOMAIN s : s[i].fd = e
      BY <1>9
    <3>3. QED
      BY <1>8, <3>2
  <2>3. QED
    BY <2>1, <2>2
<1>14. /\ \A i, j \in DOMAIN t : t[i].fd = t[j].fd => i = j
       /\ registered' = {t[i].fd : i \in DOMAIN t} /\ cleaned' = cleaned
  BY <1>10, <1>13
<1> DEFINE Sound(u) == /\ \A i, j \in DOMAIN u : u[i].fd = u[j].fd => i = j
                       /\ registered' = {u[i].fd : i \in DOMAIN u}
                       /\ \A i \in DOMAIN cleaned' : \E j \in DOMAIN u : u[j].fd = cleaned'[i] /\ ~ u[j].handler
                       /\ \A j \in DOMAIN u : u[j].handler \/ \E i \in DOMAIN cleaned' : cleaned'[i] = u[j].fd
<1>15. Sound(t)
  BY <1>11, <1>12, <1>14, Zenon
<1>16. CleanupsSound(r)' <=> Sound(r.cleanup)
  BY Zenon DEF CleanupsSound
<1> HIDE DEF Sound
<1>17. QED
  BY <1>4, <1>5, <1>15, <1>16

\* The node of a cleanup and what its handler gets are two pieces.
LEMMA CleanupKeeps == ASSUME PoolInv, NEW fd \in Fds, ngx_pool_cleanup_add(fd) PROVE PoolInv'
<1> DEFINE node == ngx_palloc_small(pool, CleanupNode, TRUE)
           data == ngx_palloc_small(node.pool, CleanupNode, TRUE)
           g == PieceAt("cleanup", node.block, node.from, CleanupNode)
           h == PieceAt("cleanup", data.block, data.from, CleanupNode)
           t == <<[fd |-> fd, handler |-> TRUE]>> \o pool.cleanup
<1>1. /\ pool # NoPool /\ fd \notin registered
      /\ registered' = registered \cup {fd} /\ UNCHANGED <<malloced, cleaned>>
      /\ pool' = [data.pool EXCEPT !.cleanup = t]
      /\ given' = given \cup {g, h}
      /\ faults' = faults \cup Faults(given, g) \cup Faults(given \cup {g}, h)
  BY DEF ngx_pool_cleanup_add
<1>2. /\ pool.end \in PoolSizes /\ PoolSound(pool) /\ PiecesSound(given, pool) /\ CleanupsSound(pool)
      /\ pool.cleanup \in Seq(PoolCleanups) /\ LargeSound(malloced, pool.large)
  BY <1>1, PoolIs
<1>3. CleanupNode \in Nat /\ CleanupNode <= pool.end - PoolHeader
  <2>1. NGX_MAX_ALLOC_FROM_POOL \in Nat /\ CleanupNode \in 0..NGX_MAX_ALLOC_FROM_POOL
    BY MemoryPoolAssumption
  <2>2. CleanupNode <= pool.end - PoolHeader
    BY <1>2, MemoryPoolAssumption
  <2>3. QED
    BY <2>1, <2>2
<1>4. PlaceFound(pool, CleanupNode, node)
  BY <1>2, <1>3, SmallCut
<1> HIDE DEF node
<1>5. PoolSound(node.pool) /\ node.pool.end = pool.end
  BY <1>4 DEF PlaceFound
<1>6. PlaceFound(node.pool, CleanupNode, data)
  BY <1>3, <1>5, SmallCut
<1> HIDE DEF data
<1>7. PiecesSound(given \cup {g}, node.pool) /\ "shared" \notin Faults(given, g)
  BY <1>2, <1>3, <1>4, GivenGrows
<1>8. PiecesSound((given \cup {g}) \cup {h}, data.pool) /\ "shared" \notin Faults(given \cup {g}, h)
  BY <1>3, <1>5, <1>6, <1>7, GivenGrows
<1> HIDE DEF g, h
<1>9. (given \cup {g}) \cup {h} = given'
  BY <1>1
<1>10. data.pool.large = pool.large /\ PoolSound(data.pool) /\ data.pool \in PoolStructs
  BY <1>4, <1>6 DEF PlaceFound, PoolSound
<1>11. PICK r : r = [data.pool EXCEPT !.cleanup = t]
  OBVIOUS
<1>12. r.cleanup = t /\ r.blocks = data.pool.blocks /\ r.large = pool.large /\ r.max = data.pool.max /\ r.end = data.pool.end
  BY <1>10, <1>11 DEF PoolStructs
<1>13. CleanupsSound(r)' /\ r.cleanup \in Seq(PoolCleanups)
  <2>1. r.cleanup = <<[fd |-> fd, handler |-> TRUE]>> \o pool.cleanup
    BY <1>12
  <2>2. QED
    BY <1>1, <1>2, <2>1, CleanupsGrow
<1> HIDE DEF t
<1>14. r \in PoolStructs
  BY <1>10, <1>11, <1>12, <1>13 DEF PoolStructs
<1>15. PoolSound(r)
  BY <1>10, <1>12, <1>14 DEF PoolSound
<1>16. PiecesSound(given', r)
  BY <1>8, <1>9, <1>12, SameBlocks
<1>17. "shared" \notin faults'
  BY <1>1, <1>7, <1>8 DEF PoolInv
<1>18. cleaned' \in Seq(Fds) /\ CleanedDiffer' /\ IsFiniteSet(malloced') /\ LargeSound(malloced', r.large)
  BY <1>1, <1>2, <1>12 DEF PoolInv, CleanedDiffer
<1>19. QED
  BY <1>1, <1>11, <1>13, <1>15, <1>16, <1>17, <1>18, PoolBecomes

\* A cleanup that runs ahead of time loses its handler.
LEMMA RunKeeps == ASSUME PoolInv, NEW fd \in Fds, ngx_pool_run_cleanup_file(fd) PROVE PoolInv'
<1>1. pool # NoPool /\ UNCHANGED <<given, malloced, faults, registered>>
  BY DEF ngx_pool_run_cleanup_file
<1>2. PICK i \in DOMAIN pool.cleanup :
        /\ pool.cleanup[i] = [fd |-> fd, handler |-> TRUE]
        /\ pool' = [pool EXCEPT !.cleanup[i].handler = FALSE]
        /\ cleaned' = Append(cleaned, fd)
  BY DEF ngx_pool_run_cleanup_file
<1> DEFINE s == pool.cleanup
<1>3. PICK t : t = [s EXCEPT ![i].handler = FALSE]
  OBVIOUS
<1>4. PICK r : r = [pool EXCEPT !.cleanup = t]
  OBVIOUS
<1>5. s \in Seq(PoolCleanups) /\ CleanupsSound(pool) /\ PoolSound(pool) /\ pool \in PoolStructs /\ LargeSound(malloced, pool.large)
  BY <1>1, PoolIs DEF PoolSound
<1>6. pool' = r
  BY <1>2, <1>3, <1>4, <1>5 DEF PoolStructs
<1>7. /\ t \in Seq(PoolCleanups) /\ DOMAIN t = DOMAIN s /\ t[i].fd = fd /\ t[i].handler = FALSE
      /\ \A j \in DOMAIN s : j # i => t[j] = s[j]
  <2>1. \A d \in PoolCleanups : LET c == [d EXCEPT !.handler = FALSE]
                                IN c \in PoolCleanups /\ c.fd = d.fd /\ c.handler = FALSE
    BY DEF PoolCleanups
  <2>2. s[i] \in PoolCleanups /\ s[i].fd = fd
    BY <1>2, <1>5
  <2>3. PICK c \in PoolCleanups : c = [s[i] EXCEPT !.handler = FALSE] /\ c.fd = fd /\ c.handler = FALSE
    BY <2>1, <2>2
  <2>4. t = [s EXCEPT ![i] = c] /\ i \in DOMAIN s
    BY <1>3, <2>3
  <2>5. s \in Seq(PoolCleanups)
    BY <1>5
  <2> HIDE DEF s
  <2>6. t \in Seq(PoolCleanups) /\ DOMAIN t = DOMAIN s /\ t[i] = c /\ \A j \in DOMAIN s : j # i => t[j] = s[j]
    BY <2>3, <2>4, <2>5
  <2>7. QED
    BY <2>3, <2>6, Zenon
<1>8. /\ r \in PoolStructs /\ r.blocks = pool.blocks /\ r.cleanup = t /\ r.large = pool.large
      /\ r.max = pool.max /\ r.end = pool.end
  BY <1>4, <1>5, <1>7 DEF PoolStructs
<1>9. PoolSound(r)
  BY <1>5, <1>8 DEF PoolSound
<1>10. PiecesSound(given', r)
  BY <1>1, <1>8, PoolIs, SameBlocks
<1>11. s[i].fd = fd /\ s[i].handler = TRUE
  BY <1>2
<1>12. cleaned \in Seq(Fds) /\ CleanedDiffer
  BY DEF PoolInv
<1>13. \A k \in DOMAIN cleaned : cleaned[k] # fd
  <2>1. SUFFICES ASSUME NEW k \in DOMAIN cleaned, cleaned[k] = fd PROVE FALSE
    OBVIOUS
  <2>2. PICK j \in DOMAIN s : s[j].fd = cleaned[k] /\ ~ s[j].handler
    BY <1>5 DEF CleanupsSound
  <2>3. j = i
    BY <1>5, <1>11, <2>1, <2>2 DEF CleanupsSound
  <2>4. QED
    BY <1>11, <2>2, <2>3
<1>14. /\ cleaned' \in Seq(Fds) /\ DOMAIN cleaned' = DOMAIN cleaned \cup {Len(cleaned) + 1}
       /\ Len(cleaned) + 1 \notin DOMAIN cleaned
       /\ cleaned'[Len(cleaned) + 1] = fd /\ \A k \in DOMAIN cleaned : cleaned'[k] = cleaned[k]
  BY <1>2, <1>12
<1>15. CleanedDiffer'
  BY <1>12, <1>13, <1>14 DEF CleanedDiffer
<1>16. /\ \A j, k \in DOMAIN t : t[j].fd = t[k].fd => j = k
       /\ registered = {t[j].fd : j \in DOMAIN t}
  <2>1. \A j \in DOMAIN t : t[j].fd = s[j].fd
    BY <1>7, <1>11
  <2>2. registered = {s[j].fd : j \in DOMAIN s}
    BY <1>5 DEF CleanupsSound
  <2>3. \A j, k \in DOMAIN s : s[j].fd = s[k].fd => j = k
    BY <1>5 DEF CleanupsSound
  <2> HIDE DEF s
  <2>4. {t[j].fd : j \in DOMAIN t} = {s[j].fd : j \in DOMAIN s}
    BY <1>7, <2>1
  <2>5. QED
    BY <1>7, <2>1, <2>2, <2>3, <2>4
<1>17. \A k \in DOMAIN cleaned' : \E j \in DOMAIN t : t[j].fd = cleaned'[k] /\ ~ t[j].handler
  <2>1. SUFFICES ASSUME NEW k \in DOMAIN cleaned' PROVE \E j \in DOMAIN t : t[j].fd = cleaned'[k] /\ ~ t[j].handler
    OBVIOUS
  <2>2. CASE k \in DOMAIN cleaned
    <3>1. PICK j \in DOMAIN s : s[j].fd = cleaned[k] /\ ~ s[j].handler
      BY <1>5, <2>2 DEF CleanupsSound
    <3>2. j # i
      BY <1>11, <3>1
    <3>3. QED
      BY <1>7, <1>14, <2>2, <3>1, <3>2
  <2>3. CASE k = Len(cleaned) + 1
    BY <1>7, <1>14, <2>3
  <2>4. QED
    BY <1>14, <2>1, <2>2, <2>3
<1>18. \A j \in DOMAIN t : t[j].handler \/ \E k \in DOMAIN cleaned' : cleaned'[k] = t[j].fd
  <2>1. SUFFICES ASSUME NEW j \in DOMAIN t, ~ t[j].handler PROVE \E k \in DOMAIN cleaned' : cleaned'[k] = t[j].fd
    OBVIOUS
  <2>2. CASE j = i
    BY <1>7, <1>14, <2>2
  <2>3. CASE j # i
    <3>1. t[j] = s[j] /\ j \in DOMAIN s
      BY <1>7, <2>3
    <3>2. PICK k \in DOMAIN cleaned : cleaned[k] = s[j].fd
      BY <1>5, <2>1, <3>1 DEF CleanupsSound
    <3>3. QED
      BY <1>14, <3>1, <3>2
  <2>4. QED
    BY <2>2, <2>3
<1>19. CleanupsSound(r)'
  BY <1>1, <1>8, <1>16, <1>17, <1>18 DEF CleanupsSound
<1>20. "shared" \notin faults' /\ IsFiniteSet(malloced') /\ LargeSound(malloced', r.large)
  BY <1>1, <1>5, <1>8 DEF PoolInv
<1>21. QED
  BY <1>6, <1>9, <1>10, <1>14, <1>15, <1>19, <1>20, PoolBecomes

\* After a reset only the headers are taken.
LEMMA PoolResetKeeps == ASSUME PoolInv, ngx_reset_pool PROVE PoolInv'
<1>1. /\ pool # NoPool /\ malloced' = malloced \ ToSet(pool.large)
      /\ given' = {[g EXCEPT !.what = "forgotten"] : g \in {h \in given : h.what \in {"cleanup", "forgotten"}}}
      /\ UNCHANGED <<faults, registered, cleaned>>
  BY DEF ngx_reset_pool
<1>2. PICK t : t = [b \in DOMAIN pool.blocks |-> NewBlock(PoolHeader)]
  OBVIOUS
<1>3. PICK r : r = [pool EXCEPT !.blocks = t, !.current = 1, !.large = <<>>]
  OBVIOUS
<1>4. PoolSound(pool) /\ pool \in PoolStructs /\ pool.blocks \in Seq(PoolBlocks) /\ PiecesSound(given, pool)
  BY <1>1, PoolIs DEF PoolSound
<1>5. pool' = r
  BY <1>2, <1>3 DEF ngx_reset_pool
<1>6. NewBlock(PoolHeader) \in PoolBlocks /\ NewBlock(PoolHeader).last = PoolHeader
  BY MemoryPoolAssumption DEF NewBlock, PoolBlocks
<1>7. t \in Seq(PoolBlocks) /\ Len(t) = Len(pool.blocks) /\ \A b \in 1..Len(t) : t[b].last = PoolHeader
  BY <1>2, <1>4, <1>6
<1>8. /\ r \in PoolStructs /\ r.blocks = t /\ r.large = <<>> /\ r.cleanup = pool.cleanup
      /\ r.max = pool.max /\ r.end = pool.end
  <2>1. PICK e : e = <<>> /\ e \in Seq(Nat)
    <3>1. <<>> \in Seq(Nat)
      OBVIOUS
    <3>2. QED
      BY <3>1
  <2>2. r = [blocks |-> t, end |-> pool.end, current |-> 1, large |-> e, cleanup |-> pool.cleanup, max |-> pool.max]
    BY <1>3, <1>4, <2>1 DEF PoolStructs
  <2>3. /\ r \in PoolStructs /\ r.blocks = t /\ r.large = e /\ r.cleanup = pool.cleanup
        /\ r.max = pool.max /\ r.end = pool.end
    BY <1>4, <1>7, <2>1, <2>2 DEF PoolStructs
  <2>4. QED
    BY <2>1, <2>3
<1>9. PoolSound(r)
  <2>1. pool.end \in PoolSizes
    BY <1>4 DEF PoolStructs
  <2>2. PoolHeader \in Nat /\ DataHeader \in 1..PoolHeader /\ PoolHeader <= pool.end
    BY <2>1, MemoryPoolAssumption
  <2>3. \A b : HeaderOf(b) <= PoolHeader
    BY <2>2 DEF HeaderOf
  <2>4. \A b \in 1..Len(t) : HeaderOf(b) <= t[b].last /\ t[b].last <= pool.end
    BY <1>7, <2>2, <2>3
  <2>5. QED
    BY <1>4, <1>7, <1>8, <2>4 DEF PoolSound
<1>10. PiecesSound(given', r)
  <2>1. SUFFICES ASSUME NEW g \in given
                 PROVE  LET f == [g EXCEPT !.what = "forgotten"]
                        IN /\ f \in PoolPieces /\ f.from >= HeaderOf(f.block) /\ f.what = "forgotten"
                           /\ r.end % NGX_ALIGNMENT = 0 => f.to <= r.end
    BY <1>1 DEF PiecesSound
  <2>2. g \in PoolPieces /\ g.from >= HeaderOf(g.block) /\ (r.end % NGX_ALIGNMENT = 0 => g.to <= r.end)
    BY <1>4, <1>8 DEF PiecesSound
  <2>3. QED
    BY <2>2 DEF PoolPieces
<1>11. CleanupsSound(r)'
  BY <1>1, <1>8, PoolIs DEF CleanupsSound
<1>12. malloced' = {} /\ LargeSound(malloced', r.large)
  BY <1>1, <1>8, PoolIs DEF LargeSound, ToSet
<1>13. IsFiniteSet(malloced')
  BY <1>12, FS_EmptySet
<1>14. "shared" \notin faults' /\ cleaned' \in Seq(Fds) /\ CleanedDiffer'
  BY <1>1 DEF PoolInv, CleanedDiffer
<1>15. QED
  BY <1>5, <1>9, <1>10, <1>11, <1>12, <1>13, <1>14, PoolBecomes

\* The cleanups that are left run, in the order of the list, all if none was overwritten.
LEMMA LeftRun ==
  ASSUME PoolInv, ngx_destroy_pool
  PROVE  /\ cleaned' \in Seq(Fds) /\ CleanedDiffer'
         /\ "overwritten" \notin faults => registered = ToSet(cleaned')
<1>0. pool # NoPool
  BY DEF ngx_destroy_pool
<1> DEFINE s == pool.cleanup
           N == Len(s)
           T == Seq(Fds)
           Run(q, c) == IF c.handler THEN Append(q, c.fd) ELSE q
           next == [k \in 1..N |-> [q \in T |-> Run(q, s[k])]]
           Eq(f) == f = [k \in 0..N |-> IF k = 0 THEN cleaned ELSE Run(f[k - 1], s[k])]
           run == CHOOSE f : Eq(f)
<1>1. N \in Nat /\ DOMAIN s = 1..N /\ (\A k \in 1..N : s[k] \in PoolCleanups) /\ CleanupsSound(pool)
  BY <1>0, PoolIs
<1>2. next \in Steps(N, T) /\ \A k \in 1..N, q \in T : next[k][q] = Run(q, s[k])
  <2>1. ASSUME NEW k \in 1..N, NEW q \in T PROVE Run(q, s[k]) \in T
    <3>1. s[k].fd \in Fds
      BY <1>1 DEF PoolCleanups
    <3>2. QED
      BY <3>1
  <2> HIDE DEF Run, T, N, s
  <2>2. QED
    BY <2>1 DEF Steps
<1>3. cleaned \in T /\ CleanedDiffer
  BY DEF PoolInv
<1>4. \E f : IsRecursion(f, N, T, cleaned, next)
  <2> HIDE DEF next, N, T
  <2>1. QED
    BY <1>1, <1>2, <1>3, RecursionUpTo
<1>5. PICK f : f \in [0..N -> T] /\ f[0] = cleaned /\ \A k \in 1..N : f[k] = next[k][f[k - 1]]
  BY <1>4 DEF IsRecursion
<1> HIDE DEF next, T
<1>6. \A k \in 0..N : f[k] = IF k = 0 THEN cleaned ELSE Run(f[k - 1], s[k])
  <2>1. SUFFICES ASSUME NEW k \in 0..N, k # 0 PROVE f[k] = Run(f[k - 1], s[k])
    BY <1>5
  <2>2. k \in 1..N /\ k - 1 \in 0..N /\ f[k - 1] \in T
    BY <1>1, <1>5, <2>1
  <2>3. QED
    BY <1>2, <1>5, <2>2
<1>7. Eq(f)
  BY <1>5, <1>6
<1> HIDE DEF Eq
<1>8. Eq(run)
  BY <1>7
<1>9. \A k \in 0..N : run[k] = IF k = 0 THEN cleaned ELSE Run(run[k - 1], s[k])
  <2> HIDE DEF run
  <2>1. QED
    BY <1>8 DEF Eq
<1>10. PICK n \in 0..N : cleaned' = run[n] /\ ("overwritten" \notin faults => n = N)
  BY DEF ngx_destroy_pool, Eq
<1> HIDE DEF run
<1> DEFINE Differ(q) == \A i, j \in DOMAIN q : q[i] = q[j] => i = j
           \* What has run before the k-th cleanup does is not left behind it.
           Before(q, k) == \A i \in DOMAIN q : \A j \in DOMAIN s : j > k /\ s[j].handler => q[i] # s[j].fd
           \* What has run is of the list, and whoever is not behind the k-th has run or has no handler.
           Ran(q, k) == /\ \A i \in DOMAIN q : \E j \in DOMAIN s : q[i] = s[j].fd
                        /\ \A j \in DOMAIN s : j <= k \/ ~ s[j].handler => \E i \in DOMAIN q : q[i] = s[j].fd
           Good == {k \in 0..N : run[k] \in T /\ Differ(run[k]) /\ Before(run[k], k) /\ Ran(run[k], k)}
<1>11. 0 \in Good
  <2>1. run[0] = cleaned /\ 0 \in 0..N
    BY <1>1, <1>9
  <2>2. Before(cleaned, 0)
    <3>1. SUFFICES ASSUME NEW i \in DOMAIN cleaned, NEW j \in DOMAIN s, s[j].handler, cleaned[i] = s[j].fd PROVE FALSE
      OBVIOUS
    <3>2. PICK k \in DOMAIN s : s[k].fd = cleaned[i] /\ ~ s[k].handler
      BY <1>1 DEF CleanupsSound
    <3>3. k = j
      BY <1>1, <3>1, <3>2 DEF CleanupsSound
    <3>4. QED
      BY <3>1, <3>2, <3>3
  <2>3. Differ(cleaned)
    BY <1>3 DEF CleanedDiffer
  <2>4. Ran(cleaned, 0)
    <3>1. \A j \in DOMAIN s : ~ (j <= 0)
      BY <1>1
    <3>2. \A j \in DOMAIN s : s[j].handler \/ \E i \in DOMAIN cleaned : cleaned[i] = s[j].fd
      BY <1>1 DEF CleanupsSound
    <3>3. \A i \in DOMAIN cleaned : \E j \in DOMAIN s : cleaned[i] = s[j].fd
      BY <1>1 DEF CleanupsSound
    <3>4. QED
      BY <3>1, <3>2, <3>3
  <2>5. QED
    BY <1>3, <2>1, <2>2, <2>3, <2>4
<1>12. ASSUME NEW m \in 1..N, m - 1 \in Good PROVE m \in Good
  <2>1. m \in 0..N /\ m # 0 /\ m \in DOMAIN s /\ s[m] \in PoolCleanups /\ s[m].fd \in Fds
    BY <1>1 DEF PoolCleanups
  <2>2. PICK q : q = run[m - 1]
    OBVIOUS
  <2>3. q \in Seq(Fds) /\ Differ(q) /\ Before(q, m - 1) /\ Ran(q, m - 1)
    BY <1>12, <2>2 DEF T
  <2>4. run[m] = Run(q, s[m])
    BY <1>9, <2>1, <2>2
  <2>5. CASE ~ s[m].handler
    <3>1. run[m] = q
      BY <2>4, <2>5
    <3>2. Before(q, m)
      BY <1>1, <2>1, <2>3
    <3>3. Ran(q, m)
      <4>1. \A j \in DOMAIN s : j <= m => j <= m - 1 \/ j = m
        BY <1>1, <2>1
      <4>2. QED
        BY <2>3, <2>5, <4>1
    <3> HIDE DEF Differ, Before, Ran
    <3>4. QED
      BY <2>1, <2>3, <3>1, <3>2, <3>3 DEF T
  <2>6. CASE s[m].handler
    <3>1. PICK t : t = Append(q, s[m].fd)
      OBVIOUS
    <3>2. run[m] = t
      BY <2>4, <2>6, <3>1
    <3>3. /\ t \in Seq(Fds) /\ DOMAIN t = DOMAIN q \cup {Len(q) + 1} /\ Len(q) + 1 \notin DOMAIN q
          /\ t[Len(q) + 1] = s[m].fd /\ \A i \in DOMAIN q : t[i] = q[i]
      BY <2>1, <2>3, <3>1
    <3>4. \A i \in DOMAIN q : q[i] # s[m].fd
      BY <1>1, <2>1, <2>3, <2>6
    <3>5. Differ(t)
      BY <2>3, <3>3, <3>4
    <3>6. Before(t, m)
      <4>1. \A j \in DOMAIN s : j > m => s[j].fd # s[m].fd
        BY <1>1, <2>1 DEF CleanupsSound
      <4>2. \A j \in DOMAIN s : j > m => j > m - 1
        BY <1>1, <2>1
      <4>3. QED
        BY <2>3, <3>3, <4>1, <4>2
    <3>7. Ran(t, m)
      <4>1. \A j \in DOMAIN s : j <= m => j <= m - 1 \/ j = m
        BY <1>1, <2>1
      <4>2. \A i \in DOMAIN t : \E j \in DOMAIN s : t[i] = s[j].fd
        <5>1. SUFFICES ASSUME NEW i \in DOMAIN t PROVE \E j \in DOMAIN s : t[i] = s[j].fd
          OBVIOUS
        <5>2. CASE i \in DOMAIN q
          BY <2>3, <3>3, <5>2
        <5>3. CASE i = Len(q) + 1
          BY <2>1, <3>3, <5>3
        <5>4. QED
          BY <3>3, <5>2, <5>3
      <4>3. ASSUME NEW j \in DOMAIN s, j <= m \/ ~ s[j].handler PROVE \E i \in DOMAIN t : t[i] = s[j].fd
        <5>1. CASE j = m
          BY <3>3, <5>1
        <5>2. CASE j # m
          <6>1. PICK i \in DOMAIN q : q[i] = s[j].fd
            BY <2>3, <4>1, <4>3, <5>2
          <6>2. QED
            BY <3>3, <6>1
        <5>3. QED
          BY <5>1, <5>2
      <4>4. QED
        BY <4>2, <4>3
    <3> HIDE DEF Differ, Before, Ran
    <3>8. QED
      BY <2>1, <3>2, <3>3, <3>5, <3>6, <3>7 DEF T
  <2>7. QED
    BY <2>5, <2>6
<1> HIDE DEF Good
<1>13. 0..N \subseteq Good
  <2> HIDE DEF N
  <2>1. QED
    BY <1>1, <1>11, <1>12, InductionUpTo
<1>14. run[n] \in T /\ Differ(run[n]) /\ Ran(run[n], n)
  BY <1>10, <1>13 DEF Good
<1>15. CleanedDiffer'
  BY <1>10, <1>14 DEF CleanedDiffer
<1>16. ASSUME "overwritten" \notin faults PROVE registered = ToSet(cleaned')
  <2>1. n = N /\ \A j \in DOMAIN s : j <= n
    BY <1>1, <1>10, <1>16
  <2>2. registered = {s[j].fd : j \in DOMAIN s}
    BY <1>1 DEF CleanupsSound
  <2>3. PICK q : q = run[n]
    OBVIOUS
  <2>4. /\ \A i \in DOMAIN q : \E j \in DOMAIN s : q[i] = s[j].fd
        /\ \A j \in DOMAIN s : \E i \in DOMAIN q : q[i] = s[j].fd
    BY <1>14, <2>1, <2>3
  <2>5. ToSet(q) = {s[j].fd : j \in DOMAIN s}
    BY <2>4 DEF ToSet
  <2>6. QED
    BY <1>10, <2>2, <2>3, <2>5
<1>17. QED
  BY <1>10, <1>14, <1>15, <1>16 DEF T

\* Nothing is left of a pool that is destroyed.
LEMMA DestroyKeeps == ASSUME PoolInv, ngx_destroy_pool PROVE PoolInv'
<1>1. /\ pool # NoPool /\ pool' = NoPool /\ malloced' = malloced \ ToSet(pool.large) /\ given' = {}
      /\ UNCHANGED <<faults, registered>>
  BY DEF ngx_destroy_pool
<1>2. malloced' = {}
  BY <1>1, PoolIs DEF LargeSound
<1>3. LargeOwnedOnce' /\ IsFiniteSet(malloced')
  BY <1>1, <1>2, FS_EmptySet DEF LargeOwnedOnce, ToSet
<1>4. QED
  BY <1>1, <1>3, LeftRun DEF PoolInv

\* There is no pool at first.
LEMMA PoolStarts == PoolInit => PoolInv
  BY FS_EmptySet DEF PoolInit, PoolInv, CleanedDiffer, LargeOwnedOnce, ToSet

\* Every call keeps the invariant.
LEMMA PoolStep == PoolInv /\ [PoolNext]_poolVars => PoolInv'
<1> SUFFICES ASSUME PoolInv, [PoolNext]_poolVars PROVE PoolInv'
  OBVIOUS
<1>1. CASE UNCHANGED poolVars
  BY <1>1 DEF poolVars, PoolInv, CleanedDiffer, LargeOwnedOnce, PoolSound, PiecesSound, CleanupsSound
<1>2. ASSUME NEW size \in RequestSizes, NEW align \in BOOLEAN, PoolAllocate(size, align) PROVE PoolInv'
  BY <1>2, SmallKeeps, LargeKeeps DEF PoolAllocate
<1>3. ASSUME ngx_pmemalign PROVE PoolInv'
  BY <1>3, NextIs, NodeKeeps DEF ngx_pmemalign
<1>4. QED
  BY <1>1, <1>2, <1>3, CreateKeeps, PoolFreeKeeps, CleanupKeeps, RunKeeps, PoolResetKeeps, DestroyKeeps DEF PoolNext

\* While there is a pool, what is registered waits or has run.
LEMMA WaitingOrRun ==
  ASSUME CleanupsSound(pool)
  PROVE  Waiting(pool.cleanup) \cap ToSet(cleaned) = {} /\ registered = Waiting(pool.cleanup) \cup ToSet(cleaned)
<1> DEFINE s == pool.cleanup
<1>1. /\ \A i, j \in DOMAIN s : s[i].fd = s[j].fd => i = j
      /\ registered = {s[i].fd : i \in DOMAIN s}
      /\ \A i \in DOMAIN cleaned : \E j \in DOMAIN s : s[j].fd = cleaned[i] /\ ~ s[j].handler
      /\ \A j \in DOMAIN s : s[j].handler \/ \E i \in DOMAIN cleaned : cleaned[i] = s[j].fd
  BY DEF CleanupsSound
<1>2. \A e : e \in Waiting(s) <=> \E i \in DOMAIN s : s[i].handler /\ s[i].fd = e
  BY DEF Waiting
<1>3. \A e : e \in ToSet(cleaned) <=> \E i \in DOMAIN cleaned : cleaned[i] = e
  BY DEF ToSet
<1> HIDE DEF s
<1>4. Waiting(s) \cap ToSet(cleaned) = {}
  BY <1>1, <1>2, <1>3
<1>5. registered \subseteq Waiting(s) \cup ToSet(cleaned)
  BY <1>1, <1>2, <1>3
<1>6. Waiting(s) \cup ToSet(cleaned) \subseteq registered
  BY <1>1, <1>2, <1>3
<1>7. QED
  BY <1>4, <1>5, <1>6 DEF s

\* The theorem of this section: what the pool gives lies inside its blocks, if their end is aligned,
\* and shares no byte with what is in use, but for the cleanups that ngx_reset_pool forgets; every
\* large allocation has one node; no cleanup runs twice, and when the pool is gone every one that was
\* registered has run, unless one was overwritten (ngx_palloc_small, ngx_palloc_large,
\* ngx_destroy_pool), for every size of pool, header and request that has room for the pool's nodes.
THEOREM PoolStaysOwned == PoolSpec => []PoolOwned
<1>1. PoolInv => PoolOwned
  <2> SUFFICES ASSUME PoolInv PROVE PoolOwned
    OBVIOUS
  <2>1. CASE pool = NoPool
    <3>1. given = {} /\ "shared" \notin faults /\ CleanedDiffer /\ ("overwritten" \notin faults => registered = ToSet(cleaned))
      BY <2>1, SoundIsPool DEF PoolInv
    <3>2. PiecesDisjoint
      BY <3>1 DEF PiecesDisjoint
    <3>3. CleanedOnce
      BY <2>1, <3>1 DEF CleanedDiffer, CleanedOnce
    <3>4. QED
      BY <3>2, <3>3 DEF PoolInv, PoolOwned
  <2>2. CASE pool # NoPool
    <3>1. CleanupsSound(pool) /\ PiecesSound(given, pool) /\ pool.end \in Nat
      BY <2>2, PoolIs, MemoryPoolAssumption
    <3>2. PiecesDisjoint
      <4>1. ASSUME NEW g \in given, g.to > pool.end PROVE pool.end % NGX_ALIGNMENT # 0
        <5>1. g.to \in Nat
          BY <3>1 DEF PiecesSound, PoolPieces
        <5>2. pool.end % NGX_ALIGNMENT = 0 => g.to <= pool.end
          BY <3>1 DEF PiecesSound
        <5>3. QED
          BY <3>1, <4>1, <5>1, <5>2
      <4>2. \A g \in given : g.from >= HeaderOf(g.block)
        BY <3>1 DEF PiecesSound
      <4>3. QED
        BY <4>1, <4>2 DEF PoolInv, PiecesDisjoint
    <3>3. CleanedOnce
      BY <2>2, <3>1, WaitingOrRun DEF PoolInv, CleanedDiffer, CleanedOnce
    <3>4. QED
      BY <3>2, <3>3 DEF PoolInv, PoolOwned
  <2>3. QED
    BY <2>1, <2>2
<1>2. QED
  BY PoolStarts, PoolStep, <1>1, PTL DEF PoolSpec

----------------------------------------------------------------------------
(* Data structures of the exercises, next to what their users expect. *)

\* A place of the ring buffer, counted from 0 once round at most.
Turn(x) == IF x < DesignCapacity THEN x ELSE x - DesignCapacity

\* The cells of the ring buffer from front on are the queue.
CircularObjects ==
  [data : [0..(DesignCapacity - 1) -> Nat], used : 0..DesignCapacity, front : 0..(DesignCapacity - 1), rear : 0..(DesignCapacity - 1)]
CircularAgrees(o, s) ==
  /\ o \in CircularObjects /\ s \in Seq(Nat) /\ Len(s) = o.used
  /\ o.rear = Turn(o.front + o.used)
  /\ \A i \in 1..Len(s) : s[i] = o.data[Turn(o.front + i - 1)]

\* The second stack has the least of what is below and at each place of the first.
MinStackAgrees(o, s) ==
  /\ o \in [data : Seq(Nat), sort : Seq(Nat)] /\ s = o.data /\ Len(o.sort) = Len(s)
  /\ \A i \in 1..Len(s) : /\ \A j \in 1..i : o.sort[i] <= s[j]
                          /\ \E j \in 1..i : o.sort[i] = s[j]

StackAgrees(o, s) == s \in Seq(Nat) /\ o = s

\* What comes out first is on top of the stack out, then what is at the bottom of in.
QueueAgrees(o, s) ==
  /\ o \in [in : Seq(DesignValues), out : Seq(DesignValues)] /\ s \in Seq(DesignValues) /\ Len(s) = Len(o.out) + Len(o.in)
  /\ \A i \in 1..Len(o.out) : s[i] = o.out[Len(o.out) + 1 - i]
  /\ \A i \in 1..Len(o.in) : s[Len(o.out) + i] = o.in[i]

\* Every value is where the map says, and nowhere else.
SetAgrees(o, S) ==
  /\ o \in [nums : Seq(DesignValues), maps : [DesignValues -> Nat]] /\ S = ToSet(o.nums)
  /\ \A v \in DesignValues : o.maps[v] # 0 => o.maps[v] \in DOMAIN o.nums /\ o.nums[o.maps[v]] = v
  /\ \A k \in DOMAIN o.nums : o.maps[o.nums[k]] = k

\* What stands for the first cells are the cells that were not drawn.
Stands(o, c) == IF o.map[c] = -1 THEN c ELSE o.map[c]
FlipAgrees(o, S) ==
  /\ o \in [total : 0..4, map : [Cells -> Cells \cup {-1}]] /\ S \subseteq Cells
  /\ \A c \in Cells : c < o.total => Stands(o, c) \in Cells \ S
  /\ \A c, d \in Cells : c < o.total /\ d < o.total /\ Stands(o, c) = Stands(o, d) => c = d

\* The queue has the nodes from the parent of the next one on; a node has those two children
\* that have numbers so far.
TreeNodes == 1..(DesignBound + 1)
TreeAgrees(o, count) ==
  /\ o \in [left : [TreeNodes -> Nat], right : [TreeNodes -> Nat], que_ : Seq(TreeNodes), count : TreeNodes]
  /\ count = o.count /\ Len(o.que_) = count + 1 - ((count + 1) \div 2)
  /\ \A i \in 1..Len(o.que_) : o.que_[i] = ((count + 1) \div 2) + i - 1
  /\ \A n \in TreeNodes : o.left[n] # 0 <=> 2 * n <= count

\* Once round the ring buffer at most.
LEMMA RoundOnce ==
  ASSUME NEW c \in Nat \ {0}, NEW x \in Nat, x < 2 * c
  PROVE  x % c = IF x < c THEN x ELSE x - c
<1>1. CASE x < c
  BY <1>1
<1>2. CASE ~ (x < c)
  <2>1. x - c \in Nat /\ x - c < c /\ x = (x - c) + c
    BY <1>2
  <2>2. (x - c) % c = x - c
    BY <2>1
  <2>3. x % c = (x - c) % c
    BY <2>1
  <2>4. QED
    BY <1>2, <2>2, <2>3
<1>3. QED
  BY <1>1, <1>2

\* A sequence without its last element.
LEMMA FrontIs ==
  ASSUME NEW T, NEW s \in Seq(T), Len(s) > 0
  PROVE  /\ Front(s) \in Seq(T) /\ Len(Front(s)) = Len(s) - 1 /\ \A i \in 1..(Len(s) - 1) : Front(s)[i] = s[i]
         /\ Last(s) = s[Len(s)] /\ Last(s) \in T
<1> DEFINE n == Len(s) - 1
<1>1. Len(s) \in Nat /\ n \in Nat /\ 1 \in Int /\ n \in Int /\ (\A i \in 1..n : s[i] \in T) /\ s[Len(s)] \in T
  OBVIOUS
<1> HIDE DEF n
<1>2. /\ SubSeq(s, 1, n) \in Seq(T) /\ Len(SubSeq(s, 1, n)) = (IF 1 <= n THEN n - 1 + 1 ELSE 0)
      /\ \A i \in 1..(n - 1 + 1) : SubSeq(s, 1, n)[i] = s[1 + i - 1]
  BY <1>1, SubSeqProperties
<1>3. n - 1 + 1 = n /\ (IF 1 <= n THEN n - 1 + 1 ELSE 0) = n /\ \A i \in 1..n : 1 + i - 1 = i
  BY <1>1
<1>4. QED
  BY <1>1, <1>2, <1>3 DEF Front, Last, n

\* And one with an element more, or without the first.
LEMMA AppendIs ==
  ASSUME NEW T, NEW s \in Seq(T), NEW x \in T
  PROVE  /\ Append(s, x) \in Seq(T) /\ Len(Append(s, x)) = Len(s) + 1 /\ Append(s, x)[Len(s) + 1] = x
         /\ \A i \in 1..Len(s) : Append(s, x)[i] = s[i]
BY AppendProperties

\* A sequence without its first element.
LEMMA TailIs ==
  ASSUME NEW T, NEW s \in Seq(T), Len(s) > 0
  PROVE  /\ Tail(s) \in Seq(T) /\ Len(Tail(s)) = Len(s) - 1 /\ Head(s) = s[1] /\ Head(s) \in T
         /\ \A i \in 1..(Len(s) - 1) : Tail(s)[i] = s[i + 1]
BY HeadTailProperties

----------------------------------------------------------------------------
\* What users see of the four calls of the ring buffer.
LEMMA CircularStep ==
  ASSUME NEW v \in DesignValues, CircularAgrees(own, ideal), CallCircular(v)
  PROVE  CircularAgrees(own', ideal') /\ returned'.got = returned'.due
<1> DEFINE c == DesignCapacity
           f == own.front
           u == own.used
           r == own.rear
<1>1. c \in Nat \ {0} /\ v \in Nat /\ f \in Nat /\ f < c /\ u \in Nat /\ u <= c /\ r \in Nat /\ r < c
  BY DesignAssumption DEF CircularAgrees, CircularObjects
<1>2. (r + 1) % c = Turn(r + 1) /\ (f + 1) % c = Turn(f + 1) /\ f % c = f /\ (r - 1 + c) % c = Turn(r - 1 + c)
  <2>1. /\ r + 1 \in Nat /\ r + 1 < 2 * c /\ f + 1 \in Nat /\ f + 1 < 2 * c /\ f < 2 * c
        /\ r - 1 + c \in Nat /\ r - 1 + c < 2 * c
    BY <1>1
  <2> HIDE DEF c, f, r
  <2>2. QED
    BY <2>1, <1>1, RoundOnce DEF Turn, c
<1>3. /\ own.data \in [0..(c - 1) -> Nat] /\ ideal \in Seq(Nat) /\ Len(ideal) = u
      /\ own = [data |-> own.data, used |-> u, front |-> f, rear |-> r]
      /\ r = Turn(f + u) /\ \A i \in 1..u : ideal[i] = own.data[Turn(f + i - 1)]
  BY DEF CircularAgrees, CircularObjects
<1>4. r = Turn(f + u)
  BY <1>3
<1>5. ideal = <<>> <=> u = 0
  BY <1>3
<1>6. CASE Calls(EnQueue(own, v), IF Len(ideal) < DesignCapacity THEN Result(Append(ideal, v), TRUE) ELSE Result(ideal, FALSE))
  <2>1. CASE u >= c
    BY <1>6, <2>1, <1>1, <1>3 DEF Calls, EnQueue, IsFull, Result
  <2>2. CASE ~ (u >= c)
    <3>1. returned'.got = returned'.due /\ ideal' = Append(ideal, v)
      BY <1>6, <2>2, <1>1, <1>3 DEF Calls, EnQueue, IsFull, Result
    <3> DEFINE d == [own.data EXCEPT ![r] = v]
    <3>2. own' = [data |-> d, used |-> u + 1, front |-> f, rear |-> Turn(r + 1)]
      BY <1>6, <2>2, <1>1, <1>2, <1>3 DEF Calls, EnQueue, IsFull, Result
    <3>3. d \in [0..(c - 1) -> Nat] /\ d[r] = v /\ \A k \in 0..(c - 1) : k # r => d[k] = own.data[k]
      BY <1>1, <1>3
    <3>4. Turn(r + 1) \in 0..(c - 1) /\ Turn(r + 1) = Turn(f + (u + 1))
      <4> HIDE DEF c, f, u, r
      <4>1. QED
        BY <1>1, <1>4, <2>2 DEF Turn, c
    <3> HIDE DEF d
    <3>5. ASSUME NEW i \in 1..(u + 1) PROVE Append(ideal, v)[i] = d[Turn(f + i - 1)]
      <4>1. CASE i = u + 1
        BY <4>1, <1>1, <1>3, <3>3
      <4>2. CASE i # u + 1
        <5>1. i \in 1..u /\ Append(ideal, v)[i] = ideal[i]
          BY <4>2, <1>1, <1>3
        <5>3. Turn(f + i - 1) # r /\ Turn(f + i - 1) \in 0..(c - 1)
          <6> HIDE DEF c, f, u, r
          <6>1. QED
            BY <5>1, <1>1, <1>4, <2>2 DEF Turn, c
        <5>4. QED
          BY <5>1, <5>3, <3>3, <1>3
      <4>3. QED
        BY <4>1, <4>2
    <3>6. Append(ideal, v) \in Seq(Nat) /\ Len(Append(ideal, v)) = u + 1
      BY <1>1, <1>3
    <3>7. u + 1 \in 0..c /\ f \in 0..(c - 1)
      BY <1>1, <2>2
    <3>8. QED
      BY <3>1, <3>2, <3>3, <3>4, <3>5, <3>6, <3>7 DEF CircularAgrees, CircularObjects
  <2>3. QED
    BY <2>1, <2>2
<1>7. CASE Calls(DeQueue(own), Result(DueRest, ideal # <<>>))
  <2>1. CASE u = 0
    BY <1>7, <2>1, <1>5 DEF Calls, DeQueue, IsEmpty, Result, DueRest
  <2>2. CASE u # 0
    <3>1. returned'.got = returned'.due /\ ideal' = Tail(ideal)
      BY <1>7, <2>2, <1>5 DEF Calls, DeQueue, IsEmpty, Result, DueRest
    <3>2. own' = [data |-> own.data, used |-> u - 1, front |-> Turn(f + 1), rear |-> r]
      BY <1>7, <2>2, <1>2, <1>3 DEF Calls, DeQueue, IsEmpty, Result, DueRest
    <3>3. Tail(ideal) \in Seq(Nat) /\ Len(Tail(ideal)) = u - 1 /\ \A i \in 1..(u - 1) : Tail(ideal)[i] = ideal[i + 1]
      BY <1>1, <1>3, <2>2
    <3>4. Turn(f + 1) \in 0..(c - 1) /\ r = Turn(Turn(f + 1) + (u - 1))
      BY <1>1, <1>3, <2>2 DEF Turn
    <3>6. ASSUME NEW i \in 1..(u - 1) PROVE Tail(ideal)[i] = own.data[Turn(Turn(f + 1) + i - 1)]
      <4>1. Turn(Turn(f + 1) + i - 1) = Turn(f + (i + 1) - 1)
        BY <1>1, <2>2 DEF Turn
      <4>2. i + 1 \in 1..u
        BY <1>1
      <4>3. QED
        BY <4>1, <4>2, <1>3, <3>3
    <3>7. u - 1 \in 0..c /\ r \in 0..(c - 1)
      BY <1>1, <2>2
    <3>8. QED
      BY <3>1, <3>2, <3>3, <3>4, <3>6, <3>7, <1>3 DEF CircularAgrees, CircularObjects
  <2>3. QED
    BY <2>1, <2>2
<1>8. CASE Calls(QueueFront(own), Result(ideal, DueFirst(-1)))
  <2>1. u > 0 => own.data[f % c] = Head(ideal)
    <3>1. Turn(f + 1 - 1) = f
      BY <1>1 DEF Turn
    <3>2. u > 0 => ideal[1] = own.data[f] /\ Head(ideal) = ideal[1]
      BY <1>1, <1>3, <3>1
    <3>3. QED
      BY <1>2, <3>2
  <2>2. QED
    BY <1>8, <2>1, <1>1, <1>5 DEF Calls, QueueFront, IsEmpty, Result, DueFirst
<1>9. CASE Calls(QueueRear(own), Result(ideal, DueTop(-1)))
  <2>1. u > 0 => own.data[(r - 1 + c) % c] = Last(ideal)
    <3>1. SUFFICES ASSUME u > 0 PROVE own.data[Turn(r - 1 + c)] = ideal[u]
      BY <1>2, <1>3 DEF Last
    <3>3. Turn(r - 1 + c) = Turn(f + u - 1)
      BY <3>1, <1>1, <1>3 DEF Turn
    <3>4. QED
      BY <3>1, <3>3, <1>1, <1>3
  <2>2. QED
    BY <1>9, <2>1, <1>1, <1>5 DEF Calls, QueueRear, IsEmpty, Result, DueTop
<1>10. QED
  BY <1>6, <1>7, <1>8, <1>9 DEF CallCircular

\* The minima of what is pushed are kept one by one.
LEMMA MinStackStep ==
  ASSUME NEW v \in DesignValues, MinStackAgrees(own, ideal), CallMinStack(v)
  PROVE  MinStackAgrees(own', ideal') /\ returned'.got = returned'.due
<1> DEFINE n == Len(ideal)
<1>1. /\ v \in Nat /\ ideal \in Seq(Nat) /\ n \in Nat /\ own.sort \in Seq(Nat) /\ Len(own.sort) = n
      /\ own = [data |-> ideal, sort |-> own.sort]
  BY DesignAssumption DEF MinStackAgrees
<1>2. \A i \in 1..n : /\ \A j \in 1..i : own.sort[i] <= ideal[j]
                      /\ \E j \in 1..i : own.sort[i] = ideal[j]
  BY DEF MinStackAgrees
<1>3. (ideal = <<>> <=> n = 0) /\ (own.sort = <<>> <=> n = 0)
  BY <1>1
<1>4. CASE Calls(MinPush(own, v), Result(Append(ideal, v), 0))
  <2> DEFINE m == IF own.sort # <<>> /\ Last(own.sort) <= v THEN Last(own.sort) ELSE v
             s == Append(ideal, v)
             t == Append(own.sort, m)
  <2>1. own' = [data |-> s, sort |-> t] /\ ideal' = s /\ returned'.got = returned'.due
    <3>1. own.data = ideal
      BY <1>1
    <3>2. MinPush(own, v) = Result([data |-> s, sort |-> t], 0)
      BY <3>1 DEF MinPush
    <3>3. QED
      BY <1>4, <3>2 DEF Calls, Result
  <2>2. n > 0 => Last(own.sort) = own.sort[n] /\ own.sort[n] \in Nat
    BY <1>1 DEF Last
  <2>3. m \in Nat /\ m <= v /\ (m = v \/ (n > 0 /\ m = own.sort[n])) /\ (n > 0 => m <= own.sort[n])
    BY <1>1, <1>3, <2>2
  <2> HIDE DEF m
  <2>4. s \in Seq(Nat) /\ t \in Seq(Nat) /\ Len(s) = n + 1 /\ Len(t) = n + 1 /\ s[n + 1] = v /\ t[n + 1] = m
    BY <1>1, <2>3
  <2>5. \A i \in 1..n : s[i] = ideal[i] /\ t[i] = own.sort[i] /\ ideal[i] \in Nat
    BY <1>1, <2>3
  <2> HIDE DEF s, t
  <2>6. ASSUME NEW i \in 1..(n + 1) PROVE (\A j \in 1..i : t[i] <= s[j]) /\ (\E j \in 1..i : t[i] = s[j])
    <3>1. CASE i \in 1..n
      <4>1. \A j \in 1..i : j \in 1..n
        BY <3>1
      <4>2. QED
        BY <3>1, <4>1, <2>5, <1>2
    <3>2. CASE i = n + 1
      <4>1. ASSUME NEW j \in 1..n PROVE m <= s[j]
        <5>1. n > 0 /\ n \in 1..n /\ j \in 1..n
          BY <4>1
        <5>2. own.sort[n] <= ideal[j]
          BY <5>1, <1>2
        <5>3. QED
          BY <5>1, <5>2, <2>2, <2>3, <2>5
      <4>2. \E j \in 1..(n + 1) : m = s[j]
        <5>1. CASE m = v
          <6>1. n + 1 \in 1..(n + 1)
            BY <1>1
          <6>2. QED
            BY <5>1, <6>1, <2>4
        <5>2. CASE n > 0 /\ m = own.sort[n]
          <6>1. n \in 1..n
            BY <5>2, <1>1
          <6>2. PICK j \in 1..n : own.sort[n] = ideal[j]
            BY <6>1, <1>2
          <6>3. QED
            BY <6>2, <5>2, <2>5, <1>1
        <5>3. QED
          BY <5>1, <5>2, <2>3
      <4>3. \A j \in 1..(n + 1) : j \in 1..n \/ j = n + 1
        BY <1>1
      <4>4. QED
        BY <3>2, <4>1, <4>2, <4>3, <2>3, <2>4
    <3>3. QED
      BY <3>1, <3>2, <1>1
  <2>7. QED
    BY <2>1, <2>4, <2>6 DEF MinStackAgrees
<1>5. CASE Calls(MinPop(own), Result(DueLess, 0))
  <2>1. CASE n = 0
    BY <1>5, <2>1, <1>1, <1>3 DEF Calls, MinPop, Result, DueLess
  <2>2. CASE n # 0
    <3>1. own' = [data |-> Front(ideal), sort |-> Front(own.sort)] /\ ideal' = Front(ideal) /\ returned'.got = returned'.due
      BY <1>5, <2>2, <1>1, <1>3 DEF Calls, MinPop, Result, DueLess
    <3>2. /\ Front(ideal) \in Seq(Nat) /\ Len(Front(ideal)) = n - 1
          /\ Front(own.sort) \in Seq(Nat) /\ Len(Front(own.sort)) = n - 1
          /\ \A i \in 1..(n - 1) : Front(ideal)[i] = ideal[i] /\ Front(own.sort)[i] = own.sort[i]
      <4>1. ASSUME NEW s \in Seq(Nat), Len(s) = n
            PROVE  Front(s) \in Seq(Nat) /\ Len(Front(s)) = n - 1 /\ \A i \in 1..(n - 1) : Front(s)[i] = s[i]
        <5>1. Len(s) > 0
          BY <4>1, <1>1, <2>2
        <5>2. QED
          BY <5>1, <4>1, FrontIs
      <4>2. QED
        BY <4>1, <1>1
    <3>3. ASSUME NEW i \in 1..(n - 1)
          PROVE  (\A j \in 1..i : Front(own.sort)[i] <= Front(ideal)[j]) /\ (\E j \in 1..i : Front(own.sort)[i] = Front(ideal)[j])
      <4>1. i \in 1..n /\ \A j \in 1..i : j \in 1..(n - 1)
        BY <1>1
      <4>2. QED
        BY <4>1, <3>2, <1>2
    <3>4. QED
      BY <3>1, <3>2, <3>3 DEF MinStackAgrees
  <2>3. QED
    BY <2>1, <2>2
<1>6. CASE Calls(MinTop(own), Result(ideal, DueTop(-1)))
  BY <1>6, <1>1 DEF Calls, MinTop, Result, DueTop
<1>7. CASE Calls(GetMin(own), Result(ideal, IF ideal = <<>> THEN -1 ELSE Least))
  <2>1. n > 0 => Least = Last(own.sort)
    <3>1. SUFFICES ASSUME n > 0 PROVE Least = own.sort[n]
      BY <1>1 DEF Last
    <3>2. n \in 1..n /\ ToSet(ideal) = {ideal[j] : j \in 1..n}
      BY <1>1, <3>1 DEF ToSet
    <3>3. own.sort[n] \in ToSet(ideal) /\ \A w \in ToSet(ideal) : own.sort[n] <= w
      BY <3>2, <1>2
    <3>4. ToSet(ideal) \subseteq Nat
      BY <1>1, <3>2
    <3>5. Least \in ToSet(ideal) /\ \A w \in ToSet(ideal) : Least <= w
      BY <3>3 DEF Least
    <3>6. QED
      BY <3>3, <3>4, <3>5
  <2>2. QED
    BY <1>7, <2>1, <1>1, <1>3 DEF Calls, GetMin, Result
<1>8. QED
  BY <1>4, <1>5, <1>6, <1>7 DEF CallMinStack

\* One element, and those of another sequence behind it.
LEMMA OneThenMore ==
  ASSUME NEW T, NEW a \in Seq(T), Len(a) = 1, NEW b \in Seq(T)
  PROVE  /\ a \o b \in Seq(T) /\ Len(a \o b) = 1 + Len(b)
         /\ (a \o b)[1] = a[1] /\ \A i \in 2..(1 + Len(b)) : (a \o b)[i] = b[i - 1]
<1>1. a \o b \in Seq(T) /\ Len(a \o b) = Len(a) + Len(b)
  BY ConcatProperties
<1>2. \A i \in 1..(Len(a) + Len(b)) : (a \o b)[i] = IF i <= Len(a) THEN a[i] ELSE b[i - Len(a)]
  BY ConcatProperties
<1>3. Len(b) \in Nat
  OBVIOUS
<1>4. QED
  BY <1>1, <1>2, <1>3

\* One turn of the queue brings the newest to the front; another brings it back.
LEMMA StackStep ==
  ASSUME NEW v \in DesignValues, StackAgrees(own, ideal), CallStack(v)
  PROVE  StackAgrees(own', ideal') /\ returned'.got = returned'.due
<1>1. v \in Nat /\ ideal \in Seq(Nat) /\ own = ideal
  BY DesignAssumption DEF StackAgrees
<1>2. CASE Calls(Result(Append(own, v), 0), Result(Append(ideal, v), 0))
  BY <1>1, <1>2 DEF Calls, Result, StackAgrees
<1>3. ASSUME ideal # <<>> PROVE StackPop(ideal) = Result(Front(ideal), Last(ideal))
  <2> DEFINE n == Len(ideal)
             turned == SubSeq(ideal, n, n) \o SubSeq(ideal, 1, n - 1)
  <2>1. n \in Nat \ {0} /\ n - 1 \in Nat
    BY <1>1, <1>3
  <2>2. Len(turned) = n /\ turned \in Seq(Nat) /\ turned[1] = ideal[n] /\ \A i \in 2..n : turned[i] = ideal[i - 1]
    <3>1. SubSeq(ideal, n, n) \in Seq(Nat) /\ Len(SubSeq(ideal, n, n)) = 1 /\ SubSeq(ideal, n, n)[1] = ideal[n]
      BY <1>1, <2>1, SubSeqProperties
    <3>2. /\ SubSeq(ideal, 1, n - 1) \in Seq(Nat) /\ Len(SubSeq(ideal, 1, n - 1)) = n - 1
          /\ \A i \in 1..(n - 1) : SubSeq(ideal, 1, n - 1)[i] = ideal[i]
      BY <1>1, <2>1, <1>3, FrontIs DEF Front
    <3> DEFINE a == SubSeq(ideal, n, n)
               b == SubSeq(ideal, 1, n - 1)
    <3>3. /\ a \in Seq(Nat) /\ Len(a) = 1 /\ a[1] = ideal[n]
          /\ b \in Seq(Nat) /\ Len(b) = n - 1 /\ \A i \in 1..(n - 1) : b[i] = ideal[i]
      BY <3>1, <3>2
    <3>4. turned = a \o b
      OBVIOUS
    <3> HIDE DEF n, turned, a, b
    <3>5. /\ a \o b \in Seq(Nat) /\ Len(a \o b) = 1 + Len(b)
          /\ (a \o b)[1] = a[1] /\ \A i \in 2..(1 + Len(b)) : (a \o b)[i] = b[i - 1]
      BY <3>3, OneThenMore
    <3>6. 1 + Len(b) = n
      BY <3>3, <2>1
    <3>7. ASSUME NEW i \in 2..n PROVE i - 1 \in 1..(n - 1)
      BY <2>1
    <3>8. ASSUME NEW i \in 2..n PROVE (a \o b)[i] = ideal[i - 1]
      BY <3>3, <3>5, <3>6, <3>7
    <3>9. QED
      BY <3>3, <3>4, <3>5, <3>6, <3>8
  <2> HIDE DEF turned
  <2>3. Head(turned) = Last(ideal)
    BY <2>1, <2>2 DEF Last
  <2>4. Tail(turned) = Front(ideal)
    <3>1. Tail(turned) \in Seq(Nat) /\ Len(Tail(turned)) = n - 1 /\ \A i \in 1..(n - 1) : Tail(turned)[i] = turned[i + 1]
      BY <2>1, <2>2
    <3>2. Front(ideal) \in Seq(Nat) /\ Len(Front(ideal)) = n - 1 /\ \A i \in 1..(n - 1) : Front(ideal)[i] = ideal[i]
      BY <1>1, <2>1, FrontIs
    <3>3. \A i \in 1..(n - 1) : turned[i + 1] = ideal[i]
      <4>1. ASSUME NEW i \in 1..(n - 1) PROVE i + 1 \in 2..n /\ (i + 1) - 1 = i
        BY <2>1
      <4>2. ASSUME NEW i \in 1..(n - 1) PROVE turned[i + 1] = ideal[(i + 1) - 1]
        BY <4>1, <2>2
      <4>3. QED
        BY <4>1, <4>2
    <3>4. \A i \in 1..(n - 1) : Tail(turned)[i] = Front(ideal)[i]
      BY <3>1, <3>2, <3>3
    <3>5. QED
      BY <3>1, <3>2, <3>4, SeqEqual
  <2>5. QED
    BY <2>3, <2>4 DEF StackPop, turned, n
<1>4. ASSUME ideal # <<>> PROVE Front(ideal) \in Seq(Nat) /\ Append(Front(ideal), Last(ideal)) = ideal
  <2> DEFINE n == Len(ideal)
  <2>1. n \in Nat \ {0} /\ n - 1 \in Nat
    BY <1>1, <1>4
  <2>2. Front(ideal) \in Seq(Nat) /\ Len(Front(ideal)) = n - 1 /\ \A i \in 1..(n - 1) : Front(ideal)[i] = ideal[i]
    BY <1>1, <2>1, FrontIs
  <2>3. Last(ideal) = ideal[n] /\ Last(ideal) \in Nat
    BY <1>1, <2>1 DEF Last
  <2> DEFINE s == Append(Front(ideal), Last(ideal))
  <2>4. s \in Seq(Nat) /\ Len(s) = n /\ \A i \in 1..n : s[i] = ideal[i]
    BY <2>1, <2>2, <2>3
  <2>5. QED
    BY <2>2, <2>4, <1>1, SeqEqual
<1>5. CASE ideal # <<>> /\ Calls(StackPop(own), Result(Front(ideal), Last(ideal)))
  BY <1>1, <1>3, <1>4, <1>5 DEF Calls, Result, StackAgrees
<1>6. CASE ideal # <<>> /\ Calls(StackTop(own), Result(ideal, Last(ideal)))
  BY <1>1, <1>3, <1>4, <1>6 DEF Calls, Result, StackTop, StackAgrees
<1>7. CASE Calls(Result(own, own = <<>>), Result(ideal, ideal = <<>>))
  BY <1>1, <1>7 DEF Calls, Result, StackAgrees
<1>8. QED
  BY <1>2, <1>5, <1>6, <1>7 DEF CallStack

\* A sequence turned round.
LEMMA ReverseIs ==
  ASSUME NEW T, NEW s \in Seq(T)
  PROVE  Reverse(s) \in Seq(T) /\ Len(Reverse(s)) = Len(s) /\ \A i \in 1..Len(s) : Reverse(s)[i] = s[Len(s) + 1 - i]
<1>1. \A i \in 1..Len(s) : (Len(s) - i) + 1 \in 1..Len(s) /\ (Len(s) - i) + 1 = Len(s) + 1 - i
  OBVIOUS
<1>2. Reverse(s) \in [1..Len(s) -> T]
  BY <1>1 DEF Reverse
<1>3. QED
  BY <1>1, <1>2, IsASeq DEF Reverse

\* What is pushed goes below, and comes out when what was moved over before has gone.
LEMMA QueueStep ==
  ASSUME NEW v \in DesignValues, QueueAgrees(own, ideal), CallQueue(v)
  PROVE  QueueAgrees(own', ideal') /\ returned'.got = returned'.due
<1> DEFINE n == Len(own.in)
           m == Len(own.out)
<1>1. /\ own.in \in Seq(DesignValues) /\ own.out \in Seq(DesignValues) /\ ideal \in Seq(DesignValues)
      /\ n \in Nat /\ m \in Nat /\ Len(ideal) = m + n /\ own = [in |-> own.in, out |-> own.out]
      /\ \A i \in 1..m : ideal[i] = own.out[m + 1 - i]
      /\ \A i \in 1..n : ideal[m + i] = own.in[i]
  BY DEF QueueAgrees
<1>2. (ideal = <<>> <=> m + n = 0) /\ (own.in = <<>> <=> n = 0) /\ (own.out = <<>> <=> m = 0)
  BY <1>1
<1>3. CASE Calls(Result([own EXCEPT !.in = Append(@, v)], 0), Result(Append(ideal, v), 0))
  <2> DEFINE s == Append(ideal, v)
             t == Append(own.in, v)
  <2>1. own' = [in |-> t, out |-> own.out] /\ ideal' = s /\ returned'.got = returned'.due
    BY <1>3, <1>1 DEF Calls, Result
  <2>2. /\ s \in Seq(DesignValues) /\ Len(s) = m + n + 1 /\ s[m + n + 1] = v /\ \A i \in 1..(m + n) : s[i] = ideal[i]
        /\ t \in Seq(DesignValues) /\ Len(t) = n + 1 /\ t[n + 1] = v /\ \A i \in 1..n : t[i] = own.in[i]
    BY <1>1, AppendIs
  <2> HIDE DEF s, t
  <2>3. \A i \in 1..m : s[i] = own.out[m + 1 - i]
    BY <2>2, <1>1
  <2>4. \A i \in 1..(n + 1) : s[m + i] = t[i]
    <3>1. \A i \in 1..n : s[m + i] = ideal[m + i] /\ t[i] = own.in[i]
      BY <2>2, <1>1
    <3>2. s[m + (n + 1)] = t[n + 1]
      BY <2>2, <1>1
    <3>3. \A i \in 1..(n + 1) : i \in 1..n \/ i = n + 1
      BY <1>1
    <3>4. QED
      BY <3>1, <3>2, <3>3, <2>2, <1>1
  <2>5. QED
    BY <2>1, <2>2, <2>3, <2>4, <1>1 DEF QueueAgrees
\* Looking at the front moves everything over, if need be.
<1>4. ASSUME ideal # <<>>
      PROVE  \E o : /\ Peek(own) = Result(o, ideal[1]) /\ QueueAgrees(o, ideal) /\ Len(o.out) > 0
                    /\ o = [in |-> o.in, out |-> o.out]
  <2>1. CASE own.out # <<>>
    <3>1. m > 0 /\ m \in 1..m /\ 1 \in 1..m
      BY <2>1, <1>1, <1>2
    <3>2. Last(own.out) = ideal[1]
      BY <3>1, <1>1 DEF Last
    <3>3. Peek(own) = Result(own, ideal[1])
      BY <2>1, <3>2 DEF Peek
    <3>4. QED
      BY <3>1, <3>3, <1>1
  <2>2. CASE own.out = <<>>
    <3> DEFINE r == Reverse(own.in)
    <3>1. m = 0 /\ n > 0 /\ n \in 1..n /\ 1 \in 1..n
      BY <2>2, <1>1, <1>2, <1>4
    <3>2. r \in Seq(DesignValues) /\ Len(r) = n /\ \A i \in 1..n : r[i] = own.in[n + 1 - i]
      BY <1>1, ReverseIs
    <3>3. Peek(own) = Result([in |-> <<>>, out |-> r], Last(r))
      BY <2>2, <3>1, <1>2 DEF Peek
    <3> HIDE DEF r
    <3>4. Last(r) = ideal[1]
      <4>1. n + 1 - n = 1 /\ m + 1 = 1
        BY <1>1, <3>1
      <4>2. r[n] = own.in[n + 1 - n]
        BY <3>1, <3>2
      <4>3. ideal[m + 1] = own.in[1]
        BY <1>1, <3>1
      <4>4. r[n] = ideal[1]
        BY <4>1, <4>2, <4>3
      <4> HIDE DEF n
      <4>5. QED
        BY <4>4, <3>2 DEF Last
    <3>5. ASSUME NEW i \in 1..n PROVE ideal[i] = r[n + 1 - i]
      <4>1. n + 1 - i \in 1..n /\ n + 1 - (n + 1 - i) = i /\ m + i = i
        BY <1>1, <3>1
      <4>2. QED
        BY <4>1, <3>2, <1>1
    <3>6. QueueAgrees([in |-> <<>>, out |-> r], ideal)
      <4> DEFINE o == [in |-> <<>>, out |-> r]
      <4>1. o.in = <<>> /\ o.out = r /\ o \in [in : Seq(DesignValues), out : Seq(DesignValues)]
        BY <3>2
      <4>2. Len(ideal) = Len(r) + 0 /\ Len(<<>>) = 0
        BY <3>1, <3>2, <1>1
      <4> HIDE DEF o
      <4>3. QueueAgrees(o, ideal)
        BY <3>2, <3>5, <4>1, <4>2, <1>1 DEF QueueAgrees
      <4>4. QED
        BY <4>3 DEF o
    <3>7. QED
      BY <3>1, <3>2, <3>3, <3>4, <3>6
  <2>3. QED
    BY <2>1, <2>2
<1>5. ideal = <<>> => Peek(own) = Result(own, -1)
  BY <1>1, <1>2 DEF Peek
<1>6. CASE Calls(Peek(own), Result(ideal, DueFirst(-1)))
  <2>1. CASE ideal = <<>>
    BY <2>1, <1>5, <1>6 DEF Calls, Result, DueFirst
  <2>2. CASE ideal # <<>>
    <3>1. PICK o : Peek(own) = Result(o, ideal[1]) /\ QueueAgrees(o, ideal)
      BY <2>2, <1>4
    <3>2. own' = o /\ ideal' = ideal /\ returned'.got = ideal[1] /\ returned'.due = Head(ideal)
      BY <2>2, <3>1, <1>6 DEF Calls, Result, DueFirst
    <3>3. QED
      BY <3>1, <3>2, <2>2, <1>1
  <2>3. QED
    BY <2>1, <2>2
<1>7. CASE Calls(QueuePop(own), Result(DueRest, DueFirst(-1)))
  <2>1. CASE ideal = <<>>
    BY <2>1, <1>5, <1>7 DEF Calls, Result, DueFirst, DueRest, QueuePop
  <2>2. CASE ideal # <<>>
    <3>1. PICK o : Peek(own) = Result(o, ideal[1]) /\ QueueAgrees(o, ideal) /\ Len(o.out) > 0 /\ o = [in |-> o.in, out |-> o.out]
      BY <2>2, <1>4
    <3>2. ideal[1] # -1 /\ Head(ideal) = ideal[1]
      <4>1. Len(ideal) > 0 /\ ideal[1] \in DesignValues
        BY <1>1, <1>2, <2>2
      <4>2. QED
        BY <4>1, <1>1, DesignAssumption
    <3>3. QueuePop(own) = Result([in |-> o.in, out |-> Front(o.out)], ideal[1])
      BY <3>1, <3>2 DEF QueuePop, Result
    <3>4. own' = [in |-> o.in, out |-> Front(o.out)] /\ ideal' = Tail(ideal) /\ returned'.got = returned'.due
      BY <2>2, <3>2, <3>3, <1>7 DEF Calls, Result, DueFirst, DueRest
    <3> DEFINE p == Len(o.out)
               k == Len(o.in)
    <3>5. /\ o.in \in Seq(DesignValues) /\ o.out \in Seq(DesignValues) /\ Len(ideal) = p + k /\ p \in Nat /\ k \in Nat /\ p > 0
          /\ \A i \in 1..p : ideal[i] = o.out[p + 1 - i]
          /\ \A i \in 1..k : ideal[p + i] = o.in[i]
      <4>1. QueueAgrees(o, ideal) /\ p > 0
        BY <3>1
      <4>2. o \in [in : Seq(DesignValues), out : Seq(DesignValues)]
        BY <4>1 DEF QueueAgrees
      <4>3. o.in \in Seq(DesignValues) /\ o.out \in Seq(DesignValues)
        BY <4>2
      <4>4. p \in Nat /\ k \in Nat
        BY <4>3
      <4>5. QED
        BY <4>1, <4>3, <4>4 DEF QueueAgrees
    <3>6. Front(o.out) \in Seq(DesignValues) /\ Len(Front(o.out)) = p - 1 /\ \A i \in 1..(p - 1) : Front(o.out)[i] = o.out[i]
      <4>1. o.out \in Seq(DesignValues) /\ Len(o.out) > 0
        BY <3>5
      <4>2. QED
        BY <4>1, FrontIs
    <3>7. Tail(ideal) \in Seq(DesignValues) /\ Len(Tail(ideal)) = p + k - 1 /\ \A i \in 1..(p + k - 1) : Tail(ideal)[i] = ideal[i + 1]
      <4>1. Len(ideal) > 0 /\ Len(ideal) - 1 = p + k - 1 /\ ideal \in Seq(DesignValues)
        <5>1. ideal \in Seq(DesignValues)
          BY <1>1
        <5>2. Len(ideal) = p + k /\ p \in Nat /\ k \in Nat /\ p > 0
          BY <3>5
        <5> HIDE DEF p, k
        <5>3. QED
          BY <5>1, <5>2
      <4> HIDE DEF p, k
      <4>2. QED
        BY <4>1, TailIs
    <3> HIDE DEF p, k
    <3>8. ASSUME NEW i \in 1..(p - 1) PROVE Tail(ideal)[i] = Front(o.out)[p - 1 + 1 - i]
      <4>1. i + 1 \in 1..p /\ p + 1 - (i + 1) = p - i /\ p - i \in 1..(p - 1) /\ i \in 1..(p + k - 1) /\ p - 1 + 1 - i = p - i
        BY <3>5
      <4>2. QED
        BY <4>1, <3>5, <3>6, <3>7
    <3>9. ASSUME NEW i \in 1..k PROVE Tail(ideal)[p - 1 + i] = o.in[i]
      <4>1. p - 1 + i \in 1..(p + k - 1) /\ p - 1 + i + 1 = p + i
        BY <3>5
      <4>2. QED
        BY <4>1, <3>5, <3>7
    <3>10. p + k - 1 = (p - 1) + k
      BY <3>5
    <3>11. QED
      BY <3>4, <3>5, <3>6, <3>7, <3>8, <3>9, <3>10 DEF QueueAgrees, p, k
  <2>3. QED
    BY <2>1, <2>2
<1>8. QED
  BY <1>3, <1>6, <1>7 DEF CallQueue

\* What makes the array and the map of a set agree with its elements.
LEMMA SetIs ==
  ASSUME NEW s \in Seq(DesignValues), NEW mp \in [DesignValues -> Nat], NEW n, DOMAIN s = 1..n,
         \A w \in DesignValues : mp[w] # 0 => mp[w] \in 1..n /\ s[mp[w]] = w,
         \A i \in 1..n : mp[s[i]] = i
  PROVE  SetAgrees([nums |-> s, maps |-> mp], {s[i] : i \in 1..n})
<1> DEFINE o == [nums |-> s, maps |-> mp]
<1>1. o \in [nums : Seq(DesignValues), maps : [DesignValues -> Nat]] /\ o.nums = s /\ o.maps = mp
  OBVIOUS
<1> HIDE DEF o
<1>2. SetAgrees(o, {s[i] : i \in 1..n})
  BY <1>1 DEF SetAgrees, ToSet
<1>3. QED
  BY <1>2 DEF o

\* A value enters at the end; the last takes the place of one that leaves.
LEMMA SetStep ==
  ASSUME NEW v \in DesignValues, SetAgrees(own, ideal), CallSet(v)
  PROVE  SetAgrees(own', ideal') /\ returned'.got = returned'.due
<1> DEFINE n == Len(own.nums)
<1>1. /\ own.nums \in Seq(DesignValues) /\ own.maps \in [DesignValues -> Nat] /\ own = [nums |-> own.nums, maps |-> own.maps]
      /\ n \in Nat /\ DOMAIN own.nums = 1..n /\ \A i \in 1..n : own.nums[i] \in DesignValues
  BY DEF SetAgrees
<1>2. /\ ideal = {own.nums[i] : i \in 1..n}
      /\ \A w \in DesignValues : own.maps[w] # 0 => own.maps[w] \in 1..n /\ own.nums[own.maps[w]] = w
      /\ \A i \in 1..n : own.maps[own.nums[i]] = i
  BY <1>1 DEF SetAgrees, ToSet
<1>3. \A w \in DesignValues : w \in ideal <=> own.maps[w] # 0
  BY <1>1, <1>2
<1>4. CASE Calls(SetInsert(own, v), Result(ideal \cup {v}, v \notin ideal))
  <2>1. CASE own.maps[v] # 0
    BY <2>1, <1>3, <1>4 DEF Calls, SetInsert, Result, None0
  <2>2. CASE own.maps[v] = 0
    <3> DEFINE s == Append(own.nums, v)
               mp == [own.maps EXCEPT ![v] = n + 1]
    <3>1. own' = [nums |-> s, maps |-> mp] /\ ideal' = ideal \cup {v} /\ returned'.got = returned'.due
      BY <2>2, <1>3, <1>4 DEF Calls, SetInsert, Result, None0
    <3>2. s \in Seq(DesignValues) /\ Len(s) = n + 1 /\ s[n + 1] = v /\ \A i \in 1..n : s[i] = own.nums[i]
      BY <1>1, AppendIs
    <3>3. mp \in [DesignValues -> Nat] /\ mp[v] = n + 1 /\ \A w \in DesignValues : w # v => mp[w] = own.maps[w]
      BY <1>1
    <3> HIDE DEF s, mp
    <3>4. DOMAIN s = 1..(n + 1) /\ \A i \in 1..(n + 1) : i \in 1..n \/ i = n + 1
      BY <3>2, <1>1
    <3>5. \A i \in 1..n : own.nums[i] # v
      BY <2>2, <1>1, <1>2
    <3>6. ASSUME NEW w \in DesignValues, mp[w] # 0 PROVE mp[w] \in 1..(n + 1) /\ s[mp[w]] = w
      <4>1. CASE w = v
        BY <4>1, <3>2, <3>3, <1>1
      <4>2. CASE w # v
        <5>1. mp[w] \in 1..n /\ own.nums[mp[w]] = w
          BY <4>2, <3>3, <3>6, <1>2
        <5>2. QED
          BY <5>1, <3>2, <1>1
      <4>3. QED
        BY <4>1, <4>2
    <3>7. ASSUME NEW i \in 1..(n + 1) PROVE mp[s[i]] = i
      <4>1. CASE i \in 1..n
        <5>1. s[i] = own.nums[i] /\ s[i] # v /\ s[i] \in DesignValues /\ own.maps[s[i]] = i
          BY <4>1, <3>2, <3>5, <1>1, <1>2
        <5>2. QED
          BY <5>1, <3>3
      <4>2. CASE i = n + 1
        BY <4>2, <3>2, <3>3
      <4>3. QED
        BY <4>1, <4>2, <3>4
    <3>8. ideal \cup {v} = {s[i] : i \in 1..(n + 1)}
      <4>1. 1..n \subseteq 1..(n + 1) /\ n + 1 \in 1..(n + 1)
        BY <1>1
      <4>2. QED
        BY <4>1, <3>2, <3>4, <1>2
    <3>9. QED
      <4>1. SetAgrees([nums |-> s, maps |-> mp], {s[i] : i \in 1..(n + 1)})
        BY <3>2, <3>3, <3>4, <3>6, <3>7, SetIs
      <4>2. QED
        BY <3>1, <3>8, <4>1
  <2>3. QED
    BY <2>1, <2>2
<1>5. CASE Calls(SetRemove(own, v), Result(ideal \ {v}, v \in ideal))
  <2>1. CASE own.maps[v] = 0
    <3>1. ideal \ {v} = ideal
      BY <2>1, <1>3
    <3>2. SetRemove(own, v) = Result(own, FALSE)
      BY <2>1 DEF SetRemove, None0
    <3>3. v \notin ideal
      BY <2>1, <1>3
    <3>4. own' = own /\ ideal' = ideal /\ returned'.got = FALSE /\ returned'.due = (v \in ideal)
      BY <3>1, <3>2, <1>5 DEF Calls, Result
    <3>5. (v \in ideal) = FALSE
      BY <3>3
    <3>6. QED
      BY <3>4, <3>5
  <2>2. CASE own.maps[v] # 0
    <3> DEFINE index == own.maps[v]
               last == Last(own.nums)
               t == [own.nums EXCEPT ![index] = last]
               s == Front(t)
               mp == [[own.maps EXCEPT ![last] = index] EXCEPT ![v] = 0]
    <3>1. own' = [nums |-> s, maps |-> mp] /\ ideal' = ideal \ {v} /\ returned'.got = returned'.due
      BY <2>2, <1>3, <1>5 DEF Calls, SetRemove, Result, None0
    <3>2. index \in 1..n /\ own.nums[index] = v /\ n > 0 /\ n - 1 \in Nat /\ n \in 1..n
      BY <2>2, <1>1, <1>2
    <3>3. last = own.nums[n] /\ last \in DesignValues /\ own.maps[last] = n
      BY <3>2, <1>1, <1>2 DEF Last
    <3>4. t \in Seq(DesignValues) /\ Len(t) = n /\ \A i \in 1..n : t[i] = IF i = index THEN last ELSE own.nums[i]
      BY <3>2, <3>3, <1>1
    <3> HIDE DEF t
    <3>5. s \in Seq(DesignValues) /\ Len(s) = n - 1 /\ \A i \in 1..(n - 1) : s[i] = t[i]
      BY <3>2, <3>4, FrontIs
    <3> HIDE DEF s
    <3>6. /\ mp \in [DesignValues -> Nat] /\ mp[v] = 0 /\ (last # v => mp[last] = index)
          /\ \A w \in DesignValues : w # v /\ w # last => mp[w] = own.maps[w]
      BY <3>2, <3>3, <1>1
    <3> HIDE DEF mp, last, index
    <3>7. DOMAIN s = 1..(n - 1) /\ 1..(n - 1) \subseteq 1..n /\ \A i \in 1..n : i \in 1..(n - 1) \/ i = n
      BY <3>2, <3>5, <1>1
    <3>8. last = v <=> index = n
      BY <3>2, <3>3, <1>2 DEF index
    <3>9. \A i \in 1..(n - 1) : s[i] = IF i = index THEN last ELSE own.nums[i]
      BY <3>4, <3>5, <3>7
    <3>10. ASSUME NEW w \in DesignValues, mp[w] # 0 PROVE mp[w] \in 1..(n - 1) /\ s[mp[w]] = w
      <4>1. w # v
        BY <3>10, <3>6
      <4>2. CASE w = last
        BY <4>1, <4>2, <3>2, <3>6, <3>7, <3>8, <3>9
      <4>3. CASE w # last
        <5>1. mp[w] = own.maps[w] /\ mp[w] \in 1..n /\ own.nums[mp[w]] = w
          BY <4>1, <4>3, <3>6, <3>10, <1>2
        <5>2. mp[w] # n /\ mp[w] # index
          BY <5>1, <4>1, <4>3, <3>2, <3>3
        <5>3. QED
          BY <5>1, <5>2, <3>7, <3>9
      <4>4. QED
        BY <4>2, <4>3
    <3>11. ASSUME NEW i \in 1..(n - 1) PROVE mp[s[i]] = i /\ s[i] \in ideal /\ s[i] # v
      <4>1. i \in 1..n /\ i # n
        BY <3>2, <3>7
      <4>2. CASE i = index
        BY <4>1, <4>2, <3>2, <3>3, <3>6, <3>8, <3>9, <1>2
      <4>3. CASE i # index
        <5>1. s[i] = own.nums[i] /\ own.maps[s[i]] = i /\ s[i] \in DesignValues /\ s[i] \in ideal
          BY <4>1, <4>3, <3>9, <1>1, <1>2
        <5>2. s[i] # v /\ s[i] # last
          BY <5>1, <4>1, <4>3, <3>3 DEF index
        <5>3. QED
          BY <5>1, <5>2, <3>6
      <4>4. QED
        BY <4>2, <4>3
    <3>12. ideal \ {v} = {s[i] : i \in 1..(n - 1)}
      <4>1. ASSUME NEW w \in ideal, w # v PROVE w \in {s[i] : i \in 1..(n - 1)}
        <5>1. w \in DesignValues /\ mp[w] # 0
          <6>1. PICK k \in 1..n : w = own.nums[k]
            BY <1>2
          <6>2. w \in DesignValues /\ own.maps[w] = k /\ k # 0
            BY <6>1, <1>1, <1>2
          <6>3. QED
            BY <6>2, <4>1, <3>2, <3>6
        <5>2. QED
          BY <5>1, <3>10
      <4>2. QED
        BY <4>1, <3>11
    <3>13. QED
      <4>1. SetAgrees([nums |-> s, maps |-> mp], {s[i] : i \in 1..(n - 1)})
        BY <3>5, <3>6, <3>7, <3>10, <3>11, SetIs
      <4>2. QED
        BY <3>1, <3>12, <4>1
  <2>3. QED
    BY <2>1, <2>2
<1>6. CASE \E k \in DOMAIN own.nums : Calls(Result(own, own.nums[k] \in ideal), Result(ideal, TRUE))
  <2>1. PICK k \in 1..n : Calls(Result(own, own.nums[k] \in ideal), Result(ideal, TRUE))
    BY <1>1, <1>6
  <2>2. own.nums[k] \in ideal
    BY <1>2
  <2>3. QED
    BY <2>1, <2>2 DEF Calls, Result
<1>7. QED
  BY <1>4, <1>5, <1>6 DEF CallSet

\* What stands for the last cell takes the place of what was drawn.
LEMMA FlipStep ==
  ASSUME FlipAgrees(own, ideal), CallFlip
  PROVE  FlipAgrees(own', ideal') /\ returned'.got = returned'.due
<1>1. /\ own.total \in 0..4 /\ own.map \in [Cells -> Cells \cup {-1}] /\ own = [total |-> own.total, map |-> own.map] /\ ideal \subseteq Cells
      /\ \A c \in Cells : c < own.total => Stands(own, c) \in Cells \ ideal
      /\ \A c, d \in Cells : c < own.total /\ d < own.total /\ Stands(own, c) = Stands(own, d) => c = d
  BY DEF FlipAgrees
<1>2. ASSUME own.total > 0, NEW x \in 0..(own.total - 1),
             Calls([Flip(own, x) EXCEPT !.out = @ \in Cells \ ideal], Result(ideal \cup {Flip(own, x).out}, TRUE))
      PROVE  FlipAgrees(own', ideal') /\ returned'.got = returned'.due
  <2> DEFINE total == own.total - 1
             last == Stands(own, total)
             mp == [own.map EXCEPT ![x] = last]
             o == [total |-> total, map |-> mp]
             y == Stands(own, x)
  <2>1. total \in 0..4 /\ total \in Cells /\ x \in Cells /\ x < own.total /\ total < own.total
    BY <1>1, <1>2 DEF Cells
  <2>2. last \in Cells \ ideal /\ y \in Cells \ ideal
    BY <1>1, <2>1
  <2>3. mp \in [Cells -> Cells \cup {-1}] /\ mp[x] = last /\ \A c \in Cells : c # x => mp[c] = own.map[c]
    BY <1>1, <2>1, <2>2
  <2>4. Flip(own, x) = Result(o, y)
    BY DEF Flip, Stands
  <2>5. own' = o /\ ideal' = ideal \cup {y} /\ returned'.got = returned'.due
    <3>1. Flip(own, x).out = y /\ [Flip(own, x) EXCEPT !.out = @ \in Cells \ ideal] = [own |-> o, out |-> y \in Cells \ ideal]
      BY <2>4 DEF Result
    <3>2. own' = o /\ ideal' = ideal \cup {y} /\ returned'.got = (y \in Cells \ ideal) /\ returned'.due = TRUE
      BY <1>2, <3>1 DEF Calls, Result
    <3>3. QED
      BY <3>2, <2>2
  <2>6. \A c \in Cells : Stands(o, c) = IF c = x THEN last ELSE Stands(own, c)
    <3>1. last # -1
      BY <2>2 DEF Cells
    <3>2. QED
      BY <2>3, <3>1 DEF Stands
  <2>7. o \in [total : 0..4, map : [Cells -> Cells \cup {-1}]] /\ o.total = total
    BY <2>1, <2>3
  <2>8. \A c \in Cells : c < total => c < own.total /\ c # total
    BY <2>1 DEF Cells
  <2> HIDE DEF o, total, y, last
  <2>9. ASSUME NEW c \in Cells, c < total PROVE Stands(o, c) \in Cells \ (ideal \cup {y})
    <3>1. c < own.total /\ c # total
      BY <2>8, <2>9
    <3>2. CASE c = x
      <4>1. last # y
        BY <3>1, <3>2, <2>1, <1>1 DEF last, y
      <4>2. QED
        BY <3>2, <4>1, <2>2, <2>6
    <3>3. CASE c # x
      <4>1. Stands(own, c) # y
        BY <3>1, <3>3, <2>1, <1>1 DEF y
      <4>2. QED
        BY <3>1, <3>3, <4>1, <2>6, <1>1
    <3>4. QED
      BY <3>2, <3>3
  <2>10. ASSUME NEW c \in Cells, NEW d \in Cells, c < total, d < total, Stands(o, c) = Stands(o, d) PROVE c = d
    <3>1. c < own.total /\ c # total /\ d < own.total /\ d # total
      BY <2>8, <2>10
    <3>2. QED
      BY <3>1, <2>1, <2>6, <2>10, <1>1 DEF last
  <2>11. ideal \cup {y} \subseteq Cells
    BY <1>1, <2>2
  <2>12. QED
    BY <2>5, <2>7, <2>9, <2>10, <2>11 DEF FlipAgrees
<1>3. CASE Calls(Result(Empty.flip, TRUE), Result({}, TRUE))
  <2>1. own' = [total |-> 4, map |-> [c \in Cells |-> -1]] /\ ideal' = {} /\ returned'.got = returned'.due
    BY <1>3 DEF Calls, Result, Empty
  <2>2. FlipAgrees([total |-> 4, map |-> [c \in Cells |-> -1]], {})
    BY DEF FlipAgrees, Stands, Cells
  <2>3. QED
    BY <2>1, <2>2
<1>4. QED
  BY <1>2, <1>3 DEF CallFlip

\* A node is the parent of twice its number and of one more.
LEMMA HalfIs ==
  ASSUME NEW n \in Nat, NEW h \in Nat, n = 2 * h \/ n = 2 * h + 1
  PROVE  n \div 2 = h
OBVIOUS

\* Half of a number, rounded down.
LEMMA HalfOf ==
  ASSUME NEW n \in Nat
  PROVE  n \div 2 \in Nat /\ (n = 2 * (n \div 2) \/ n = 2 * (n \div 2) + 1)
OBVIOUS

\* The next node is a child of the first in the queue, which leaves with its second child.
LEMMA TreeStep ==
  ASSUME TreeAgrees(own, ideal), CallTree
  PROVE  TreeAgrees(own', ideal') /\ returned'.got = returned'.due
<1> DEFINE n == ideal
           p == (n + 1) \div 2
           q == own.que_
<1>1. /\ DesignBound \in Nat /\ n \in Nat /\ n > 0 /\ n + 1 \in TreeNodes /\ n \in TreeNodes
      /\ p \in Nat /\ (n + 1 = 2 * p \/ n + 1 = 2 * p + 1)
  <2>1. DesignBound \in Nat /\ n \in 1..(DesignBound + 1) /\ n <= DesignBound
    BY DesignAssumption DEF TreeAgrees, CallTree, TreeNodes
  <2>2. n + 1 \in Nat
    BY <2>1
  <2>3. p \in Nat /\ (n + 1 = 2 * p \/ n + 1 = 2 * p + 1)
    BY <2>2, HalfOf
  <2> HIDE DEF p
  <2>4. QED
    BY <2>1, <2>3 DEF TreeNodes
<1>2. p > 0 /\ p <= n /\ p \in TreeNodes
  BY <1>1 DEF TreeNodes
<1>3. /\ own.left \in [TreeNodes -> Nat] /\ own.right \in [TreeNodes -> Nat] /\ q \in Seq(TreeNodes) /\ own.count = n
      /\ own = [left |-> own.left, right |-> own.right, que_ |-> q, count |-> n]
      /\ Len(q) = n + 1 - p /\ \A i \in 1..(n + 1 - p) : q[i] = p + i - 1
      /\ \A k \in TreeNodes : own.left[k] # 0 <=> 2 * k <= n
  BY DEF TreeAgrees
<1> HIDE DEF p
<1>4. Len(q) > 0 /\ Head(q) = p
  <2>1. n + 1 - p \in Nat /\ n + 1 - p > 0 /\ 1 \in 1..(n + 1 - p) /\ p + 1 - 1 = p
    BY <1>1, <1>2
  <2>2. QED
    BY <2>1, <1>3
<1>5. Calls(InsertLevel(own), Result(n + 1, p)) /\ own.left[p] \in Nat
  BY <1>2, <1>3 DEF CallTree, p
<1> DEFINE s == Append(q, n + 1)
<1>6. s \in Seq(TreeNodes) /\ Len(s) = n + 1 - p + 1 /\ \A i \in 1..(n + 1 - p + 1) : s[i] = p + i - 1
  <2>1. s \in Seq(TreeNodes) /\ Len(s) = Len(q) + 1 /\ s[Len(q) + 1] = n + 1 /\ \A i \in 1..Len(q) : s[i] = q[i]
    <3>1. q \in Seq(TreeNodes) /\ n + 1 \in TreeNodes
      BY <1>1, <1>3
    <3> HIDE DEF q, n
    <3>2. QED
      BY <3>1, AppendIs
  <2> HIDE DEF s
  <2>2. ASSUME NEW i \in 1..(n + 1 - p + 1) PROVE s[i] = p + i - 1
    <3>1. CASE i = n + 1 - p + 1
      <4>1. p + i - 1 = n + 1
        BY <3>1, <1>1
      <4>2. i = Len(q) + 1
        BY <3>1, <1>3
      <4>3. QED
        BY <4>1, <4>2, <2>1
    <3>2. CASE i # n + 1 - p + 1
      <4>1. i \in 1..(n + 1 - p)
        BY <3>2, <1>1, <1>2
      <4>2. QED
        BY <4>1, <2>1, <1>3
    <3>3. QED
      BY <3>1, <3>2
  <2>3. QED
    BY <2>1, <2>2, <1>3
<1>7. CASE own.left[p] = 0
  <2> DEFINE o == [left |-> [own.left EXCEPT ![p] = n + 1], right |-> own.right, que_ |-> s, count |-> n + 1]
  <2>1. own' = o /\ ideal' = n + 1 /\ returned'.got = returned'.due
    <3>1. InsertLevel(own) = Result(o, p)
      <4>1. own.que_ = q /\ own.count = n
        BY <1>3
      <4>2. QED
        BY <4>1, <1>3, <1>4, <1>7 DEF InsertLevel, None0
    <3>2. QED
      BY <3>1, <1>5 DEF Calls, Result
  <2>2. n + 1 = 2 * p /\ (n + 1 + 1) \div 2 = p
    <3>1. n + 1 = 2 * p
      BY <1>1, <1>2, <1>3, <1>7
    <3>2. QED
      BY <3>1, <1>1, HalfIs
  <2>3. \A k \in TreeNodes : o.left[k] # 0 <=> 2 * k <= n + 1
    <3>1. ASSUME NEW k \in TreeNodes PROVE o.left[k] # 0 <=> 2 * k <= n + 1
      <4>1. CASE k = p
        BY <4>1, <1>1, <1>2, <1>3, <2>2
      <4>2. CASE k # p
        <5>1. o.left[k] = own.left[k]
          BY <4>2, <1>3
        <5>2. 2 * k <= n + 1 <=> 2 * k <= n
          BY <4>2, <1>1, <2>2 DEF TreeNodes
        <5>3. QED
          BY <5>1, <5>2, <1>3
      <4>3. QED
        BY <4>1, <4>2
    <3>2. QED
      BY <3>1
  <2>4. o \in [left : [TreeNodes -> Nat], right : [TreeNodes -> Nat], que_ : Seq(TreeNodes), count : TreeNodes]
    <3>1. s \in Seq(TreeNodes) /\ n + 1 \in TreeNodes /\ n + 1 \in Nat /\ own.left \in [TreeNodes -> Nat] /\ own.right \in [TreeNodes -> Nat]
      <4>1. s \in Seq(TreeNodes)
        BY <1>6
      <4>2. n + 1 \in TreeNodes /\ n + 1 \in Nat
        BY <1>1
      <4>3. own.left \in [TreeNodes -> Nat] /\ own.right \in [TreeNodes -> Nat]
        BY <1>3
      <4>4. QED
        BY <4>1, <4>2, <4>3
    <3> HIDE DEF s
    <3>2. QED
      BY <3>1
  <2>5. o.count = n + 1 /\ o.que_ = s /\ n + 1 - p + 1 = n + 1 + 1 - p
    BY <1>1
  <2> HIDE DEF o, s
  <2>6. TreeAgrees(o, n + 1)
    BY <2>2, <2>3, <2>4, <2>5, <1>6 DEF TreeAgrees
  <2>7. QED
    BY <2>1, <2>6
<1>8. CASE own.left[p] # 0
  <2> DEFINE r == Append(Tail(q), n + 1)
             o == [left |-> own.left, right |-> [own.right EXCEPT ![p] = n + 1], que_ |-> r, count |-> n + 1]
  <2>1. own' = o /\ ideal' = n + 1 /\ returned'.got = returned'.due
    <3>1. InsertLevel(own) = Result(o, p)
      <4>1. own.que_ = q /\ own.count = n
        BY <1>3
      <4>2. QED
        BY <4>1, <1>3, <1>4, <1>8 DEF InsertLevel, None0
    <3>2. QED
      BY <3>1, <1>5 DEF Calls, Result
  <2>2. n = 2 * p /\ (n + 1 + 1) \div 2 = p + 1
    <3>1. n = 2 * p
      <4>1. 2 * p <= n
        BY <1>2, <1>3, <1>8
      <4>2. QED
        BY <4>1, <1>1
    <3>2. n + 1 + 1 = 2 * (p + 1) /\ p + 1 \in Nat /\ n + 1 + 1 \in Nat
      BY <3>1, <1>1
    <3>3. QED
      BY <3>1, <3>2, HalfIs
  <2>3. \A k \in TreeNodes : o.left[k] # 0 <=> 2 * k <= n + 1
    <3>1. \A k \in TreeNodes : 2 * k <= n + 1 <=> 2 * k <= n
      BY <1>1, <2>2 DEF TreeNodes
    <3>2. QED
      BY <3>1, <1>3
  <2>4. r \in Seq(TreeNodes) /\ Len(r) = n + 1 - p /\ \A i \in 1..(n + 1 - p) : r[i] = p + 1 + i - 1
    <3>1. Tail(q) \in Seq(TreeNodes) /\ Len(Tail(q)) = n - p /\ \A i \in 1..(n - p) : Tail(q)[i] = q[i + 1]
      <4>1. Len(q) - 1 = n - p
        BY <1>1, <1>2, <1>3
      <4>2. QED
        BY <4>1, <1>3, <1>4, TailIs
    <3>2. r \in Seq(TreeNodes) /\ Len(r) = n - p + 1 /\ r[n - p + 1] = n + 1 /\ \A i \in 1..(n - p) : r[i] = Tail(q)[i]
      BY <3>1, <1>1, AppendIs
    <3> HIDE DEF r
    <3>3. ASSUME NEW i \in 1..(n + 1 - p) PROVE r[i] = p + 1 + i - 1
      <4>1. CASE i = n - p + 1
        BY <4>1, <3>2, <1>1, <1>2
      <4>2. CASE i # n - p + 1
        <5>1. i \in 1..(n - p) /\ i + 1 \in 1..(n + 1 - p) /\ p + (i + 1) - 1 = p + 1 + i - 1
          BY <4>2, <1>1, <1>2
        <5>2. QED
          BY <5>1, <3>1, <3>2, <1>3
      <4>3. QED
        BY <4>1, <4>2
    <3>4. n - p + 1 = n + 1 - p
      BY <1>1
    <3>5. QED
      BY <3>2, <3>3, <3>4
  <2> HIDE DEF r
  <2>5. o \in [left : [TreeNodes -> Nat], right : [TreeNodes -> Nat], que_ : Seq(TreeNodes), count : TreeNodes]
    <3>1. r \in Seq(TreeNodes) /\ n + 1 \in TreeNodes /\ n + 1 \in Nat /\ own.left \in [TreeNodes -> Nat] /\ own.right \in [TreeNodes -> Nat]
      <4>1. r \in Seq(TreeNodes)
        BY <2>4
      <4>2. n + 1 \in TreeNodes /\ n + 1 \in Nat
        BY <1>1
      <4>3. own.left \in [TreeNodes -> Nat] /\ own.right \in [TreeNodes -> Nat]
        BY <1>3
      <4>4. QED
        BY <4>1, <4>2, <4>3
    <3>2. QED
      BY <3>1
  <2>6. o.count = n + 1 /\ o.que_ = r /\ n + 1 - p = n + 1 + 1 - (p + 1)
    BY <1>1
  <2> HIDE DEF o
  <2>7. TreeAgrees(o, n + 1)
    BY <2>2, <2>3, <2>4, <2>5, <2>6 DEF TreeAgrees
  <2>8. QED
    BY <2>1, <2>7
<1>9. QED
  BY <1>7, <1>8

\* As many elements as places, if no two are the same.
LEMMA DistinctCount ==
  ASSUME NEW n \in Nat, NEW f, DOMAIN f = 1..n, f = [i \in 1..n |-> f[i]],
         \A i, j \in 1..n : f[i] = f[j] => i = j,
         NEW S, S = {f[i] : i \in 1..n}
  PROVE  IsFiniteSet(S) /\ Cardinality(S) = n
<1>1. f \in Bijection(1..n, S)
  <2>1. f \in [1..n -> S]
    OBVIOUS
  <2>2. \A y \in S : \E i \in 1..n : f[i] = y
    OBVIOUS
  <2>3. QED
    BY <2>1, <2>2 DEF Bijection, Injection, Surjection, IsInjective
<1>2. IsFiniteSet(1..n) /\ Cardinality(1..n) = n
  <2>1. 1 \in Int /\ n \in Int
    OBVIOUS
  <2>2. IsFiniteSet(1..n) /\ Cardinality(1..n) = (IF 1 > n THEN 0 ELSE n - 1 + 1)
    BY <2>1, FS_Interval
  <2>3. (IF 1 > n THEN 0 ELSE n - 1 + 1) = n
    OBVIOUS
  <2>4. QED
    BY <2>2, <2>3
<1>3. IsFiniteSet(S) /\ Cardinality(S) = Cardinality(1..n)
  BY <1>1, <1>2, FS_Bijection DEF ExistsBijection
<1>4. QED
  BY <1>2, <1>3

\* The number that a new node gets is not in use, and small.
LEMMA FirstFreeIs ==
  ASSUME NEW used, IsFiniteSet(used)
  PROVE  /\ Cardinality(used) \in Nat /\ FirstFree(used) \in 1..(Cardinality(used) + 1)
         /\ FirstFree(used) \in Nat \ {0} /\ FirstFree(used) \notin used
<1> DEFINE c == Cardinality(used)
           T == {x \in Nat : x \in 1..(c + 1) /\ x \notin used}
<1>1. c \in Nat
  BY FS_CardinalityType
<1>2. T # {}
  <2> SUFFICES ASSUME T = {} PROVE FALSE
    OBVIOUS
  <2>1. 1..(c + 1) \in SUBSET used
    BY <1>1
  <2>2. Cardinality(1..(c + 1)) <= c
    BY <2>1, FS_Subset
  <2>3. Cardinality(1..(c + 1)) = c + 1
    <3>1. 1 \in Int /\ c + 1 \in Int /\ ~ (1 > c + 1) /\ c + 1 - 1 + 1 = c + 1
      BY <1>1
    <3> HIDE DEF c
    <3>2. QED
      BY <3>1, FS_Interval
  <2>4. QED
    BY <2>2, <2>3, <1>1
<1>3. PICK m \in T : \A k \in T : m <= k
  BY <1>2, LeastOf
<1>4. m \in 1..(c + 1) /\ m \notin used /\ \A y \in 1..(m - 1) : y \in used
  <2>1. ASSUME NEW y \in 1..(m - 1), y \notin used PROVE FALSE
    <3>1. y \in T /\ ~ (m <= y)
      BY <2>1, <1>1
    <3>2. QED
      BY <3>1, <1>3
  <2>2. QED
    BY <2>1, <1>3
<1>5. FirstFree(used) \in 1..(c + 1) /\ FirstFree(used) \notin used
  <2> HIDE DEF c
  <2>1. QED
    BY <1>4 DEF FirstFree, c
<1>6. QED
  BY <1>1, <1>5

\* A sequence without one element, and with one more in front or between.
LEMMA RemoveAtIs ==
  ASSUME NEW T, NEW s \in Seq(T), NEW k \in 1..Len(s)
  PROVE  /\ RemoveAt(s, k) \in Seq(T) /\ Len(RemoveAt(s, k)) = Len(s) - 1
         /\ \A i \in 1..(Len(s) - 1) : RemoveAt(s, k)[i] = IF i < k THEN s[i] ELSE s[i + 1]
<1> DEFINE n == Len(s)
           a == SubSeq(s, 1, k - 1)
           b == SubSeq(s, k + 1, n)
<1>1. n \in Nat /\ k \in Nat /\ 1 <= k /\ k <= n /\ \A i \in 1..n : s[i] \in T
  OBVIOUS
<1> HIDE DEF n
<1>2. a \in Seq(T) /\ Len(a) = k - 1 /\ \A i \in 1..(k - 1) : a[i] = s[i]
  <2>1. 1 \in Int /\ k - 1 \in Int /\ \A i \in 1..(k - 1) : s[i] \in T
    BY <1>1
  <2>2. a \in Seq(T) /\ Len(a) = (IF 1 <= k - 1 THEN k - 1 - 1 + 1 ELSE 0) /\ \A i \in 1..(k - 1 - 1 + 1) : a[i] = s[1 + i - 1]
    BY <2>1, SubSeqProperties
  <2> HIDE DEF a
  <2>3. k - 1 - 1 + 1 = k - 1 /\ (IF 1 <= k - 1 THEN k - 1 - 1 + 1 ELSE 0) = k - 1 /\ \A i \in 1..(k - 1) : 1 + i - 1 = i
    BY <1>1
  <2>4. QED
    BY <2>2, <2>3
<1>3. b \in Seq(T) /\ Len(b) = n - k /\ \A i \in 1..(n - k) : b[i] = s[k + i]
  <2>1. k + 1 \in Int /\ n \in Int /\ \A i \in (k + 1)..n : s[i] \in T
    BY <1>1
  <2>2. b \in Seq(T) /\ Len(b) = (IF k + 1 <= n THEN n - (k + 1) + 1 ELSE 0) /\ \A i \in 1..(n - (k + 1) + 1) : b[i] = s[k + 1 + i - 1]
    BY <2>1, SubSeqProperties
  <2> HIDE DEF b
  <2>3. n - (k + 1) + 1 = n - k /\ (IF k + 1 <= n THEN n - (k + 1) + 1 ELSE 0) = n - k /\ \A i \in 1..(n - k) : k + 1 + i - 1 = k + i
    BY <1>1
  <2>4. QED
    BY <2>2, <2>3
<1> HIDE DEF a, b
<1>4. /\ a \o b \in Seq(T) /\ Len(a \o b) = (k - 1) + (n - k)
      /\ \A i \in 1..((k - 1) + (n - k)) : (a \o b)[i] = IF i <= k - 1 THEN a[i] ELSE b[i - (k - 1)]
  <2>1. a \in Seq(T) /\ b \in Seq(T)
    BY <1>2, <1>3
  <2>2. /\ a \o b \in Seq(T) /\ Len(a \o b) = Len(a) + Len(b)
        /\ \A i \in 1..(Len(a) + Len(b)) : (a \o b)[i] = IF i <= Len(a) THEN a[i] ELSE b[i - Len(a)]
    BY <2>1, ConcatProperties
  <2>3. Len(a) = k - 1 /\ Len(b) = n - k
    BY <1>2, <1>3
  <2>4. QED
    BY <2>2, <2>3
<1>5. (k - 1) + (n - k) = n - 1
  BY <1>1
<1>6. ASSUME NEW i \in 1..(n - 1) PROVE (a \o b)[i] = IF i < k THEN s[i] ELSE s[i + 1]
  <2>1. CASE i < k
    BY <2>1, <1>1, <1>2, <1>4, <1>5
  <2>2. CASE ~ (i < k)
    <3>1. ~ (i <= k - 1) /\ i - (k - 1) \in 1..(n - k) /\ k + (i - (k - 1)) = i + 1
      BY <2>2, <1>1
    <3>2. QED
      BY <2>2, <3>1, <1>3, <1>4, <1>5
  <2>3. QED
    BY <2>1, <2>2
<1>7. RemoveAt(s, k) = a \o b
  BY DEF RemoveAt, a, b, n
<1>8. QED
  BY <1>4, <1>5, <1>6, <1>7 DEF n

\* A sequence with an element more in front.
LEMMA PrependIs ==
  ASSUME NEW T, NEW s \in Seq(T), NEW x \in T
  PROVE  /\ <<x>> \o s \in Seq(T) /\ Len(<<x>> \o s) = Len(s) + 1 /\ (<<x>> \o s)[1] = x
         /\ \A i \in 1..Len(s) : (<<x>> \o s)[i + 1] = s[i]
<1>1. <<x>> \in Seq(T) /\ Len(<<x>>) = 1 /\ <<x>>[1] = x /\ Len(s) \in Nat
  OBVIOUS
<1> DEFINE a == <<x>>
<1> HIDE DEF a
<1>2. /\ a \o s \in Seq(T) /\ Len(a \o s) = 1 + Len(s)
      /\ \A i \in 1..(1 + Len(s)) : (a \o s)[i] = IF i <= 1 THEN a[i] ELSE s[i - 1]
  BY <1>1, ConcatProperties DEF a
<1>3. \A i \in 1..Len(s) : i + 1 \in 1..(1 + Len(s)) /\ ~ (i + 1 <= 1) /\ i + 1 - 1 = i
  BY <1>1
<1>4. QED
  BY <1>1, <1>2, <1>3 DEF a

\* The list of a cache holds the pairs in order of use, each under a number of its own, and the
\* map has the number of each key, but for those in K, which are in no pair.
Entries == [id : Nat \ {0}, key : DesignValues, value : DesignValues]
KeyValues == DesignValues \X DesignValues
LruBut(o, s, K) ==
  /\ o \in [list : Seq(Entries), map : [DesignValues -> Nat]] /\ s \in Seq(KeyValues) /\ Len(s) = Len(o.list)
  /\ \A i \in 1..Len(s) : /\ s[i] = <<o.list[i].key, o.list[i].value>>
                          /\ o.list[i].key \notin K /\ o.map[o.list[i].key] = o.list[i].id
  /\ \A i, j \in 1..Len(s) : o.list[i].id = o.list[j].id => i = j
  /\ \A k \in DesignValues \ K : o.map[k] # 0 => \E i \in 1..Len(s) : o.list[i].id = o.map[k] /\ o.list[i].key = k
LruAgrees(o, s) == LruBut(o, s, {}) /\ Len(s) <= DesignCapacity

\* A use puts the pair in front.
LEMMA LruPushed ==
  ASSUME NEW o, NEW s, NEW key \in DesignValues, NEW value \in DesignValues, LruBut(o, s, {key})
  PROVE  LruBut(PushFront(o, key, value), <<<<key, value>>>> \o s, {})
<1> DEFINE n == Len(s)
           ids == {o.list[k].id : k \in DOMAIN o.list}
           id == FirstFree(ids)
           e == [id |-> id, key |-> key, value |-> value]
           p == <<key, value>>
           l == <<e>> \o o.list
           t == <<p>> \o s
           mp == [o.map EXCEPT ![key] = id]
<1>1. /\ o.list \in Seq(Entries) /\ o.map \in [DesignValues -> Nat] /\ s \in Seq(KeyValues) /\ Len(o.list) = n /\ n \in Nat
      /\ DOMAIN o.list = 1..n /\ \A i \in 1..n : o.list[i] \in Entries
  <2>1. o \in [list : Seq(Entries), map : [DesignValues -> Nat]] /\ s \in Seq(KeyValues) /\ Len(s) = Len(o.list)
    BY DEF LruBut
  <2>2. o.list \in Seq(Entries)
    BY <2>1
  <2>3. QED
    BY <2>1, <2>2
<1>2. \A i \in 1..n : /\ s[i] = <<o.list[i].key, o.list[i].value>> /\ o.list[i].key \in DesignValues /\ o.list[i].id \in Nat \ {0}
                      /\ o.list[i].key # key /\ o.map[o.list[i].key] = o.list[i].id
  BY <1>1 DEF LruBut, Entries
<1>3. id \in Nat \ {0} /\ \A i \in 1..n : o.list[i].id # id
  <2> DEFINE f == [i \in 1..n |-> o.list[i].id]
  <2>1. ids = {f[i] : i \in 1..n} /\ DOMAIN f = 1..n /\ f = [i \in 1..n |-> f[i]]
    BY <1>1
  <2>2. \A i, j \in 1..n : f[i] = f[j] => i = j
    BY DEF LruBut
  <2> HIDE DEF f, ids
  <2>3. IsFiniteSet(ids)
    BY <2>1, <2>2, <1>1, DistinctCount
  <2>4. id \in Nat \ {0} /\ id \notin ids
    BY <2>3, FirstFreeIs
  <2> HIDE DEF id
  <2>5. QED
    BY <2>4, <1>1 DEF ids
<1> HIDE DEF ids, id
<1>4. e \in Entries /\ p \in KeyValues
  BY <1>3 DEF Entries, KeyValues
<1>5. l \in Seq(Entries) /\ Len(l) = n + 1 /\ l[1] = e /\ \A i \in 1..n : l[i + 1] = o.list[i]
  <2> HIDE DEF e
  <2>1. QED
    BY <1>1, <1>4, PrependIs
<1>6. t \in Seq(KeyValues) /\ Len(t) = n + 1 /\ t[1] = p /\ \A i \in 1..n : t[i + 1] = s[i]
  <2> HIDE DEF p
  <2>1. QED
    BY <1>1, <1>4, PrependIs
<1>7. mp \in [DesignValues -> Nat] /\ mp[key] = id /\ \A k \in DesignValues : k # key => mp[k] = o.map[k]
  BY <1>1, <1>3
<1>8. \A i \in 1..(n + 1) : i = 1 \/ \E j \in 1..n : i = j + 1
  <2>1. ASSUME NEW i \in 1..(n + 1), i # 1 PROVE i - 1 \in 1..n /\ i = (i - 1) + 1
    BY <2>1, <1>1
  <2>2. QED
    BY <2>1
<1>9. e.id = id /\ e.key = key /\ e.value = value
  OBVIOUS
<1> DEFINE w == [list |-> l, map |-> mp]
<1>10. w.list = l /\ w.map = mp /\ w = PushFront(o, key, value)
  BY DEF PushFront, ids, id
<1> HIDE DEF l, t, mp, e, w
<1>11. w \in [list : Seq(Entries), map : [DesignValues -> Nat]]
  BY <1>5, <1>7 DEF w
<1>12. ASSUME NEW i \in 1..(n + 1)
       PROVE  t[i] = <<l[i].key, l[i].value>> /\ mp[l[i].key] = l[i].id
  <2>1. CASE i = 1
    BY <2>1, <1>5, <1>6, <1>7, <1>9
  <2>2. ASSUME NEW j \in 1..n, i = j + 1 PROVE t[i] = <<l[i].key, l[i].value>> /\ mp[l[i].key] = l[i].id
    <3>1. l[i] = o.list[j] /\ t[i] = s[j]
      BY <2>2, <1>5, <1>6
    <3>2. s[j] = <<o.list[j].key, o.list[j].value>> /\ mp[o.list[j].key] = o.list[j].id
      BY <1>2, <1>7
    <3>3. QED
      BY <3>1, <3>2
  <2>3. QED
    BY <2>1, <2>2, <1>8
<1>13. ASSUME NEW i \in 1..(n + 1), NEW j \in 1..(n + 1), l[i].id = l[j].id PROVE i = j
  <2>1. ASSUME NEW a \in 1..n, NEW b \in 1..n, l[a + 1].id = l[b + 1].id PROVE a = b
    <3>1. o.list[a].id = o.list[b].id
      BY <2>1, <1>5
    <3>2. QED
      BY <3>1 DEF LruBut
  <2>2. \A a \in 1..n : l[a + 1].id # l[1].id
    BY <1>3, <1>5, <1>9
  <2>3. QED
    BY <2>1, <2>2, <1>8, <1>13
<1>14. ASSUME NEW k \in DesignValues, mp[k] # 0 PROVE \E i \in 1..(n + 1) : l[i].id = mp[k] /\ l[i].key = k
  <2>1. CASE k = key
    <3>1. 1 \in 1..(n + 1)
      BY <1>1
    <3>2. QED
      BY <2>1, <3>1, <1>5, <1>7, <1>9
  <2>2. CASE k # key
    <3>1. PICK i \in 1..n : o.list[i].id = o.map[k] /\ o.list[i].key = k
      BY <2>2, <1>7, <1>14 DEF LruBut
    <3>2. i + 1 \in 1..(n + 1)
      BY <1>1
    <3>3. QED
      BY <2>2, <3>1, <3>2, <1>5, <1>7
  <2>3. QED
    BY <2>1, <2>2
<1>15. LruBut(w, t, {})
  <2>1. t \in Seq(KeyValues) /\ Len(t) = Len(w.list) /\ Len(t) = n + 1
    BY <1>5, <1>6, <1>10
  <2>2. \A i \in 1..Len(t) : t[i] = <<w.list[i].key, w.list[i].value>> /\ w.list[i].key \notin {} /\ w.map[w.list[i].key] = w.list[i].id
    BY <2>1, <1>10, <1>12
  <2>3. \A i, j \in 1..Len(t) : w.list[i].id = w.list[j].id => i = j
    BY <2>1, <1>10, <1>13
  <2>4. \A k \in DesignValues \ {} : w.map[k] # 0 => \E i \in 1..Len(t) : w.list[i].id = w.map[k] /\ w.list[i].key = k
    BY <2>1, <1>10, <1>14
  <2>5. QED
    BY <2>1, <2>2, <2>3, <2>4, <1>11 DEF LruBut
<1>16. QED
  BY <1>10, <1>15 DEF t

\* The pair at a place goes, and the map is wrong about its key.
LEMMA LruErased ==
  ASSUME NEW o, NEW s, LruBut(o, s, {}), NEW p \in 1..Len(s)
  PROVE  LruBut([o EXCEPT !.list = RemoveAt(@, p)], RemoveAt(s, p), {o.list[p].key})
<1> DEFINE n == Len(s)
           l == RemoveAt(o.list, p)
           t == RemoveAt(s, p)
           key == o.list[p].key
           w == [list |-> l, map |-> o.map]
           old(i) == IF i < p THEN i ELSE i + 1
<1>1. /\ o.list \in Seq(Entries) /\ o.map \in [DesignValues -> Nat] /\ s \in Seq(KeyValues) /\ Len(o.list) = n /\ n \in Nat
      /\ o = [list |-> o.list, map |-> o.map]
  <2>1. o \in [list : Seq(Entries), map : [DesignValues -> Nat]] /\ s \in Seq(KeyValues) /\ Len(s) = Len(o.list)
    BY DEF LruBut
  <2>2. QED
    BY <2>1
<1>2. \A i \in 1..n : o.list[i] \in Entries /\ s[i] = <<o.list[i].key, o.list[i].value>> /\ o.map[o.list[i].key] = o.list[i].id
  BY <1>1 DEF LruBut
<1>3. \A i, j \in 1..n : o.list[i].id = o.list[j].id => i = j
  BY DEF LruBut
<1>4. l \in Seq(Entries) /\ Len(l) = n - 1 /\ \A i \in 1..(n - 1) : l[i] = o.list[old(i)]
  <2>1. p \in 1..Len(o.list)
    BY <1>1
  <2>2. l \in Seq(Entries) /\ Len(l) = Len(o.list) - 1 /\ \A i \in 1..(Len(o.list) - 1) : l[i] = IF i < p THEN o.list[i] ELSE o.list[i + 1]
    BY <2>1, <1>1, RemoveAtIs
  <2> HIDE DEF l
  <2>3. QED
    BY <2>2, <1>1
<1>5. t \in Seq(KeyValues) /\ Len(t) = n - 1 /\ \A i \in 1..(n - 1) : t[i] = s[old(i)]
  <2>2. t \in Seq(KeyValues) /\ Len(t) = Len(s) - 1 /\ \A i \in 1..(Len(s) - 1) : t[i] = IF i < p THEN s[i] ELSE s[i + 1]
    BY <1>1, RemoveAtIs
  <2> HIDE DEF t
  <2>3. QED
    BY <2>2
<1>6. \A i \in 1..(n - 1) : old(i) \in 1..n /\ old(i) # p
  BY <1>1
<1>7. \A i, j \in 1..(n - 1) : old(i) = old(j) => i = j
  BY <1>1
<1>8. \A i \in 1..n : i # p => \E j \in 1..(n - 1) : old(j) = i
  <2>1. ASSUME NEW i \in 1..n, i # p PROVE \E j \in 1..(n - 1) : old(j) = i
    <3>1. CASE i < p
      <4>1. i \in 1..(n - 1) /\ old(i) = i
        BY <3>1, <1>1
      <4>2. QED
        BY <4>1
    <3>2. CASE ~ (i < p)
      <4>1. i - 1 \in 1..(n - 1) /\ old(i - 1) = i
        BY <3>2, <2>1, <1>1
      <4>2. QED
        BY <4>1
    <3>3. QED
      BY <3>1, <3>2
  <2>2. QED
    BY <2>1
<1>9. \A i \in 1..n : o.list[i].key = key => i = p
  BY <1>2, <1>3
<1>10. w.list = l /\ w.map = o.map /\ w = [o EXCEPT !.list = RemoveAt(@, p)]
  BY <1>1
<1> HIDE DEF l, t, w, old, key
<1>11. w \in [list : Seq(Entries), map : [DesignValues -> Nat]]
  BY <1>1, <1>4 DEF w
<1>12. ASSUME NEW i \in 1..(n - 1)
       PROVE  t[i] = <<l[i].key, l[i].value>> /\ l[i].key \notin {key} /\ o.map[l[i].key] = l[i].id
  BY <1>2, <1>4, <1>5, <1>6, <1>9
<1>13. \A i, j \in 1..(n - 1) : l[i].id = l[j].id => i = j
  BY <1>3, <1>4, <1>6, <1>7
<1>14. ASSUME NEW k \in DesignValues \ {key}, o.map[k] # 0 PROVE \E i \in 1..(n - 1) : l[i].id = o.map[k] /\ l[i].key = k
  <2>1. PICK i \in 1..n : o.list[i].id = o.map[k] /\ o.list[i].key = k
    BY <1>14 DEF LruBut
  <2>2. PICK j \in 1..(n - 1) : old(j) = i
    BY <2>1, <1>8 DEF key
  <2>3. QED
    BY <2>1, <2>2, <1>4
<1>15. LruBut(w, t, {key})
  <2>1. t \in Seq(KeyValues) /\ Len(t) = Len(w.list)
    BY <1>4, <1>5, <1>10
  <2>2. \A i \in 1..Len(t) : t[i] = <<w.list[i].key, w.list[i].value>> /\ w.list[i].key \notin {key} /\ w.map[w.list[i].key] = w.list[i].id
    BY <1>5, <1>10, <1>12
  <2>3. \A i, j \in 1..Len(t) : w.list[i].id = w.list[j].id => i = j
    BY <1>5, <1>10, <1>13
  <2>4. \A k \in DesignValues \ {key} : w.map[k] # 0 => \E i \in 1..Len(t) : w.list[i].id = w.map[k] /\ w.list[i].key = k
    BY <1>5, <1>10, <1>14
  <2>5. QED
    BY <2>1, <2>2, <2>3, <2>4, <1>11 DEF LruBut
<1>16. QED
  BY <1>10, <1>15 DEF t, key

\* A key that the map does not have is in no pair.
LEMMA LruLacks ==
  ASSUME NEW o, NEW s, LruBut(o, s, {}), NEW key \in DesignValues, o.map[key] = 0
  PROVE  LruBut(o, s, {key}) /\ ~ HasPair(s, key)
<1>1. o \in [list : Seq(Entries), map : [DesignValues -> Nat]] /\ s \in Seq(KeyValues) /\ Len(s) = Len(o.list)
  BY DEF LruBut
<1>2. o.list \in Seq(Entries) /\ DOMAIN s = 1..Len(s)
  BY <1>1
<1>3. \A i \in 1..Len(s) : o.list[i] \in Entries /\ s[i] = <<o.list[i].key, o.list[i].value>> /\ o.map[o.list[i].key] = o.list[i].id
  BY <1>1, <1>2 DEF LruBut
<1>4. \A i \in 1..Len(s) : o.list[i].id # 0
  BY <1>3 DEF Entries
<1>5. \A i \in 1..Len(s) : o.list[i].key # key
  BY <1>3, <1>4
<1>6. LruBut(o, s, {key})
  BY <1>5 DEF LruBut
<1>7. QED
  BY <1>2, <1>3, <1>5, <1>6 DEF HasPair

\* One that it has is in one pair, at the place of its number.
LEMMA LruHas ==
  ASSUME NEW o, NEW s, LruBut(o, s, {}), NEW key \in DesignValues, o.map[key] # 0
  PROVE  /\ HasPair(s, key) /\ PairOf(s, key) \in 1..Len(s) /\ NodeOf(o, o.map[key]) = PairOf(s, key)
         /\ o.list[PairOf(s, key)].key = key /\ o.list[PairOf(s, key)].value \in DesignValues
         /\ s[PairOf(s, key)] = <<key, o.list[PairOf(s, key)].value>>
<1>1. o \in [list : Seq(Entries), map : [DesignValues -> Nat]] /\ s \in Seq(KeyValues) /\ Len(s) = Len(o.list)
  BY DEF LruBut
<1>2. o.list \in Seq(Entries) /\ DOMAIN s = 1..Len(s)
  BY <1>1
<1>3. DOMAIN o.list = 1..Len(s)
  BY <1>1, <1>2
<1>4. \A i \in 1..Len(s) : o.list[i] \in Entries /\ s[i] = <<o.list[i].key, o.list[i].value>> /\ o.map[o.list[i].key] = o.list[i].id
  BY <1>1, <1>2 DEF LruBut
<1>5. PICK i \in 1..Len(s) : o.list[i].id = o.map[key] /\ o.list[i].key = key
  BY DEF LruBut
<1>6. \A j \in 1..Len(s) : o.list[j].id = o.map[key] => j = i
  BY <1>5 DEF LruBut
<1>7. \A j \in 1..Len(s) : s[j][1] = key => j = i
  BY <1>4, <1>6
<1>8. s[i] = <<key, o.list[i].value>> /\ s[i][1] = key /\ o.list[i].value \in DesignValues
  BY <1>4, <1>5 DEF Entries
<1>9. PairOf(s, key) = i /\ HasPair(s, key)
  BY <1>2, <1>7, <1>8 DEF PairOf, HasPair
<1>10. NodeOf(o, o.map[key]) = i
  BY <1>3, <1>5, <1>6 DEF NodeOf
<1>11. QED
  BY <1>5, <1>8, <1>9, <1>10

\* The pair used longest ago is dropped, with its key.
LEMMA LruDropped ==
  ASSUME NEW o, NEW s, LruBut(o, s, {}), Len(s) > 0
  PROVE  LruBut([list |-> Front(o.list), map |-> [o.map EXCEPT ![Last(o.list).key] = None0]], Front(s), {})
<1> DEFINE n == Len(s)
           l == Front(o.list)
           t == Front(s)
           key == Last(o.list).key
           mp == [o.map EXCEPT ![key] = 0]
           w == [list |-> l, map |-> mp]
<1>1. o.list \in Seq(Entries) /\ o.map \in [DesignValues -> Nat] /\ s \in Seq(KeyValues) /\ Len(o.list) = n /\ n \in Nat /\ n > 0
  <2>1. o \in [list : Seq(Entries), map : [DesignValues -> Nat]] /\ s \in Seq(KeyValues) /\ Len(s) = Len(o.list)
    BY DEF LruBut
  <2>2. QED
    BY <2>1
<1>2. \A i \in 1..n : /\ o.list[i] \in Entries /\ s[i] = <<o.list[i].key, o.list[i].value>> /\ o.map[o.list[i].key] = o.list[i].id
                      /\ o.list[i].key \in DesignValues /\ o.list[i].id # 0
  <2>1. \A i \in 1..n : o.list[i] \in Entries
    BY <1>1
  <2>2. \A i \in 1..n : s[i] = <<o.list[i].key, o.list[i].value>> /\ o.map[o.list[i].key] = o.list[i].id
    BY DEF LruBut
  <2>3. \A i \in 1..n : o.list[i].key \in DesignValues /\ o.list[i].id # 0
    BY <2>1 DEF Entries
  <2>4. QED
    BY <2>1, <2>2, <2>3
<1>3. \A i, j \in 1..n : o.list[i].id = o.list[j].id => i = j
  BY DEF LruBut
<1>4. l \in Seq(Entries) /\ Len(l) = n - 1 /\ (\A i \in 1..(n - 1) : l[i] = o.list[i]) /\ key = o.list[n].key /\ n \in 1..n
  <2>1. l \in Seq(Entries) /\ Len(l) = Len(o.list) - 1 /\ (\A i \in 1..(Len(o.list) - 1) : l[i] = o.list[i]) /\ Last(o.list) = o.list[Len(o.list)]
    BY <1>1, FrontIs
  <2> HIDE DEF l
  <2>2. QED
    BY <2>1, <1>1
<1>5. t \in Seq(KeyValues) /\ Len(t) = n - 1 /\ \A i \in 1..(n - 1) : t[i] = s[i]
  BY <1>1, FrontIs
<1>6. mp \in [DesignValues -> Nat] /\ mp[key] = 0 /\ \A k \in DesignValues : k # key => mp[k] = o.map[k]
  BY <1>1, <1>2, <1>4
<1>7. \A i \in 1..(n - 1) : i \in 1..n /\ i # n
  BY <1>1
<1>8. \A i \in 1..n : i # n => i \in 1..(n - 1)
  BY <1>1
<1>9. \A i \in 1..(n - 1) : o.list[i].key # key
  BY <1>2, <1>3, <1>4, <1>7
<1>10. w.list = l /\ w.map = mp
  OBVIOUS
<1> HIDE DEF l, t, w, key, mp
<1>11. w \in [list : Seq(Entries), map : [DesignValues -> Nat]]
  BY <1>4, <1>6 DEF w
<1>12. LruBut(w, t, {})
  <2>1. t \in Seq(KeyValues) /\ Len(t) = Len(w.list)
    BY <1>4, <1>5, <1>10
  <2>2. ASSUME NEW i \in 1..(n - 1) PROVE t[i] = <<l[i].key, l[i].value>> /\ mp[l[i].key] = l[i].id
    <3>1. l[i] = o.list[i] /\ t[i] = s[i] /\ o.list[i].key # key /\ i \in 1..n
      BY <1>4, <1>5, <1>7, <1>9
    <3>2. QED
      BY <3>1, <1>2, <1>6
  <2>3. \A i, j \in 1..(n - 1) : l[i].id = l[j].id => i = j
    BY <1>3, <1>4, <1>7
  <2>4. ASSUME NEW k \in DesignValues, mp[k] # 0 PROVE \E i \in 1..(n - 1) : l[i].id = mp[k] /\ l[i].key = k
    <3>1. k # key /\ mp[k] = o.map[k] /\ o.map[k] # 0
      BY <2>4, <1>6
    <3>2. PICK i \in 1..n : o.list[i].id = o.map[k] /\ o.list[i].key = k
      BY <3>1 DEF LruBut
    <3>3. i \in 1..(n - 1)
      BY <3>1, <3>2, <1>4, <1>8
    <3>4. QED
      BY <3>1, <3>2, <3>3, <1>4
  <2>5. QED
    BY <2>1, <2>2, <2>3, <2>4, <1>5, <1>10, <1>11 DEF LruBut
<1>13. QED
  BY <1>12 DEF w, l, t, mp, key, None0

\* The keys held are as many as the pairs.
LEMMA LruHeld ==
  ASSUME NEW o, NEW s, LruBut(o, s, {})
  PROVE  Cardinality({k \in DesignValues : o.map[k] # None0}) = Len(s)
<1> DEFINE n == Len(s)
           f == [i \in 1..n |-> o.list[i].key]
<1>1. o.list \in Seq(Entries) /\ Len(o.list) = n /\ n \in Nat
  <2>1. o \in [list : Seq(Entries), map : [DesignValues -> Nat]] /\ s \in Seq(KeyValues) /\ Len(s) = Len(o.list)
    BY DEF LruBut
  <2>2. QED
    BY <2>1
<1>2. \A i \in 1..n : o.list[i] \in Entries /\ o.map[o.list[i].key] = o.list[i].id
  BY <1>1 DEF LruBut
<1>3. \A i \in 1..n : o.list[i].key \in DesignValues /\ o.map[o.list[i].key] # 0
  BY <1>2 DEF Entries
<1>4. \A i, j \in 1..n : f[i] = f[j] => i = j
  BY <1>2 DEF LruBut
<1>5. DOMAIN f = 1..n /\ f = [i \in 1..n |-> f[i]] /\ \A i \in 1..n : f[i] = o.list[i].key
  OBVIOUS
<1>6. {k \in DesignValues : o.map[k] # None0} = {f[i] : i \in 1..n}
  <2>1. \A k \in DesignValues : o.map[k] # 0 => \E i \in 1..n : o.list[i].key = k
    BY DEF LruBut
  <2> HIDE DEF f
  <2>2. QED
    BY <2>1, <1>3, <1>5 DEF None0
<1> HIDE DEF f
<1>7. n \in Nat /\ DOMAIN f = 1..n /\ f = [i \in 1..n |-> f[i]] /\ \A i, j \in 1..n : f[i] = f[j] => i = j
  BY <1>1, <1>4, <1>5
<1> DEFINE S == {k \in DesignValues : o.map[k] # None0}
<1>8. S = {f[i] : i \in 1..n}
  BY <1>6
<1> HIDE DEF S, n
<1>9. Cardinality(S) = n
  BY <1>7, <1>8, DistinctCount
<1>10. QED
  BY <1>9 DEF S, n

\* What an object that agrees is made of.
LEMMA LruFits ==
  ASSUME NEW o, NEW s, LruBut(o, s, {})
  PROVE  s \in Seq(KeyValues) /\ Len(s) \in Nat /\ o = [list |-> o.list, map |-> o.map] /\ \A k \in DesignValues : o.map[k] \in Nat
<1>1. o \in [list : Seq(Entries), map : [DesignValues -> Nat]] /\ s \in Seq(KeyValues)
  BY DEF LruBut
<1>2. QED
  BY <1>1

\* What is due after a use: the pair in front of the others, of which there is room for all but one.
LEMMA LruStep ==
  ASSUME NEW key \in DesignValues, NEW value \in DesignValues, LruAgrees(own, ideal),
         \/ Calls(LruGet(own, key), IdealGet(ideal, key))
         \/ Calls(LruPut(own, key, value), IdealPut(ideal, key, value))
  PROVE  LruAgrees(own', ideal') /\ returned'.got = returned'.due
<1> DEFINE n == Len(ideal)
           p == PairOf(ideal, key)
           without == RemoveAt(ideal, p)
           rest == [own EXCEPT !.list = RemoveAt(@, p)]
<1>1. /\ LruBut(own, ideal, {}) /\ ideal \in Seq(KeyValues) /\ n \in Nat /\ n <= DesignCapacity /\ DesignCapacity \in Nat \ {0}
      /\ own = [list |-> own.list, map |-> own.map] /\ own.map[key] \in Nat
  BY LruFits, DesignAssumption DEF LruAgrees
<1>2. ASSUME own.map[key] = 0
      PROVE  LruBut(own, ideal, {key}) /\ ~ HasPair(ideal, key)
  BY <1>1, <1>2, LruLacks
<1>3. ASSUME own.map[key] # 0
      PROVE  /\ HasPair(ideal, key) /\ p \in 1..n /\ NodeOf(own, own.map[key]) = p
             /\ own.list[p].value \in DesignValues /\ ideal[p] = <<key, own.list[p].value>>
             /\ Erase(own, own.map[key]) = rest /\ LruBut(rest, without, {key}) /\ Len(without) = n - 1 /\ n - 1 \in Nat
             /\ Without(ideal, key) = without
  <2>1. /\ HasPair(ideal, key) /\ p \in 1..n /\ NodeOf(own, own.map[key]) = p /\ own.list[p].key = key
        /\ own.list[p].value \in DesignValues /\ ideal[p] = <<key, own.list[p].value>>
    BY <1>1, <1>3, LruHas
  <2>2. LruBut(rest, without, {key})
    <3>1. LruBut(rest, without, {own.list[p].key})
      BY <1>1, <2>1, LruErased
    <3>2. QED
      BY <2>1, <3>1
  <2>3. Len(without) = n - 1 /\ n - 1 \in Nat
    BY <1>1, <2>1, RemoveAtIs
  <2>4. Erase(own, own.map[key]) = rest /\ Without(ideal, key) = without
    BY <2>1 DEF Erase, Without
  <2>5. QED
    BY <2>1, <2>2, <2>3, <2>4
<1> HIDE DEF p, rest, without
<1>4. CASE Calls(LruGet(own, key), IdealGet(ideal, key))
  <2>1. CASE own.map[key] = 0
    <3>1. LruGet(own, key) = Result(own, -1) /\ IdealGet(ideal, key) = Result(ideal, -1)
      BY <2>1, <1>2 DEF LruGet, IdealGet, None0
    <3>2. QED
      BY <3>1, <1>4 DEF Calls, Result
  <2>2. CASE own.map[key] # 0
    <3> DEFINE v == own.list[p].value
    <3>1. v \in DesignValues /\ LruBut(PushFront(rest, key, v), <<<<key, v>>>> \o without, {})
      BY <2>2, <1>3, LruPushed
    <3>2. LruGet(own, key) = Result(PushFront(rest, key, v), v)
      BY <2>2, <1>3 DEF LruGet, None0
    <3>3. IdealGet(ideal, key) = Result(<<<<key, v>>>> \o without, v)
      <4>1. ideal[p] = <<key, v>> /\ ideal[p][2] = v
        BY <2>2, <1>3
      <4>2. HasPair(ideal, key) /\ Without(ideal, key) = without
        BY <2>2, <1>3
      <4>3. QED
        BY <4>1, <4>2 DEF IdealGet, p
    <3>4. own' = PushFront(rest, key, v) /\ ideal' = <<<<key, v>>>> \o without /\ returned'.got = v /\ returned'.due = v
      BY <3>2, <3>3, <1>4 DEF Calls, Result
    <3>5. Len(<<<<key, v>>>> \o without) = n
      <4>1. without \in Seq(KeyValues) /\ Len(without) = n - 1 /\ <<key, v>> \in KeyValues
        BY <2>2, <3>1, <1>3 DEF LruBut, KeyValues
      <4>2. Len(<<<<key, v>>>> \o without) = n - 1 + 1
        BY <4>1, PrependIs
      <4>3. QED
        BY <4>2, <1>1
    <3>6. QED
      BY <3>1, <3>4, <3>5, <1>1 DEF LruAgrees
  <2>3. QED
    BY <2>1, <2>2
<1>5. CASE Calls(LruPut(own, key, value), IdealPut(ideal, key, value))
  <2> DEFINE dropped == [list |-> Front(own.list), map |-> [own.map EXCEPT ![Last(own.list).key] = None0]]
             Left(o, s) == LruBut(o, s, {key}) /\ Len(s) + 1 <= DesignCapacity
  \* What is left to make room, and that nothing else is due.
  <2>1. \E o, s : /\ LruPut(own, key, value) = Result(PushFront(o, key, value), 0) /\ Left(o, s)
                  /\ IdealPut(ideal, key, value) = Result(<<<<key, value>>>> \o s, 0)
    <3> DEFINE used == <<<<key, value>>>> \o Without(ideal, key)
    <3>1. \A s : s \in Seq(KeyValues) /\ Without(ideal, key) = s =>
                   /\ used \in Seq(KeyValues) /\ Len(used) = Len(s) + 1 /\ Len(s) \in Nat /\ used[1] = <<key, value>>
                   /\ \A i \in 1..Len(s) : used[i + 1] = s[i]
      <4>1. <<key, value>> \in KeyValues
        BY DEF KeyValues
      <4>2. ASSUME NEW s \in Seq(KeyValues)
            PROVE  /\ <<<<key, value>>>> \o s \in Seq(KeyValues) /\ Len(<<<<key, value>>>> \o s) = Len(s) + 1 /\ Len(s) \in Nat
                   /\ (<<<<key, value>>>> \o s)[1] = <<key, value>>
                   /\ \A i \in 1..Len(s) : (<<<<key, value>>>> \o s)[i + 1] = s[i]
        BY <4>1, PrependIs
      <4>3. QED
        BY <4>2
    <3>2. ASSUME Len(used) <= DesignCapacity, used \in Seq(KeyValues) PROVE IdealPut(ideal, key, value) = Result(used, 0)
      <4>1. Len(used) \in Nat /\ SubSeq(used, 1, Len(used)) = used
        BY <3>2
      <4>2. ~ (Len(used) > DesignCapacity)
        BY <3>2, <4>1, <1>1
      <4> HIDE DEF used
      <4>3. QED
        BY <4>1, <4>2 DEF IdealPut, used
    <3>3. CASE own.map[key] # 0
      <4>1. LruPut(own, key, value) = Result(PushFront(rest, key, value), 0)
        BY <3>3, <1>3 DEF LruPut, None0
      <4>2. without \in Seq(KeyValues) /\ Without(ideal, key) = without /\ LruBut(rest, without, {key}) /\ Len(without) = n - 1
        BY <3>3, <1>3 DEF LruBut
      <4>3. Len(used) = n - 1 + 1 /\ used \in Seq(KeyValues) /\ used = <<<<key, value>>>> \o without
        BY <4>2, <3>1
      <4>4. Len(used) <= DesignCapacity /\ Len(without) + 1 <= DesignCapacity
        BY <4>2, <4>3, <1>1
      <4>5. IdealPut(ideal, key, value) = Result(<<<<key, value>>>> \o without, 0)
        BY <3>2, <4>3, <4>4
      <4>6. QED
        BY <4>1, <4>2, <4>4, <4>5
    <3>4. CASE own.map[key] = 0 /\ ~ (n >= DesignCapacity)
      <4>1. LruPut(own, key, value) = Result(PushFront(own, key, value), 0)
        <5>1. Cardinality({k \in DesignValues : own.map[k] # None0}) = n
          BY <1>1, LruHeld
        <5>2. QED
          BY <3>4, <5>1 DEF LruPut, None0
      <4>2. Without(ideal, key) = ideal /\ LruBut(own, ideal, {key})
        BY <3>4, <1>2 DEF Without
      <4>3. Len(used) = n + 1 /\ used \in Seq(KeyValues) /\ used = <<<<key, value>>>> \o ideal
        BY <4>2, <3>1, <1>1
      <4>4. n + 1 <= DesignCapacity
        BY <3>4, <1>1
      <4>5. IdealPut(ideal, key, value) = Result(<<<<key, value>>>> \o ideal, 0)
        BY <3>2, <4>3, <4>4
      <4>6. QED
        BY <4>1, <4>2, <4>4, <4>5
    <3>5. CASE own.map[key] = 0 /\ n >= DesignCapacity
      <4> DEFINE s == Front(ideal)
      <4>0. n = DesignCapacity /\ n > 0
        BY <3>5, <1>1
      <4>1. LruPut(own, key, value) = Result(PushFront(dropped, key, value), 0)
        <5>1. Cardinality({k \in DesignValues : own.map[k] # None0}) = n
          BY <1>1, LruHeld
        <5>2. QED
          BY <3>5, <5>1 DEF LruPut, None0
      <4>2. Without(ideal, key) = ideal
        BY <3>5, <1>2 DEF Without
      <4>3. LruBut(dropped, s, {})
        BY <4>0, <1>1, LruDropped
      <4>4. LruBut(dropped, s, {key})
        <5>1. dropped.map[key] = 0
          <6>1. own.map \in [DesignValues -> Nat]
            BY <1>1 DEF LruBut
          <6>2. QED
            BY <6>1, <3>5 DEF None0
        <5> HIDE DEF dropped, s
        <5>2. QED
          BY <4>3, <5>1, LruLacks
      <4>5. s \in Seq(KeyValues) /\ Len(s) = n - 1 /\ \A i \in 1..(n - 1) : s[i] = ideal[i]
        BY <4>0, <1>1, FrontIs
      <4> HIDE DEF s
      <4>6. IdealPut(ideal, key, value) = Result(<<<<key, value>>>> \o s, 0)
        <5> DEFINE t == <<<<key, value>>>> \o s
                   u == <<<<key, value>>>> \o ideal
        <5>1. t \in Seq(KeyValues) /\ Len(t) = n - 1 + 1 /\ t[1] = <<key, value>> /\ \A i \in 1..(n - 1) : t[i + 1] = s[i]
          <6>1. <<key, value>> \in KeyValues
            BY DEF KeyValues
          <6>2. QED
            BY <6>1, <4>5, PrependIs
        <5>2. u \in Seq(KeyValues) /\ Len(u) = n + 1 /\ u[1] = <<key, value>> /\ \A i \in 1..n : u[i + 1] = ideal[i]
          <6>1. <<key, value>> \in KeyValues
            BY DEF KeyValues
          <6>2. QED
            BY <6>1, <1>1, PrependIs
        <5> HIDE DEF t, u
        <5>3. SubSeq(u, 1, n) \in Seq(KeyValues) /\ Len(SubSeq(u, 1, n)) = n /\ \A i \in 1..n : SubSeq(u, 1, n)[i] = u[i]
          BY <5>2, <1>1
        <5>4. ASSUME NEW i \in 1..n PROVE u[i] = t[i]
          <6>1. CASE i = 1
            BY <6>1, <5>1, <5>2
          <6>2. CASE i # 1
            <7>1. i - 1 \in 1..(n - 1) /\ i - 1 \in 1..n /\ (i - 1) + 1 = i
              BY <6>2, <1>1
            <7>2. t[(i - 1) + 1] = s[i - 1] /\ u[(i - 1) + 1] = ideal[i - 1]
              BY <7>1, <5>1, <5>2
            <7>3. QED
              BY <7>1, <7>2, <4>5
          <6>3. QED
            BY <6>1, <6>2
        <5>5. SubSeq(u, 1, n) = t
          <6>1. Len(t) = n /\ \A i \in 1..n : SubSeq(u, 1, n)[i] = t[i]
            BY <5>1, <5>3, <5>4, <1>1
          <6> DEFINE w == SubSeq(u, 1, n)
          <6>2. w \in Seq(KeyValues) /\ Len(w) = Len(t) /\ \A i \in 1..Len(w) : w[i] = t[i]
            BY <6>1, <5>3
          <6> HIDE DEF w
          <6>3. w = t
            BY <6>2, <5>1, SeqEqual
          <6>4. QED
            BY <6>3 DEF w
        <5>6. IdealPut(ideal, key, value) = Result(SubSeq(u, 1, n), 0)
          <6>1. Len(u) > DesignCapacity
            BY <5>2, <4>0, <1>1
          <6>2. QED
            BY <6>1, <4>0, <4>2 DEF IdealPut, u
        <5>7. QED
          BY <5>5, <5>6 DEF t
      <4>7. Len(s) + 1 <= DesignCapacity
        BY <4>0, <4>5, <1>1
      <4>8. QED
        BY <4>1, <4>4, <4>6, <4>7
    <3>6. QED
      BY <3>3, <3>4, <3>5
  <2>2. PICK o, s : /\ LruPut(own, key, value) = Result(PushFront(o, key, value), 0) /\ Left(o, s)
                    /\ IdealPut(ideal, key, value) = Result(<<<<key, value>>>> \o s, 0)
    BY <2>1
  <2>3. own' = PushFront(o, key, value) /\ ideal' = <<<<key, value>>>> \o s /\ returned'.got = 0 /\ returned'.due = 0
    BY <2>2, <1>5 DEF Calls, Result
  <2>4. LruBut(PushFront(o, key, value), <<<<key, value>>>> \o s, {})
    BY <2>2, LruPushed
  <2>5. Len(<<<<key, value>>>> \o s) <= DesignCapacity
    <3>1. s \in Seq(KeyValues) /\ <<key, value>> \in KeyValues /\ Len(s) + 1 <= DesignCapacity
      BY <2>2 DEF LruBut, KeyValues
    <3>2. Len(<<<<key, value>>>> \o s) = Len(s) + 1
      BY <3>1, PrependIs
    <3>3. QED
      BY <3>1, <3>2
  <2>6. QED
    BY <2>3, <2>4, <2>5 DEF LruAgrees
<1>6. QED
  BY <1>4, <1>5

RingNodes == Nodes0 \ {0}
RingObjects ==
  [prev : [Nodes0 -> Nodes0], next : [Nodes0 -> Nodes0], key : [Nodes0 -> Nat], value : [Nodes0 -> Nat],
   nodes : [DesignValues -> Nodes0], live : SUBSET RingNodes]

SameButLinks(u, o) == u.key = o.key /\ u.value = o.value /\ u.nodes = o.nodes /\ u.live = o.live

\* A node is left out of both directions.
LEMMA UnlinkNodeIs ==
  ASSUME NEW o \in RingObjects, NEW n \in Nodes0
  PROVE  LET u == UnlinkNode(o, n)
         IN /\ u \in RingObjects /\ SameButLinks(u, o)
            /\ u.next = [o.next EXCEPT ![o.prev[n]] = o.next[n]]
            /\ u.prev = [o.prev EXCEPT ![o.next[n]] = o.prev[n]]
<1> DEFINE u == UnlinkNode(o, n)
<1>1. o.prev[n] \in Nodes0 /\ o.next[n] \in Nodes0
  BY DEF RingObjects
<1>2. /\ u.next = [o.next EXCEPT ![o.prev[n]] = o.next[n]]
      /\ u.prev = [o.prev EXCEPT ![o.next[n]] = o.prev[n]]
  BY DEF RingObjects, UnlinkNode
<1>3. SameButLinks(u, o)
  BY DEF RingObjects, UnlinkNode, SameButLinks
<1>4. u \in RingObjects
  BY <1>1 DEF RingObjects, UnlinkNode
<1>5. QED
  BY <1>2, <1>3, <1>4

\* A node is linked between the dummy node and what was first.
LEMMA LinkFrontIs ==
  ASSUME NEW o \in RingObjects, NEW n \in RingNodes
  PROVE  LET u == LinkFront(o, n)
         IN /\ u \in RingObjects /\ SameButLinks(u, o)
            /\ u.next = [[o.next EXCEPT ![n] = o.next[0]] EXCEPT ![0] = n]
            /\ u.prev = [[o.prev EXCEPT ![n] = 0] EXCEPT ![o.next[0]] = n]
<1> DEFINE u == LinkFront(o, n)
<1>1. n \in Nodes0 /\ 0 \in Nodes0 /\ o.next[0] \in Nodes0
  <2>1. 0 \in Nodes0
    BY DesignAssumption DEF Nodes0
  <2>2. QED
    BY <2>1 DEF RingObjects, RingNodes
<1>2. /\ u.next = [[o.next EXCEPT ![n] = o.next[0]] EXCEPT ![0] = n]
      /\ u.prev = [[o.prev EXCEPT ![n] = 0] EXCEPT ![o.next[0]] = n]
  BY DEF RingObjects, LinkFront
<1>3. SameButLinks(u, o)
  BY DEF RingObjects, LinkFront, SameButLinks
<1>4. u \in RingObjects
  BY <1>1 DEF RingObjects, LinkFront
<1>5. QED
  BY <1>2, <1>3, <1>4

\* The nodes r in order, between two ends that are the dummy node, and linked both ways.
Place(r, i) == IF i \in 1..Len(r) THEN r[i] ELSE 0
Linked(o, r) ==
  \A i \in 0..Len(r) : o.next[Place(r, i)] = Place(r, i + 1) /\ o.prev[Place(r, i + 1)] = Place(r, i)
Distinct(r) == \A i, j \in 1..Len(r) : r[i] = r[j] => i = j

\* Where what is at a place after a removal was before.
Kept(p, i) == IF i < p THEN i ELSE i + 1

\* What follows the place of a removal moves up.
LEMMA PlacesKept ==
  ASSUME NEW r \in Seq(RingNodes), NEW p \in 1..Len(r)
  PROVE  /\ RemoveAt(r, p) \in Seq(RingNodes) /\ Len(RemoveAt(r, p)) = Len(r) - 1
         /\ \A i \in 0..Len(r) : Place(RemoveAt(r, p), i) = Place(r, Kept(p, i))
<1> DEFINE n == Len(r)
           t == RemoveAt(r, p)
<1>1. t \in Seq(RingNodes) /\ Len(t) = n - 1 /\ \A i \in 1..(n - 1) : t[i] = IF i < p THEN r[i] ELSE r[i + 1]
  BY RemoveAtIs
<1>2. n \in Nat
  OBVIOUS
<1> HIDE DEF t, n
<1>3. ASSUME NEW i \in 0..n PROVE Place(t, i) = Place(r, Kept(p, i))
  <2>1. p \in 1..n
    BY DEF n
  <2>2. CASE i \in 1..(n - 1)
    <3>1. Kept(p, i) \in 1..n
      BY <2>1, <2>2, <1>2 DEF Kept
    <3>2. t[i] = r[Kept(p, i)]
      BY <2>2, <1>1 DEF Kept
    <3>3. QED
      BY <2>2, <3>1, <3>2, <1>1 DEF Place, n
  <2>3. CASE i \notin 1..(n - 1)
    <3>1. Kept(p, i) \notin 1..n
      BY <2>1, <2>3, <1>2 DEF Kept
    <3>2. QED
      BY <2>3, <3>1, <1>1 DEF Place, n
  <2>4. QED
    BY <2>2, <2>3
<1>4. QED
  BY <1>1, <1>3 DEF t, n

\* The places of nodes, and the two ends.
LEMMA PlaceIs ==
  ASSUME NEW r \in Seq(RingNodes)
  PROVE  /\ Len(r) \in Nat /\ Place(r, 0) = 0 /\ Place(r, Len(r) + 1) = 0
         /\ \A i \in 1..Len(r) : Place(r, i) = r[i] /\ r[i] \in Nodes0 /\ r[i] # 0
<1>1. Len(r) \in Nat /\ \A i \in 1..Len(r) : r[i] \in RingNodes
  OBVIOUS
<1>2. 0 \notin 1..Len(r) /\ Len(r) + 1 \notin 1..Len(r)
  BY <1>1
<1>3. QED
  BY <1>1, <1>2 DEF Place, RingNodes

\* Two places with the same node are the same, or both the dummy node's.
LEMMA PlacesDiffer ==
  ASSUME NEW r \in Seq(RingNodes), Distinct(r), NEW i \in 0..(Len(r) + 1), NEW j \in 0..(Len(r) + 1), Place(r, i) = Place(r, j)
  PROVE  i = j \/ (i \in {0, Len(r) + 1} /\ j \in {0, Len(r) + 1})
<1>1. Len(r) \in Nat /\ \A k \in 1..Len(r) : Place(r, k) = r[k] /\ r[k] # 0
  BY PlaceIs
<1>2. \A k \in 0..(Len(r) + 1) : k \notin 1..Len(r) => k \in {0, Len(r) + 1} /\ Place(r, k) = 0
  BY <1>1 DEF Place
<1>3. QED
  BY <1>1, <1>2 DEF Distinct

\* The others stay linked in their order when a node is unlinked.
LEMMA UnlinkedRing ==
  ASSUME NEW o \in RingObjects, NEW r \in Seq(RingNodes), Distinct(r), Linked(o, r), NEW p \in 1..Len(r)
  PROVE  Linked(UnlinkNode(o, r[p]), RemoveAt(r, p)) /\ Distinct(RemoveAt(r, p)) /\ \A i \in 1..(Len(r) - 1) : RemoveAt(r, p)[i] # r[p]
<1> DEFINE n == Len(r)
           t == RemoveAt(r, p)
           u == UnlinkNode(o, r[p])
<1>1. n \in Nat /\ p \in 1..n /\ Place(r, p) = r[p] /\ r[p] \in Nodes0 /\ r[p] # 0
  BY PlaceIs
<1>2. t \in Seq(RingNodes) /\ Len(t) = n - 1 /\ \A i \in 0..n : Place(t, i) = Place(r, Kept(p, i))
  BY PlacesKept
<1>3. \A i \in 0..n : o.next[Place(r, i)] = Place(r, i + 1) /\ o.prev[Place(r, i + 1)] = Place(r, i)
  BY DEF Linked
<1>4. o.next[r[p]] = Place(r, p + 1) /\ o.prev[r[p]] = Place(r, p - 1)
  <2>1. p - 1 \in 0..n /\ p \in 0..n /\ p - 1 + 1 = p
    BY <1>1
  <2>2. QED
    BY <2>1, <1>1, <1>3
<1>5. \A i \in 0..(n + 1) : Place(r, i) \in Nodes0
  <2>1. 0 \in Nodes0
    BY DesignAssumption DEF Nodes0
  <2>2. \A i \in 1..n : r[i] \in Nodes0
    BY PlaceIs
  <2>3. QED
    BY <2>1, <2>2 DEF Place, n
<1>6. /\ u.next = [o.next EXCEPT ![Place(r, p - 1)] = Place(r, p + 1)]
      /\ u.prev = [o.prev EXCEPT ![Place(r, p + 1)] = Place(r, p - 1)]
  <2>1. r[p] \in Nodes0
    BY <1>1
  <2>2. u.next = [o.next EXCEPT ![o.prev[r[p]]] = o.next[r[p]]] /\ u.prev = [o.prev EXCEPT ![o.next[r[p]]] = o.prev[r[p]]]
    BY <2>1, UnlinkNodeIs
  <2> HIDE DEF u
  <2>3. QED
    BY <2>2, <1>4
<1>7. \A i, j \in 0..(n + 1) : Place(r, i) = Place(r, j) => i = j \/ (i \in {0, n + 1} /\ j \in {0, n + 1})
  BY PlacesDiffer
<1>8. o.next \in [Nodes0 -> Nodes0] /\ o.prev \in [Nodes0 -> Nodes0]
  BY DEF RingObjects
<1> HIDE DEF n, t, u
<1>9. ASSUME NEW i \in 0..(n - 1)
      PROVE  u.next[Place(t, i)] = Place(t, i + 1) /\ u.prev[Place(t, i + 1)] = Place(t, i)
  <2> DEFINE a == Kept(p, i)
             b == Kept(p, i + 1)
  <2>1. /\ i \in 0..n /\ i + 1 \in 0..n /\ a \in 0..(n + 1) /\ b \in 0..(n + 1) /\ p - 1 \in 0..(n + 1) /\ p + 1 \in 0..(n + 1)
        /\ a <= n /\ b > 0
    BY <1>1 DEF Kept
  <2>2. Place(t, i) = Place(r, a) /\ Place(t, i + 1) = Place(r, b)
    BY <2>1, <1>2
  <2>3. \/ a = p - 1 /\ b = p + 1
        \/ a # p - 1 /\ b # p + 1 /\ b = a + 1 /\ a # p /\ b # p
    BY <1>1 DEF Kept
  <2>4. Place(r, a) \in Nodes0 /\ Place(r, b) \in Nodes0
    BY <2>1, <1>5
  <2> HIDE DEF a, b
  <2>5. CASE a = p - 1 /\ b = p + 1
    BY <2>2, <2>4, <2>5, <1>6, <1>8
  <2>6. CASE a # p - 1 /\ b # p + 1 /\ b = a + 1
    <3>1. Place(r, a) # Place(r, p - 1)
      <4>1. p - 1 # n + 1 /\ a # n + 1
        BY <2>1, <1>1
      <4>2. QED
        BY <2>1, <2>6, <4>1, <1>7
    <3>2. Place(r, b) # Place(r, p + 1)
      <4>1. p + 1 # 0 /\ b # 0
        BY <2>1, <1>1
      <4>2. QED
        BY <2>1, <2>6, <4>1, <1>7
    <3>3. o.next[Place(r, a)] = Place(r, b) /\ o.prev[Place(r, b)] = Place(r, a)
      <4>1. a \in 0..n
        BY <2>1
      <4>2. QED
        BY <4>1, <2>6, <1>3
    <3>4. QED
      BY <3>1, <3>2, <3>3, <2>2, <2>4, <1>6, <1>8
  <2>7. QED
    BY <2>3, <2>5, <2>6
<1>10. Linked(u, t)
  BY <1>2, <1>9 DEF Linked
<1>11. \A i \in 1..(n - 1) : t[i] = r[Kept(p, i)] /\ Kept(p, i) \in 1..n /\ Kept(p, i) # p
  <2>1. \A i \in 1..(n - 1) : t[i] = IF i < p THEN r[i] ELSE r[i + 1]
    BY RemoveAtIs DEF t, n
  <2>2. QED
    BY <2>1, <1>1 DEF Kept
<1>12. \A i, j \in 1..n : r[i] = r[j] => i = j
  BY DEF Distinct, n
<1>13. \A i, j \in 1..(n - 1) : Kept(p, i) = Kept(p, j) => i = j
  BY <1>1 DEF Kept
<1>14. Distinct(t) /\ \A i \in 1..(n - 1) : t[i] # r[p]
  <2>1. ASSUME NEW i \in 1..(n - 1), NEW j \in 1..(n - 1), t[i] = t[j] PROVE i = j
    <3>1. Kept(p, i) = Kept(p, j)
      BY <2>1, <1>11, <1>12
    <3>2. QED
      BY <3>1, <1>13
  <2>2. ASSUME NEW i \in 1..(n - 1) PROVE t[i] # r[p]
    BY <1>1, <1>11, <1>12
  <2>3. QED
    BY <2>1, <2>2, <1>2 DEF Distinct
<1>15. QED
  BY <1>10, <1>14 DEF t, u, n

\* They do when a node comes in front, and it is the first.
LEMMA LinkedRing ==
  ASSUME NEW o \in RingObjects, NEW r \in Seq(RingNodes), Distinct(r), Linked(o, r), NEW n \in RingNodes, \A i \in 1..Len(r) : r[i] # n
  PROVE  /\ <<n>> \o r \in Seq(RingNodes) /\ Len(<<n>> \o r) = Len(r) + 1
         /\ Linked(LinkFront(o, n), <<n>> \o r) /\ Distinct(<<n>> \o r)
<1> DEFINE m == Len(r)
           t == <<n>> \o r
           u == LinkFront(o, n)
<1>1. m \in Nat /\ Place(r, 0) = 0 /\ n \in Nodes0 /\ n # 0 /\ 0 \in Nodes0
  BY DesignAssumption, PlaceIs DEF RingNodes, Nodes0
<1>2. t \in Seq(RingNodes) /\ Len(t) = m + 1 /\ t[1] = n /\ \A i \in 1..m : t[i + 1] = r[i]
  BY PrependIs
<1>3. \A i \in 0..m : o.next[Place(r, i)] = Place(r, i + 1) /\ o.prev[Place(r, i + 1)] = Place(r, i)
  BY DEF Linked
<1>4. \A i \in 0..(m + 1) : Place(r, i) \in Nodes0 /\ Place(r, i) # n
  <2>1. \A i \in 1..m : r[i] \in Nodes0
    BY PlaceIs
  <2>2. QED
    BY <2>1, <1>1 DEF Place
<1>5. o.next[0] = Place(r, 1)
  BY <1>1, <1>3
<1>6. u.next = [[o.next EXCEPT ![n] = Place(r, 1)] EXCEPT ![0] = n] /\ u.prev = [[o.prev EXCEPT ![n] = 0] EXCEPT ![Place(r, 1)] = n]
  <2>1. /\ u.next = [[o.next EXCEPT ![n] = o.next[0]] EXCEPT ![0] = n]
        /\ u.prev = [[o.prev EXCEPT ![n] = 0] EXCEPT ![o.next[0]] = n]
    BY LinkFrontIs
  <2> HIDE DEF u
  <2>2. QED
    BY <2>1, <1>5
<1>7. \A i, j \in 0..(m + 1) : Place(r, i) = Place(r, j) => i = j \/ (i \in {0, m + 1} /\ j \in {0, m + 1})
  BY PlacesDiffer
<1>8. o.next \in [Nodes0 -> Nodes0] /\ o.prev \in [Nodes0 -> Nodes0]
  BY DEF RingObjects
<1> HIDE DEF m, t, u
<1>9. Place(t, 0) = 0 /\ Place(t, 1) = n /\ \A i \in 1..(m + 1) : Place(t, i + 1) = Place(r, i)
  <2>1. ASSUME NEW i \in 1..(m + 1) PROVE Place(t, i + 1) = Place(r, i)
    <3>1. CASE i \in 1..m
      <4>1. i + 1 \in 1..(m + 1)
        BY <3>1, <1>1
      <4>2. QED
        BY <3>1, <4>1, <1>2 DEF Place, m
    <3>2. CASE i \notin 1..m
      <4>1. i + 1 \notin 1..(m + 1)
        BY <3>2, <1>1
      <4>2. QED
        BY <3>2, <4>1, <1>2 DEF Place, m
    <3>3. QED
      BY <3>1, <3>2
  <2>2. Place(t, 0) = 0 /\ Place(t, 1) = n
    BY <1>1, <1>2 DEF Place
  <2>3. QED
    BY <2>1, <2>2
<1>10. ASSUME NEW i \in 0..(m + 1) PROVE u.next[Place(t, i)] = Place(t, i + 1) /\ u.prev[Place(t, i + 1)] = Place(t, i)
  <2>1. Place(r, 1) \in Nodes0 /\ Place(r, 1) # n
    <3>1. 1 \in 0..(m + 1)
      BY <1>1
    <3>2. QED
      BY <3>1, <1>4
  <2>2. CASE i = 0
    <3>1. Place(t, i) = 0 /\ Place(t, i + 1) = n
      BY <2>2, <1>9
    <3>2. u.next[0] = n /\ u.prev[n] = 0
      BY <2>1, <1>1, <1>6, <1>8
    <3>3. QED
      BY <3>1, <3>2
  <2>3. CASE i = 1
    <3>1. Place(t, i) = n /\ Place(t, i + 1) = Place(r, 1)
      <4>1. 1 \in 1..(m + 1)
        BY <1>1
      <4>2. QED
        BY <2>3, <4>1, <1>9
    <3>2. u.next[n] = Place(r, 1) /\ u.prev[Place(r, 1)] = n
      BY <2>1, <1>1, <1>6, <1>8
    <3>3. QED
      BY <3>1, <3>2
  <2>4. CASE i > 1
    <3> DEFINE j == i - 1
    <3>1. j \in 1..m /\ j \in 0..m /\ j + 1 \in 1..(m + 1) /\ j + 1 = i /\ j \in 1..(m + 1) /\ j + 1 # 1 /\ j \in 0..(m + 1) /\ j + 1 \in 0..(m + 1) /\ 1 \in 0..(m + 1) /\ 0 \in 0..(m + 1)
      BY <2>4, <1>1
    <3> HIDE DEF j
    <3>2. Place(t, i) = Place(r, j) /\ Place(t, i + 1) = Place(r, j + 1)
      BY <3>1, <1>9
    <3>3. o.next[Place(r, j)] = Place(r, j + 1) /\ o.prev[Place(r, j + 1)] = Place(r, j)
      BY <3>1, <1>3
    <3>4. Place(r, j) # 0
      <4>1. j # 0 /\ j # m + 1
        BY <3>1, <1>1
      <4>2. QED
        BY <3>1, <4>1, <1>1, <1>7
    <3>5. Place(r, j + 1) # Place(r, 1)
      <4>1. 1 # m + 1 /\ 1 # 0
        BY <3>1, <1>1
      <4>2. QED
        BY <3>1, <4>1, <1>7
    <3>6. Place(r, j) \in Nodes0 /\ Place(r, j) # n /\ Place(r, j + 1) \in Nodes0 /\ Place(r, j + 1) # n
      BY <3>1, <1>4
    <3>7. QED
      BY <3>2, <3>3, <3>4, <3>5, <3>6, <2>1, <1>1, <1>6, <1>8
  <2>5. QED
    BY <2>2, <2>3, <2>4
<1>11. Linked(u, t)
  BY <1>2, <1>10 DEF Linked
<1>12. Distinct(t)
  <2>1. \A i \in 1..(m + 1) : i = 1 \/ \E j \in 1..m : i = j + 1
    <3>1. ASSUME NEW i \in 1..(m + 1), i # 1 PROVE i - 1 \in 1..m /\ i = (i - 1) + 1
      BY <3>1, <1>1
    <3>2. QED
      BY <3>1
  <2>2. \A i, j \in 1..m : t[i + 1] = t[j + 1] => i = j
    BY <1>2 DEF Distinct, m
  <2>3. \A i \in 1..m : t[i + 1] # t[1]
    BY <1>2 DEF m
  <2>4. ASSUME NEW i \in 1..(m + 1), NEW j \in 1..(m + 1), t[i] = t[j] PROVE i = j
    BY <2>1, <2>2, <2>3, <2>4
  <2>5. QED
    BY <2>4, <1>2 DEF Distinct
<1>13. QED
  BY <1>2, <1>11, <1>12 DEF t, u, m

\* The nodes r of a ring hold the pairs s; the map has the node of each key.
RingHolds(o, s, r) ==
  /\ o \in RingObjects /\ s \in Seq(KeyValues) /\ r \in Seq(RingNodes) /\ Len(r) = Len(s)
  /\ Linked(o, r) /\ Distinct(r) /\ o.live = {r[i] : i \in 1..Len(r)}
  /\ \A i \in 1..Len(r) : /\ s[i] = <<o.key[r[i]], o.value[r[i]]>>
                          /\ o.key[r[i]] \in DesignValues /\ o.nodes[o.key[r[i]]] = r[i]
  /\ \A k \in DesignValues : o.nodes[k] # 0 => \E i \in 1..Len(r) : r[i] = o.nodes[k] /\ o.key[r[i]] = k
RingAgrees(o, s) == Len(s) <= DesignCapacity /\ \E r \in Seq(RingNodes) : RingHolds(o, s, r)

\* Where what is at a place after one element was moved to the front was before.
Before(p, i) == IF i = 1 THEN p ELSE Kept(p, i - 1)
Moved(s, p) == <<s[p]>> \o RemoveAt(s, p)

\* An element moved to the front.
LEMMA MovedIs ==
  ASSUME NEW T, NEW s \in Seq(T), NEW p \in 1..Len(s)
  PROVE  /\ Moved(s, p) \in Seq(T) /\ Len(Moved(s, p)) = Len(s)
         /\ \A i \in 1..Len(s) : Before(p, i) \in 1..Len(s) /\ Moved(s, p)[i] = s[Before(p, i)]
<1> DEFINE n == Len(s)
           u == RemoveAt(s, p)
           x == s[p]
<1>1. n \in Nat /\ p \in 1..n /\ x \in T /\ n - 1 + 1 = n
  OBVIOUS
<1>2. u \in Seq(T) /\ Len(u) = n - 1 /\ \A i \in 1..(n - 1) : u[i] = IF i < p THEN s[i] ELSE s[i + 1]
  BY RemoveAtIs
<1> HIDE DEF n, u, x
<1>3. <<x>> \o u \in Seq(T) /\ Len(<<x>> \o u) = n - 1 + 1 /\ (<<x>> \o u)[1] = x /\ \A i \in 1..(n - 1) : (<<x>> \o u)[i + 1] = u[i]
  BY <1>1, <1>2, PrependIs
<1>4. ASSUME NEW i \in 1..n PROVE Before(p, i) \in 1..n /\ (<<x>> \o u)[i] = s[Before(p, i)]
  <2>1. CASE i = 1
    BY <2>1, <1>1, <1>3 DEF Before, x
  <2>2. CASE i # 1
    <3>1. i - 1 \in 1..(n - 1) /\ (i - 1) + 1 = i /\ Kept(p, i - 1) \in 1..n
      BY <2>2, <1>1 DEF Kept
    <3>2. (<<x>> \o u)[i] = u[i - 1]
      BY <3>1, <1>3
    <3>3. u[i - 1] = s[Kept(p, i - 1)]
      BY <3>1, <1>2 DEF Kept
    <3>4. QED
      BY <2>2, <3>1, <3>2, <3>3 DEF Before
  <2>3. QED
    BY <2>1, <2>2
<1>5. Moved(s, p) = <<x>> \o u
  BY DEF Moved, x, u
<1>6. QED
  BY <1>1, <1>3, <1>4, <1>5 DEF n

\* Nothing is lost by the move.
LEMMA BeforeAll ==
  ASSUME NEW n \in Nat, NEW p \in 1..n, NEW i \in 1..n
  PROVE  \E j \in 1..n : Before(p, j) = i
<1>1. CASE i = p
  <2>1. 1 \in 1..n /\ Before(p, 1) = i
    BY <1>1 DEF Before
  <2>2. QED
    BY <2>1
<1>2. CASE i < p
  <2>1. i + 1 \in 1..n /\ Before(p, i + 1) = i
    BY <1>2 DEF Before, Kept
  <2>2. QED
    BY <2>1
<1>3. CASE i > p
  <2>1. i \in 1..n /\ Before(p, i) = i
    BY <1>3 DEF Before, Kept
  <2>2. QED
    BY <2>1
<1>4. QED
  BY <1>1, <1>2, <1>3

\* A key that the map has is in one pair, at the place of its node; others are in none.
LEMMA RingHas ==
  ASSUME NEW o, NEW s, NEW r, RingHolds(o, s, r), NEW key \in DesignValues
  PROVE  /\ o.nodes[key] = 0 => ~ HasPair(s, key)
         /\ o.nodes[key] # 0 => /\ HasPair(s, key) /\ PairOf(s, key) \in 1..Len(s) /\ o.nodes[key] = r[PairOf(s, key)]
                                /\ s[PairOf(s, key)] = <<key, o.value[o.nodes[key]]>>
                                /\ o.value[o.nodes[key]] \in DesignValues
<1>1. /\ o \in RingObjects /\ s \in Seq(KeyValues) /\ r \in Seq(RingNodes) /\ Len(r) = Len(s)
  BY DEF RingHolds
<1>2. DOMAIN s = 1..Len(s) /\ \A i \in 1..Len(s) : s[i] \in KeyValues /\ r[i] \in RingNodes
  BY <1>1
<1>3. \A i \in 1..Len(s) : s[i] = <<o.key[r[i]], o.value[r[i]]>> /\ s[i][1] = o.key[r[i]] /\ s[i][2] = o.value[r[i]] /\ o.nodes[o.key[r[i]]] = r[i]
  BY <1>1 DEF RingHolds
<1>4. CASE o.nodes[key] = 0
  <2>1. \A i \in 1..Len(s) : r[i] # 0
    BY <1>2 DEF RingNodes
  <2>2. ~ HasPair(s, key)
    BY <2>1, <1>2, <1>3, <1>4 DEF HasPair
  <2>3. QED
    BY <2>2, <1>4
<1>5. CASE o.nodes[key] # 0
  <2>1. PICK i \in 1..Len(s) : r[i] = o.nodes[key] /\ o.key[r[i]] = key
    BY <1>1, <1>5 DEF RingHolds
  <2>2. \A j \in 1..Len(s) : s[j][1] = key => j = i
    <3>1. ASSUME NEW j \in 1..Len(s), s[j][1] = key PROVE j = i
      <4>1. r[j] = r[i]
        BY <3>1, <2>1, <1>3
      <4>2. QED
        BY <4>1, <1>1 DEF RingHolds, Distinct
    <3>2. QED
      BY <3>1
  <2>3. PairOf(s, key) = i /\ HasPair(s, key)
    BY <2>1, <2>2, <1>2, <1>3 DEF PairOf, HasPair
  <2>4. s[i][2] \in DesignValues
    BY <1>2 DEF KeyValues
  <2>5. QED
    BY <2>1, <2>3, <2>4, <1>3, <1>5
<1>6. QED
  BY <1>4, <1>5

\* As many keys are held as there are pairs, and their nodes are those that live.
LEMMA RingHeld ==
  ASSUME NEW o, NEW s, NEW r, RingHolds(o, s, r)
  PROVE  Cardinality({k \in DesignValues : o.nodes[k] # None0}) = Len(s) /\ {o.nodes[k] : k \in DesignValues} \ {None0} = o.live
<1> DEFINE n == Len(r)
           f == [i \in 1..n |-> o.key[r[i]]]
           S == {k \in DesignValues : o.nodes[k] # None0}
<1>1. /\ r \in Seq(RingNodes) /\ n = Len(s) /\ n \in Nat /\ o.live = {r[i] : i \in 1..n}
      /\ \A i \in 1..n : r[i] # 0 /\ o.key[r[i]] \in DesignValues /\ o.nodes[o.key[r[i]]] = r[i]
      /\ \A k \in DesignValues : o.nodes[k] # 0 => \E i \in 1..n : r[i] = o.nodes[k] /\ o.key[r[i]] = k
  <2>1. r \in Seq(RingNodes) /\ Len(r) = Len(s)
    BY DEF RingHolds
  <2>2. \A i \in 1..n : r[i] # 0
    BY <2>1, PlaceIs
  <2>3. QED
    BY <2>1, <2>2 DEF RingHolds
<1>2. DOMAIN f = 1..n /\ f = [i \in 1..n |-> f[i]] /\ \A i \in 1..n : f[i] = o.key[r[i]]
  OBVIOUS
<1>3. \A i, j \in 1..n : f[i] = f[j] => i = j
  <2>1. ASSUME NEW i \in 1..n, NEW j \in 1..n, f[i] = f[j] PROVE i = j
    <3>1. r[i] = r[j]
      BY <2>1, <1>1
    <3>2. QED
      BY <3>1 DEF RingHolds, Distinct
  <2>2. QED
    BY <2>1
<1> HIDE DEF f
<1>4. S = {f[i] : i \in 1..n}
  BY <1>1, <1>2 DEF None0
<1>5. {o.nodes[k] : k \in DesignValues} \ {None0} = o.live
  BY <1>1 DEF None0
<1> HIDE DEF S, n
<1>6. Cardinality(S) = n
  BY <1>1, <1>2, <1>3, <1>4, DistinctCount
<1>7. QED
  BY <1>1, <1>5, <1>6 DEF S

\* A node that is used moves to the front.
LEMMA RingMoved ==
  ASSUME NEW o, NEW s, NEW r, RingHolds(o, s, r), NEW p \in 1..Len(s)
  PROVE  LET u == LinkFront(UnlinkNode(o, r[p]), r[p])
         IN RingHolds(u, Moved(s, p), Moved(r, p)) /\ SameButLinks(u, o)
<1> DEFINE n == Len(s)
           m == r[p]
           q == RemoveAt(r, p)
           a == UnlinkNode(o, m)
           u == LinkFront(a, m)
           t == Moved(s, p)
           w == Moved(r, p)
<1>1. /\ o \in RingObjects /\ s \in Seq(KeyValues) /\ r \in Seq(RingNodes) /\ Len(r) = n /\ n \in Nat /\ p \in 1..n
      /\ Linked(o, r) /\ Distinct(r) /\ o.live = {r[i] : i \in 1..n} /\ m \in RingNodes /\ p \in 1..Len(r) /\ m \in Nodes0
  <2>1. o \in RingObjects /\ s \in Seq(KeyValues) /\ r \in Seq(RingNodes) /\ Len(r) = n /\ Linked(o, r) /\ Distinct(r) /\ o.live = {r[i] : i \in 1..n}
    BY DEF RingHolds
  <2>2. n \in Nat /\ p \in 1..n /\ m \in RingNodes
    BY <2>1
  <2>3. QED
    BY <2>1, <2>2 DEF RingNodes
<1>2. a \in RingObjects /\ SameButLinks(a, o)
  BY <1>1, UnlinkNodeIs
<1>3. Linked(a, q) /\ Distinct(q) /\ (\A i \in 1..(n - 1) : q[i] # m) /\ q \in Seq(RingNodes) /\ Len(q) = n - 1
  <2>1. Linked(a, q) /\ Distinct(q) /\ (\A i \in 1..(Len(r) - 1) : q[i] # m)
    BY <1>1, UnlinkedRing
  <2>2. q \in Seq(RingNodes) /\ Len(q) = Len(r) - 1
    BY <1>1, PlacesKept
  <2> HIDE DEF q, a
  <2>3. QED
    BY <2>1, <2>2, <1>1
<1> HIDE DEF a, m, q
<1>4. u \in RingObjects /\ SameButLinks(u, a)
  BY <1>1, <1>2, LinkFrontIs
<1>5. w = <<m>> \o q
  BY DEF Moved, w, m, q
<1>6. Linked(u, w) /\ Distinct(w)
  <2>1. \A i \in 1..Len(q) : q[i] # m
    BY <1>3
  <2>2. Linked(u, <<m>> \o q) /\ Distinct(<<m>> \o q)
    BY <2>1, <1>1, <1>2, <1>3, LinkedRing
  <2> HIDE DEF u, w
  <2>3. QED
    BY <2>2, <1>5
<1>7. t \in Seq(KeyValues) /\ Len(t) = n /\ \A i \in 1..n : Before(p, i) \in 1..n /\ t[i] = s[Before(p, i)]
  BY <1>1, MovedIs
<1>8. w \in Seq(RingNodes) /\ Len(w) = n /\ \A i \in 1..n : w[i] = r[Before(p, i)]
  <2>1. w \in Seq(RingNodes) /\ Len(w) = Len(r) /\ \A i \in 1..Len(r) : w[i] = r[Before(p, i)]
    BY <1>1, MovedIs
  <2> HIDE DEF w
  <2>2. QED
    BY <2>1, <1>1
<1>9. \A i \in 1..n : \E j \in 1..n : Before(p, j) = i
  BY <1>1, BeforeAll
<1> HIDE DEF u, t, w, n
<1>10. SameButLinks(u, o)
  BY <1>2, <1>4 DEF SameButLinks
<1>11. u.live = {w[i] : i \in 1..n}
  <2>1. {w[i] : i \in 1..n} = {r[i] : i \in 1..n}
    <3>1. \A i \in 1..n : Before(p, i) \in 1..n /\ w[i] = r[Before(p, i)]
      BY <1>7, <1>8
    <3>2. ASSUME NEW i \in 1..n PROVE \E j \in 1..n : w[j] = r[i]
      <4>1. PICK j \in 1..n : Before(p, j) = i
        BY <1>9
      <4>2. w[j] = r[i]
        BY <4>1, <1>8
      <4>3. QED
        BY <4>2
    <3>3. \A i \in 1..n : \E j \in 1..n : w[i] = r[j]
      BY <3>1
    <3> DEFINE A == {w[i] : i \in 1..n}
               B == {r[i] : i \in 1..n}
    <3>4. \A x : x \in A <=> x \in B
      <4>1. ASSUME NEW x \in A PROVE x \in B
        <5>1. PICK i \in 1..n : x = w[i]
          BY <4>1
        <5>2. PICK j \in 1..n : w[i] = r[j]
          BY <3>3
        <5>3. QED
          BY <5>1, <5>2
      <4>2. ASSUME NEW x \in B PROVE x \in A
        <5>1. PICK i \in 1..n : x = r[i]
          BY <4>2
        <5>2. PICK j \in 1..n : w[j] = r[i]
          BY <3>2
        <5>3. QED
          BY <5>1, <5>2
      <4>3. QED
        BY <4>1, <4>2
    <3> HIDE DEF A, B
    <3>5. A = B
      BY <3>4
    <3>6. QED
      BY <3>5 DEF A, B
  <2>2. QED
    BY <2>1, <1>1, <1>10 DEF SameButLinks
<1>12. \A i \in 1..n : /\ s[i] = <<o.key[r[i]], o.value[r[i]]>>
                       /\ o.key[r[i]] \in DesignValues /\ o.nodes[o.key[r[i]]] = r[i]
  BY <1>1 DEF RingHolds
<1>13. \A i \in 1..n : /\ t[i] = <<u.key[w[i]], u.value[w[i]]>>
                       /\ u.key[w[i]] \in DesignValues /\ u.nodes[u.key[w[i]]] = w[i]
  <2>1. ASSUME NEW i \in 1..n
        PROVE  t[i] = <<u.key[w[i]], u.value[w[i]]>> /\ u.key[w[i]] \in DesignValues /\ u.nodes[u.key[w[i]]] = w[i]
    <3> DEFINE b == Before(p, i)
    <3>1. b \in 1..n /\ t[i] = s[b] /\ w[i] = r[b]
      BY <1>7, <1>8
    <3> HIDE DEF b
    <3>2. s[b] = <<o.key[r[b]], o.value[r[b]]>> /\ o.key[r[b]] \in DesignValues /\ o.nodes[o.key[r[b]]] = r[b]
      BY <3>1, <1>12
    <3>3. QED
      BY <3>1, <3>2, <1>10 DEF SameButLinks
  <2>2. QED
    BY <2>1
<1>14. ASSUME NEW k \in DesignValues, u.nodes[k] # 0 PROVE \E i \in 1..n : w[i] = u.nodes[k] /\ u.key[w[i]] = k
  <2>1. PICK i \in 1..n : r[i] = o.nodes[k] /\ o.key[r[i]] = k
    BY <1>1, <1>10, <1>14 DEF RingHolds, SameButLinks
  <2>2. PICK j \in 1..n : Before(p, j) = i
    BY <1>9
  <2>3. w[j] = u.nodes[k] /\ u.key[w[j]] = k
    BY <2>1, <2>2, <1>8, <1>10 DEF SameButLinks
  <2>4. QED
    BY <2>3
<1>15. RingHolds(u, t, w)
  BY <1>4, <1>6, <1>7, <1>8, <1>11, <1>13, <1>14 DEF RingHolds
<1>16. QED
  BY <1>10, <1>15 DEF u, t, w, a, m

\* The value of the pair in front changes.
LEMMA RingStored ==
  ASSUME NEW o, NEW s, NEW r, RingHolds(o, s, r), Len(s) > 0, NEW value \in DesignValues,
         NEW t \in Seq(KeyValues), Len(t) = Len(s), t[1] = <<o.key[r[1]], value>>, \A i \in 2..Len(s) : t[i] = s[i]
  PROVE  RingHolds([o EXCEPT !.value[r[1]] = value], t, r)
<1> DEFINE n == Len(s)
           u == [o EXCEPT !.value[r[1]] = value]
<1>1. /\ o \in RingObjects /\ s \in Seq(KeyValues) /\ r \in Seq(RingNodes) /\ Len(r) = n /\ n \in Nat /\ 1 \in 1..n
      /\ Linked(o, r) /\ Distinct(r) /\ o.live = {r[i] : i \in 1..n}
  <2>1. o \in RingObjects /\ s \in Seq(KeyValues) /\ r \in Seq(RingNodes) /\ Len(r) = n /\ Linked(o, r) /\ Distinct(r) /\ o.live = {r[i] : i \in 1..n}
    BY DEF RingHolds
  <2>2. n \in Nat /\ 1 \in 1..n
    BY <2>1
  <2>3. QED
    BY <2>1, <2>2
<1>2. \A i \in 1..n : r[i] \in Nodes0
  BY <1>1, PlaceIs
<1>3. value \in Nat
  BY DesignAssumption
<1>4. /\ u \in RingObjects /\ u.value = [o.value EXCEPT ![r[1]] = value] /\ u.key = o.key /\ u.nodes = o.nodes /\ u.live = o.live
      /\ u.next = o.next /\ u.prev = o.prev
  BY <1>1, <1>3 DEF RingObjects
<1> HIDE DEF u, n
<1>5. Linked(u, r)
  BY <1>1, <1>4 DEF Linked
<1>6. \A i \in 1..n : i = 1 \/ i \in 2..n
  BY <1>1
<1>7. \A i \in 2..n : i \in 1..n /\ r[i] # r[1]
  <2>1. \A i \in 2..n : i \in 1..n /\ i # 1
    BY <1>1
  <2>2. QED
    BY <2>1, <1>1 DEF Distinct
<1>8. o.value \in [Nodes0 -> Nat]
  BY <1>1 DEF RingObjects
<1>9. u.value[r[1]] = value /\ \A i \in 2..n : u.value[r[i]] = o.value[r[i]]
  BY <1>1, <1>2, <1>4, <1>7, <1>8
<1>10. \A i \in 1..n : /\ s[i] = <<o.key[r[i]], o.value[r[i]]>>
                       /\ o.key[r[i]] \in DesignValues /\ o.nodes[o.key[r[i]]] = r[i]
  BY <1>1 DEF RingHolds
<1>11. \A i \in 1..n : t[i] = <<u.key[r[i]], u.value[r[i]]>>
  <2>1. t[1] = <<u.key[r[1]], u.value[r[1]]>>
    BY <1>4, <1>9
  <2>2. ASSUME NEW i \in 2..n PROVE t[i] = <<u.key[r[i]], u.value[r[i]]>>
    <3>1. t[i] = s[i] /\ i \in 1..n
      BY <1>7 DEF n
    <3>2. QED
      BY <3>1, <1>4, <1>9, <1>10
  <2>3. QED
    BY <2>1, <2>2, <1>6
<1>12. QED
  <2>1. Len(t) = n /\ t \in Seq(KeyValues)
    BY DEF n
  <2>2. \A k \in DesignValues : u.nodes[k] # 0 => \E i \in 1..n : r[i] = u.nodes[k] /\ u.key[r[i]] = k
    BY <1>1, <1>4 DEF RingHolds
  <2>3. RingHolds(u, t, r)
    BY <2>1, <2>2, <1>1, <1>4, <1>5, <1>10, <1>11 DEF RingHolds
  <2>4. QED
    BY <2>3 DEF u

\* A new node comes in front.
LEMMA RingGrown ==
  ASSUME NEW o, NEW s, NEW r, RingHolds(o, s, r), NEW n \in RingNodes, n \notin o.live,
         NEW key \in DesignValues, NEW value \in DesignValues, o.nodes[key] = 0
  PROVE  RingHolds(LinkFront([o EXCEPT !.key[n] = key, !.value[n] = value, !.nodes[key] = n, !.live = @ \cup {n}], n),
                   <<<<key, value>>>> \o s, <<n>> \o r)
<1> DEFINE m == Len(s)
           a == [o EXCEPT !.key[n] = key, !.value[n] = value, !.nodes[key] = n, !.live = @ \cup {n}]
           u == LinkFront(a, n)
           t == <<<<key, value>>>> \o s
           w == <<n>> \o r
<1>1. /\ o \in RingObjects /\ s \in Seq(KeyValues) /\ r \in Seq(RingNodes) /\ Len(r) = m /\ m \in Nat
      /\ Linked(o, r) /\ Distinct(r) /\ o.live = {r[i] : i \in 1..m}
      /\ \A i \in 1..m : /\ s[i] = <<o.key[r[i]], o.value[r[i]]>> /\ o.key[r[i]] \in DesignValues /\ o.nodes[o.key[r[i]]] = r[i]
  <2>1. o \in RingObjects /\ s \in Seq(KeyValues) /\ r \in Seq(RingNodes) /\ Len(r) = m /\ Linked(o, r) /\ Distinct(r) /\ o.live = {r[i] : i \in 1..m}
    BY DEF RingHolds
  <2>2. m \in Nat
    BY <2>1
  <2>3. \A i \in 1..m : /\ s[i] = <<o.key[r[i]], o.value[r[i]]>> /\ o.key[r[i]] \in DesignValues /\ o.nodes[o.key[r[i]]] = r[i]
    BY <2>1 DEF RingHolds
  <2>4. QED
    BY <2>1, <2>2, <2>3
<1>2. \A i \in 1..m : r[i] \in Nodes0 /\ r[i] # n
  BY <1>1, PlaceIs
<1>3. n \in Nodes0 /\ n # 0 /\ key \in Nat /\ value \in Nat
  BY DesignAssumption DEF RingNodes
<1>4. a \in RingObjects /\ a.next = o.next /\ a.prev = o.prev
  BY <1>1, <1>3 DEF RingObjects
<1>5. /\ a.key = [o.key EXCEPT ![n] = key] /\ a.value = [o.value EXCEPT ![n] = value]
      /\ a.nodes = [o.nodes EXCEPT ![key] = n] /\ a.live = o.live \cup {n}
  BY <1>1, <1>3 DEF RingObjects
<1> HIDE DEF a
<1>6. u \in RingObjects /\ SameButLinks(u, a)
  BY <1>4, LinkFrontIs
<1>7. Linked(a, r)
  BY <1>1, <1>4 DEF Linked
<1>8. w \in Seq(RingNodes) /\ Len(w) = m + 1 /\ Linked(u, w) /\ Distinct(w)
  <2>1. \A i \in 1..Len(r) : r[i] # n
    BY <1>1, <1>2
  <2>2. w \in Seq(RingNodes) /\ Len(w) = Len(r) + 1 /\ Linked(u, w) /\ Distinct(w)
    BY <2>1, <1>1, <1>4, <1>7, LinkedRing
  <2> HIDE DEF u, w
  <2>3. QED
    BY <2>2, <1>1
<1>9. w[1] = n /\ \A i \in 1..m : w[i + 1] = r[i]
  <2>1. w[1] = n /\ \A i \in 1..Len(r) : w[i + 1] = r[i]
    BY <1>1, PrependIs
  <2> HIDE DEF w
  <2>2. QED
    BY <2>1, <1>1
<1>10. t \in Seq(KeyValues) /\ Len(t) = m + 1 /\ t[1] = <<key, value>> /\ \A i \in 1..m : t[i + 1] = s[i]
  <2>1. <<key, value>> \in KeyValues
    BY DEF KeyValues
  <2>2. QED
    BY <2>1, <1>1, PrependIs
<1> HIDE DEF u, t, w, m
<1>11. \A i \in 1..(m + 1) : i = 1 \/ \E j \in 1..m : i = j + 1
  <2>1. ASSUME NEW i \in 1..(m + 1), i # 1 PROVE i - 1 \in 1..m /\ i = (i - 1) + 1
    BY <2>1, <1>1
  <2>2. QED
    BY <2>1
<1>12. /\ o.key \in [Nodes0 -> Nat] /\ o.value \in [Nodes0 -> Nat] /\ o.nodes \in [DesignValues -> Nodes0]
  BY <1>1 DEF RingObjects
<1>13. /\ u.key[n] = key /\ u.value[n] = value /\ u.nodes[key] = n
       /\ \A x \in Nodes0 : x # n => u.key[x] = o.key[x] /\ u.value[x] = o.value[x]
       /\ \A k \in DesignValues : k # key => u.nodes[k] = o.nodes[k]
  BY <1>3, <1>5, <1>6, <1>12 DEF SameButLinks
<1>14. \A i \in 1..m : o.key[r[i]] # key
  <2>1. \A i \in 1..m : r[i] # 0
    BY <1>1, PlaceIs
  <2>2. QED
    BY <2>1, <1>1
<1>15. ASSUME NEW i \in 1..(m + 1)
       PROVE  t[i] = <<u.key[w[i]], u.value[w[i]]>> /\ u.key[w[i]] \in DesignValues /\ u.nodes[u.key[w[i]]] = w[i]
  <2>1. CASE i = 1
    BY <2>1, <1>9, <1>10, <1>13
  <2>2. ASSUME NEW j \in 1..m, i = j + 1
        PROVE  t[i] = <<u.key[w[i]], u.value[w[i]]>> /\ u.key[w[i]] \in DesignValues /\ u.nodes[u.key[w[i]]] = w[i]
    <3>1. t[i] = s[j] /\ w[i] = r[j]
      BY <2>2, <1>9, <1>10
    <3>2. s[j] = <<o.key[r[j]], o.value[r[j]]>> /\ o.key[r[j]] \in DesignValues /\ o.nodes[o.key[r[j]]] = r[j]
      BY <1>1
    <3>3. u.key[r[j]] = o.key[r[j]] /\ u.value[r[j]] = o.value[r[j]] /\ u.nodes[o.key[r[j]]] = o.nodes[o.key[r[j]]]
      BY <3>2, <1>2, <1>13, <1>14
    <3>4. QED
      BY <3>1, <3>2, <3>3
  <2>3. QED
    BY <2>1, <2>2, <1>11
<1>16. u.live = {w[i] : i \in 1..(m + 1)}
  <2>1. u.live = {r[i] : i \in 1..m} \cup {n}
    BY <1>1, <1>5, <1>6 DEF SameButLinks
  <2> DEFINE B == {w[i] : i \in 1..(m + 1)}
  <2>2. \A x \in B : x \in u.live
    <3>1. ASSUME NEW i \in 1..(m + 1) PROVE w[i] \in u.live
      BY <2>1, <1>9, <1>11
    <3>2. QED
      BY <3>1
  <2>3. \A x \in u.live : x \in B
    <3>1. 1 \in 1..(m + 1) /\ \A i \in 1..m : i + 1 \in 1..(m + 1)
      BY <1>1
    <3>2. n \in B
      BY <3>1, <1>9
    <3>3. \A i \in 1..m : r[i] \in B
      <4>1. ASSUME NEW i \in 1..m PROVE r[i] \in B
        <5>1. i + 1 \in 1..(m + 1) /\ w[i + 1] = r[i]
          BY <3>1, <1>9
        <5>2. QED
          BY <5>1
      <4>2. QED
        BY <4>1
    <3> HIDE DEF B
    <3>4. QED
      BY <2>1, <3>2, <3>3
  <2> HIDE DEF B
  <2>4. u.live = B
    BY <2>2, <2>3
  <2>5. QED
    BY <2>4 DEF B
<1>17. ASSUME NEW k \in DesignValues, u.nodes[k] # 0 PROVE \E i \in 1..(m + 1) : w[i] = u.nodes[k] /\ u.key[w[i]] = k
  <2>1. CASE k = key
    <3>1. 1 \in 1..(m + 1)
      BY <1>1
    <3>2. QED
      BY <2>1, <3>1, <1>9, <1>13
  <2>2. CASE k # key
    <3>1. PICK i \in 1..m : r[i] = o.nodes[k] /\ o.key[r[i]] = k
      BY <1>1, <1>13, <1>17, <2>2 DEF RingHolds
    <3>2. i + 1 \in 1..(m + 1) /\ w[i + 1] = r[i]
      BY <1>1, <1>9
    <3>3. u.nodes[k] = r[i] /\ u.key[r[i]] = k
      BY <3>1, <2>2, <1>2, <1>13
    <3>4. QED
      BY <3>2, <3>3
  <2>3. QED
    BY <2>1, <2>2
<1>18. RingHolds(u, t, w)
  BY <1>6, <1>8, <1>10, <1>15, <1>16, <1>17 DEF RingHolds
<1>19. QED
  BY <1>18 DEF u, t, w, a

\* The last node leaves, and its key.
LEMMA RingShrunk ==
  ASSUME NEW o, NEW s, NEW r, RingHolds(o, s, r), Len(s) > 0
  PROVE  RingHolds(Evict(o), RemoveAt(s, Len(s)), RemoveAt(r, Len(r)))
<1> DEFINE n == Len(s)
           m == r[n]
           key == o.key[m]
           a == [o EXCEPT !.nodes[key] = 0]
           b == UnlinkNode(a, m)
           u == [b EXCEPT !.live = @ \ {m}]
           t == RemoveAt(s, n)
           w == RemoveAt(r, n)
<1>1. /\ o \in RingObjects /\ s \in Seq(KeyValues) /\ r \in Seq(RingNodes) /\ Len(r) = n /\ n \in Nat /\ n \in 1..n /\ m \in Nodes0 /\ m # 0
      /\ Linked(o, r) /\ Distinct(r) /\ o.live = {r[i] : i \in 1..n} /\ n \in 1..Len(r)
      /\ \A i \in 1..n : /\ s[i] = <<o.key[r[i]], o.value[r[i]]>> /\ o.key[r[i]] \in DesignValues /\ o.nodes[o.key[r[i]]] = r[i]
  <2>1. o \in RingObjects /\ s \in Seq(KeyValues) /\ r \in Seq(RingNodes) /\ Len(r) = n /\ Linked(o, r) /\ Distinct(r) /\ o.live = {r[i] : i \in 1..n}
    BY DEF RingHolds
  <2>2. n \in Nat /\ n \in 1..n
    BY <2>1
  <2>3. \A i \in 1..n : /\ s[i] = <<o.key[r[i]], o.value[r[i]]>> /\ o.key[r[i]] \in DesignValues /\ o.nodes[o.key[r[i]]] = r[i]
    BY <2>1 DEF RingHolds
  <2>4. m \in Nodes0 /\ m # 0
    BY <2>1, <2>2, PlaceIs
  <2>5. QED
    BY <2>1, <2>2, <2>3, <2>4
<1>2. o.prev[0] = m
  <2>1. Place(r, n + 1) = 0 /\ Place(r, n) = r[n]
    BY <1>1, PlaceIs
  <2>2. n \in 0..Len(r)
    BY <1>1
  <2>3. o.prev[Place(r, n + 1)] = Place(r, n)
    BY <2>2, <1>1 DEF Linked
  <2>4. QED
    BY <2>1, <2>3
<1>3. u = Evict(o)
  BY <1>2 DEF Evict, None0
<1>4. key \in DesignValues /\ 0 \in Nodes0
  BY <1>1, DesignAssumption DEF Nodes0
<1>5. a \in RingObjects /\ a.next = o.next /\ a.prev = o.prev /\ a.key = o.key /\ a.value = o.value /\ a.live = o.live
      /\ a.nodes = [o.nodes EXCEPT ![key] = 0]
  BY <1>1, <1>4 DEF RingObjects
<1> HIDE DEF a, key, m
<1>6. b \in RingObjects /\ SameButLinks(b, a)
  BY <1>1, <1>5, UnlinkNodeIs
<1>7. Linked(a, r)
  BY <1>1, <1>5 DEF Linked
<1>8. Linked(b, w) /\ Distinct(w) /\ \A i \in 1..(n - 1) : w[i] # m
  <2>1. Linked(UnlinkNode(a, r[n]), RemoveAt(r, n)) /\ Distinct(RemoveAt(r, n)) /\ \A i \in 1..(Len(r) - 1) : RemoveAt(r, n)[i] # r[n]
    BY <1>1, <1>5, <1>7, UnlinkedRing
  <2>2. QED
    BY <2>1, <1>1 DEF m
<1> HIDE DEF b
<1>9. /\ u \in RingObjects /\ u.next = b.next /\ u.prev = b.prev /\ u.key = o.key /\ u.value = o.value /\ u.nodes = a.nodes
      /\ u.live = o.live \ {m}
  BY <1>5, <1>6 DEF RingObjects, SameButLinks
<1>10. t \in Seq(KeyValues) /\ Len(t) = n - 1 /\ \A i \in 1..(n - 1) : t[i] = s[i]
  <2>1. t \in Seq(KeyValues) /\ Len(t) = Len(s) - 1 /\ \A i \in 1..(Len(s) - 1) : t[i] = IF i < n THEN s[i] ELSE s[i + 1]
    BY <1>1, RemoveAtIs
  <2> HIDE DEF t
  <2>2. \A i \in 1..(n - 1) : i < n
    BY <1>1
  <2>3. QED
    BY <2>1, <2>2
<1>11. w \in Seq(RingNodes) /\ Len(w) = n - 1 /\ \A i \in 1..(n - 1) : w[i] = r[i]
  <2>1. w \in Seq(RingNodes) /\ Len(w) = Len(r) - 1 /\ \A i \in 1..(Len(r) - 1) : w[i] = IF i < n THEN r[i] ELSE r[i + 1]
    BY <1>1, RemoveAtIs
  <2> HIDE DEF w, n
  <2>2. Len(r) = n
    BY <1>1
  <2>3. \A i \in 1..(n - 1) : i < n
    BY <1>1
  <2>4. QED
    BY <2>1, <2>2, <2>3
<1> HIDE DEF u, t, w, n
<1>12. Linked(u, w)
  BY <1>8, <1>9 DEF Linked
<1>13. \A i \in 1..(n - 1) : i \in 1..n /\ i # n
  BY <1>1
<1>14. \A i \in 1..n : i # n => i \in 1..(n - 1)
  BY <1>1
<1>15. \A i \in 1..(n - 1) : r[i] # m
  BY <1>8, <1>11
<1>16. u.live = {w[i] : i \in 1..(n - 1)}
  <2> DEFINE B == {w[i] : i \in 1..(n - 1)}
  <2>1. \A x \in B : x \in u.live
    <3>1. ASSUME NEW i \in 1..(n - 1) PROVE w[i] \in u.live
      BY <1>1, <1>9, <1>11, <1>13, <1>15
    <3>2. QED
      BY <3>1
  <2>2. \A x \in u.live : x \in B
    <3>1. ASSUME NEW i \in 1..n, r[i] # m PROVE r[i] \in B
      <4>1. i \in 1..(n - 1) /\ w[i] = r[i]
        BY <3>1, <1>11, <1>14 DEF m
      <4>2. QED
        BY <4>1
    <3> HIDE DEF B
    <3>2. QED
      BY <3>1, <1>1, <1>9
  <2> HIDE DEF B
  <2>3. u.live = B
    BY <2>1, <2>2
  <2>4. QED
    BY <2>3 DEF B
<1>17. o.nodes \in [DesignValues -> Nodes0]
  BY <1>1 DEF RingObjects
<1>18. u.nodes[key] = 0 /\ \A k \in DesignValues : k # key => u.nodes[k] = o.nodes[k]
  BY <1>4, <1>5, <1>9, <1>17
<1>19. \A i \in 1..(n - 1) : o.key[r[i]] # key
  <2>1. ASSUME NEW i \in 1..(n - 1), o.key[r[i]] = key PROVE FALSE
    <3>1. o.nodes[o.key[r[i]]] = r[i] /\ o.nodes[key] = m
      BY <1>1, <1>13 DEF key, m
    <3>2. QED
      BY <2>1, <3>1, <1>15
  <2>2. QED
    BY <2>1
<1>20. ASSUME NEW i \in 1..(n - 1)
       PROVE  t[i] = <<u.key[w[i]], u.value[w[i]]>> /\ u.key[w[i]] \in DesignValues /\ u.nodes[u.key[w[i]]] = w[i]
  <2>1. t[i] = s[i] /\ w[i] = r[i] /\ i \in 1..n
    BY <1>10, <1>11, <1>13
  <2>2. s[i] = <<o.key[r[i]], o.value[r[i]]>> /\ o.key[r[i]] \in DesignValues /\ o.nodes[o.key[r[i]]] = r[i]
    BY <2>1, <1>1
  <2>3. u.nodes[o.key[r[i]]] = o.nodes[o.key[r[i]]]
    BY <2>2, <1>18, <1>19
  <2>4. QED
    BY <2>1, <2>2, <2>3, <1>9
<1>21. ASSUME NEW k \in DesignValues, u.nodes[k] # 0 PROVE \E i \in 1..(n - 1) : w[i] = u.nodes[k] /\ u.key[w[i]] = k
  <2>1. k # key /\ u.nodes[k] = o.nodes[k]
    BY <1>18, <1>21
  <2>2. PICK i \in 1..n : r[i] = o.nodes[k] /\ o.key[r[i]] = k
    BY <2>1, <1>1, <1>21 DEF RingHolds
  <2>3. i # n
    BY <2>1, <2>2 DEF key, m
  <2>4. i \in 1..(n - 1) /\ w[i] = r[i]
    BY <2>3, <1>11, <1>14
  <2>5. QED
    BY <2>1, <2>2, <2>4, <1>9
<1>22. RingHolds(u, t, w)
  BY <1>8, <1>9, <1>10, <1>11, <1>12, <1>16, <1>20, <1>21 DEF RingHolds
<1>23. QED
  BY <1>1, <1>3, <1>22 DEF t, w, n

\* What is due of the ring is what is due of the other cache.
LEMMA RingStep ==
  ASSUME NEW key \in DesignValues, NEW value \in DesignValues, RingAgrees(own, ideal),
         \/ Calls(RingGet(own, key), IdealGet(ideal, key))
         \/ Calls(RingPut(own, key, value), IdealPut(ideal, key, value))
  PROVE  RingAgrees(own', ideal') /\ returned'.got = returned'.due
<1> DEFINE n == Len(ideal)
           p == PairOf(ideal, key)
           m == own.nodes[key]
           without == RemoveAt(ideal, p)
<1>1. PICK r \in Seq(RingNodes) : RingHolds(own, ideal, r)
  BY DEF RingAgrees
<1>2. /\ ideal \in Seq(KeyValues) /\ n \in Nat /\ n <= DesignCapacity /\ DesignCapacity \in Nat \ {0}
      /\ own \in RingObjects /\ Len(r) = n
  BY <1>1, DesignAssumption DEF RingAgrees, RingHolds
<1>3. ASSUME m # 0
      PROVE  /\ HasPair(ideal, key) /\ p \in 1..n /\ m = r[p] /\ ideal[p] = <<key, own.value[m]>> /\ own.value[m] \in DesignValues
             /\ without \in Seq(KeyValues) /\ Len(without) = n - 1 /\ Without(ideal, key) = without
             /\ RingHolds(GetNode(own, key), Moved(ideal, p), Moved(r, p)) /\ SameButLinks(GetNode(own, key), own)
             /\ Moved(r, p)[1] = m /\ Moved(r, p) \in Seq(RingNodes)
  <2>1. HasPair(ideal, key) /\ p \in 1..n /\ m = r[p] /\ ideal[p] = <<key, own.value[m]>> /\ own.value[m] \in DesignValues
    BY <1>1, <1>3, RingHas
  <2>2. without \in Seq(KeyValues) /\ Len(without) = n - 1 /\ Without(ideal, key) = without
    BY <2>1, <1>2, RemoveAtIs DEF Without
  <2>3. GetNode(own, key) = LinkFront(UnlinkNode(own, r[p]), r[p])
    BY <2>1, <1>3 DEF GetNode, None0
  <2>4. RingHolds(GetNode(own, key), Moved(ideal, p), Moved(r, p)) /\ SameButLinks(GetNode(own, key), own)
    BY <2>1, <2>3, <1>1, RingMoved
  <2>5. Moved(r, p)[1] = m /\ Moved(r, p) \in Seq(RingNodes)
    <3>1. p \in 1..Len(r) /\ 1 \in 1..Len(r) /\ r \in Seq(RingNodes)
      BY <2>1, <1>2
    <3>2. Before(p, 1) = p
      BY DEF Before
    <3>3. QED
      BY <2>1, <3>1, <3>2, MovedIs
  <2>6. QED
    BY <2>1, <2>2, <2>4, <2>5
<1>4. m = 0 => ~ HasPair(ideal, key)
  BY <1>1, RingHas
<1> HIDE DEF p, without, m, n
<1>5. CASE Calls(RingGet(own, key), IdealGet(ideal, key))
  <2>1. CASE m = 0
    <3>1. RingGet(own, key) = Result(own, -1) /\ IdealGet(ideal, key) = Result(ideal, -1)
      BY <2>1, <1>4 DEF RingGet, GetNode, IdealGet, None0, m
    <3>2. QED
      BY <3>1, <1>5 DEF Calls, Result
  <2>2. CASE m # 0
    <3> DEFINE v == own.value[m]
    <3>1. RingGet(own, key) = Result(GetNode(own, key), v)
      BY <2>2 DEF RingGet, None0, m
    <3>2. IdealGet(ideal, key) = Result(Moved(ideal, p), v)
      <4>1. ideal[p] = <<key, v>> /\ ideal[p][2] = v
        BY <2>2, <1>3
      <4>2. HasPair(ideal, key) /\ Without(ideal, key) = without
        BY <2>2, <1>3
      <4>3. QED
        BY <4>1, <4>2 DEF IdealGet, p, Moved, without
    <3>3. own' = GetNode(own, key) /\ ideal' = Moved(ideal, p) /\ returned'.got = v /\ returned'.due = v
      BY <3>1, <3>2, <1>5 DEF Calls, Result
    <3>4. Len(Moved(ideal, p)) = n
      BY <2>2, <1>2, <1>3, MovedIs DEF n
    <3>5. RingHolds(own', ideal', Moved(r, p)) /\ Len(ideal') <= DesignCapacity /\ Moved(r, p) \in Seq(RingNodes)
      BY <2>2, <3>3, <3>4, <1>2, <1>3
    <3>6. QED
      BY <3>3, <3>5 DEF RingAgrees
  <2>3. QED
    BY <2>1, <2>2
<1>6. CASE Calls(RingPut(own, key, value), IdealPut(ideal, key, value))
  <2> DEFINE kv == <<key, value>>
             used == <<kv>> \o Without(ideal, key)
             c == DesignCapacity
  <2>1. kv \in KeyValues
    BY DEF KeyValues
  <2>2. ASSUME NEW s \in Seq(KeyValues), Without(ideal, key) = s
        PROVE  /\ used \in Seq(KeyValues) /\ Len(used) = Len(s) + 1 /\ used[1] = kv
               /\ \A i \in 1..Len(s) : used[i + 1] = s[i]
    <3> HIDE DEF kv
    <3>1. QED
      BY <2>1, <2>2, PrependIs
  <2>3. ASSUME used \in Seq(KeyValues), Len(used) <= c PROVE IdealPut(ideal, key, value) = Result(used, 0)
    <3>1. Len(used) \in Nat /\ SubSeq(used, 1, Len(used)) = used
      BY <2>3
    <3>2. ~ (Len(used) > c)
      BY <2>3, <3>1, <1>2
    <3> HIDE DEF used
    <3>3. QED
      BY <3>1, <3>2 DEF IdealPut, used
  <2> HIDE DEF kv
  <2>4. CASE m # 0
    <3> DEFINE u == [GetNode(own, key) EXCEPT !.value[m] = value]
    <3>1. RingPut(own, key, value) = Result(u, 0)
      BY <2>4 DEF RingPut, None0, m
    <3>2. used \in Seq(KeyValues) /\ Len(used) = n /\ used[1] = kv /\ used = <<kv>> \o without /\ \A i \in 1..(n - 1) : used[i + 1] = without[i]
      <4>1. without \in Seq(KeyValues) /\ Len(without) = n - 1 /\ Without(ideal, key) = without
        BY <2>4, <1>3
      <4>2. used \in Seq(KeyValues) /\ Len(used) = n - 1 + 1 /\ used[1] = kv /\ \A i \in 1..(n - 1) : used[i + 1] = without[i]
        BY <4>1, <2>2
      <4> HIDE DEF used
      <4>3. QED
        BY <4>1, <4>2, <1>2 DEF used
    <3>3. Moved(ideal, p) \in Seq(KeyValues) /\ Len(Moved(ideal, p)) = n /\ \A i \in 1..(n - 1) : Moved(ideal, p)[i + 1] = without[i]
      <4>1. ideal[p] \in KeyValues
        <5>1. p \in 1..Len(ideal)
          BY <2>4, <1>3 DEF n
        <5>2. QED
          BY <5>1, <1>2
      <4>2. without \in Seq(KeyValues) /\ Len(without) = n - 1
        BY <2>4, <1>3
      <4> DEFINE x == ideal[p]
      <4> HIDE DEF x
      <4>3. <<x>> \o without \in Seq(KeyValues) /\ Len(<<x>> \o without) = n - 1 + 1 /\ \A i \in 1..(n - 1) : (<<x>> \o without)[i + 1] = without[i]
        BY <4>1, <4>2, PrependIs DEF x
      <4>4. Moved(ideal, p) = <<x>> \o without
        BY DEF Moved, without, x
      <4>5. QED
        BY <4>3, <4>4, <1>2
    <3> DEFINE s == Moved(ideal, p)
               w == Moved(r, p)
               g == GetNode(own, key)
    <3>4. /\ RingHolds(g, s, w) /\ w[1] = m /\ w \in Seq(RingNodes) /\ g.key[w[1]] = key /\ n > 0
      <4>1. RingHolds(g, s, w) /\ w[1] = m /\ w \in Seq(RingNodes) /\ g.key = own.key /\ p \in 1..n /\ m = r[p] /\ ideal[p] = <<key, own.value[m]>>
        BY <2>4, <1>3 DEF SameButLinks
      <4>2. ideal[p] = <<own.key[r[p]], own.value[r[p]]>>
        BY <4>1, <1>1, <1>2 DEF RingHolds, n
      <4> HIDE DEF g, s, w
      <4>3. QED
        BY <4>1, <4>2, <1>2
    <3>5. \A i \in 2..n : used[i] = s[i]
      <4> HIDE DEF used, s
      <4>1. ASSUME NEW i \in 2..n PROVE used[i] = s[i]
        <5>1. i - 1 \in 1..(n - 1) /\ (i - 1) + 1 = i
          BY <1>2
        <5>2. used[(i - 1) + 1] = without[i - 1]
          BY <5>1, <3>2
        <5>3. s[(i - 1) + 1] = without[i - 1]
          BY <5>1, <3>3 DEF s
        <5>4. QED
          BY <5>1, <5>2, <5>3
      <4>2. QED
        BY <4>1
    <3>6. RingHolds(u, used, w)
      <4>1. Len(s) = n /\ Len(used) = n /\ used \in Seq(KeyValues) /\ used[1] = <<g.key[w[1]], value>>
        BY <3>2, <3>3, <3>4 DEF kv
      <4> HIDE DEF used, s, g, w
      <4>2. RingHolds([g EXCEPT !.value[w[1]] = value], used, w)
        BY <4>1, <3>4, <3>5, RingStored
      <4>3. QED
        BY <4>2, <3>4 DEF g
    <3> HIDE DEF u, used, w
    <3>7. Len(used) <= c
      BY <3>2, <1>2
    <3>8. IdealPut(ideal, key, value) = Result(used, 0)
      BY <3>2, <3>7, <2>3 DEF used
    <3>9. own' = u /\ ideal' = used /\ returned'.got = 0 /\ returned'.due = 0
      BY <3>1, <3>8, <1>6 DEF Calls, Result
    <3>10. QED
      BY <3>4, <3>6, <3>7, <3>9 DEF RingAgrees
  <2>5. CASE m = 0
    <3> DEFINE f == FirstFree(own.live)
               new == LinkFront([own EXCEPT !.key[f] = key, !.value[f] = value, !.nodes[key] = f, !.live = @ \cup {f}], f)
               w == <<f>> \o r
    <3>1. f \in RingNodes /\ f \notin own.live
      <4>1. own.live = {r[i] : i \in 1..n} /\ \A i, j \in 1..n : r[i] = r[j] => i = j
        BY <1>1, <1>2 DEF RingHolds, Distinct
      <4>2. DOMAIN r = 1..n /\ r = [i \in 1..n |-> r[i]] /\ n \in Nat
        BY <1>2
      <4>3. IsFiniteSet(own.live) /\ Cardinality(own.live) = n
        BY <4>1, <4>2, DistinctCount
      <4>4. f \in 1..(n + 1) /\ f \notin own.live
        BY <4>3, FirstFreeIs
      <4> HIDE DEF f
      <4>5. QED
        BY <4>4, <1>2 DEF RingNodes, Nodes0
    <3>2. Without(ideal, key) = ideal
      BY <2>5, <1>4 DEF Without
    <3>3. used \in Seq(KeyValues) /\ Len(used) = n + 1 /\ used[1] = kv /\ used = <<kv>> \o ideal
      BY <3>2, <2>2, <1>2 DEF n
    <3>4. RingHolds(new, used, w) /\ w \in Seq(RingNodes) /\ Len(w) = n + 1
      <4>1. own.nodes[key] = 0
        BY <2>5 DEF m
      <4> HIDE DEF f
      <4>2. RingHolds(new, <<<<key, value>>>> \o ideal, w)
        BY <3>1, <4>1, <1>1, RingGrown
      <4>3. w \in Seq(RingNodes) /\ Len(w) = n + 1
        BY <3>1, <1>2, PrependIs
      <4> HIDE DEF new, w
      <4>4. QED
        BY <4>2, <4>3, <3>2 DEF kv
    <3> HIDE DEF f, w, used
    <3>5. Cardinality({k \in DesignValues : new.nodes[k] # None0}) = n + 1
      <4> HIDE DEF new
      <4>1. QED
        BY <3>3, <3>4, RingHeld
    <3>6. RingPut(own, key, value) = Result(IF n + 1 > c THEN Evict(new) ELSE new, 0)
      BY <2>5, <3>5 DEF RingPut, None0, m, f
    <3> HIDE DEF new
    <3>7. CASE n + 1 <= c
      <4>1. ~ (n + 1 > c)
        BY <3>7, <1>2
      <4>2. IdealPut(ideal, key, value) = Result(used, 0)
        BY <3>3, <3>7, <2>3 DEF used
      <4>3. own' = new /\ ideal' = used /\ returned'.got = 0 /\ returned'.due = 0
        BY <4>1, <4>2, <3>6, <1>6 DEF Calls, Result
      <4>4. QED
        BY <4>3, <3>3, <3>4, <3>7 DEF RingAgrees
    <3>8. CASE ~ (n + 1 <= c)
      <4>1. n + 1 > c /\ n = c /\ n + 1 > 0
        BY <3>8, <1>2
      <4> DEFINE t == RemoveAt(used, n + 1)
                 x == RemoveAt(w, n + 1)
      <4>2. RingHolds(Evict(new), t, x)
        BY <4>1, <3>3, <3>4, RingShrunk
      <4>3. t \in Seq(KeyValues) /\ Len(t) = n /\ (\A i \in 1..n : t[i] = used[i])
        <5>1. n + 1 \in 1..Len(used) /\ Len(used) - 1 = n
          BY <3>3, <1>2
        <5>2. t \in Seq(KeyValues) /\ Len(t) = Len(used) - 1 /\ \A i \in 1..(Len(used) - 1) : t[i] = IF i < n + 1 THEN used[i] ELSE used[i + 1]
          BY <3>3, <5>1, RemoveAtIs
        <5> HIDE DEF t
        <5>3. QED
          BY <5>1, <5>2, <1>2
      <4>4. x \in Seq(RingNodes)
        <5>1. n + 1 \in 1..Len(w)
          BY <3>4, <1>2
        <5>2. QED
          BY <5>1, <3>4, RemoveAtIs
      <4> HIDE DEF t, x
      <4>5. SubSeq(used, 1, n) = t
        <5>1. SubSeq(used, 1, n) \in Seq(KeyValues) /\ Len(SubSeq(used, 1, n)) = n /\ \A i \in 1..n : SubSeq(used, 1, n)[i] = used[i]
          BY <3>3, <1>2
        <5> DEFINE y == SubSeq(used, 1, n)
        <5> HIDE DEF y
        <5>2. y \in Seq(KeyValues) /\ Len(y) = Len(t) /\ \A i \in 1..Len(y) : y[i] = t[i]
          BY <5>1, <4>3 DEF y
        <5>3. y = t
          BY <5>2, <4>3, SeqEqual
        <5>4. QED
          BY <5>3 DEF y
      <4>6. IdealPut(ideal, key, value) = Result(t, 0)
        <5>1. Len(used) > DesignCapacity
          BY <4>1, <3>3
        <5>2. IdealPut(ideal, key, value) = Result(SubSeq(used, 1, DesignCapacity), 0)
          BY <5>1 DEF IdealPut, used, kv
        <5>3. QED
          BY <5>2, <4>1, <4>5
      <4>7. own' = Evict(new) /\ ideal' = t /\ returned'.got = 0 /\ returned'.due = 0
        BY <4>1, <4>6, <3>6, <1>6 DEF Calls, Result
      <4>8. Len(t) <= DesignCapacity
        BY <4>1, <4>3, <1>2
      <4>9. QED
        BY <4>2, <4>4, <4>7, <4>8 DEF RingAgrees
    <3>9. QED
      BY <3>7, <3>8
  <2>6. QED
    BY <2>4, <2>5
<1>7. QED
  BY <1>5, <1>6

ListNodes == 1..DesignBound
ListObjects ==
  [next : [0..DesignBound -> ListNodes \cup {-1}], val : [0..DesignBound -> Nat], live : SUBSET ListNodes, size_ : Nat]

\* The nodes r in order behind the dummy node, with the elements s; -1 is behind the last.
Behind(r, i) == IF i \in 1..Len(r) THEN r[i] ELSE IF i = 0 THEN 0 ELSE -1
ListHolds(o, s, r) ==
  /\ o \in ListObjects /\ s \in Seq(DesignValues) /\ r \in Seq(ListNodes) /\ Len(r) = Len(s) /\ o.size_ = Len(s)
  /\ Distinct(r) /\ o.live = {r[i] : i \in 1..Len(r)}
  /\ \A i \in 0..Len(r) : o.next[Behind(r, i)] = Behind(r, i + 1)
  /\ \A i \in 1..Len(r) : o.val[r[i]] = s[i]
ListAgrees(o, s) == \E r \in Seq(ListNodes) : ListHolds(o, s, r)

\* What a list that agrees is made of.
LEMMA ListFacts ==
  ASSUME NEW o, NEW s, NEW r, ListHolds(o, s, r)
  PROVE  /\ o \in ListObjects /\ s \in Seq(DesignValues) /\ r \in Seq(ListNodes) /\ Len(r) = Len(s) /\ o.size_ = Len(s) /\ Len(s) \in Nat
         /\ Distinct(r) /\ o.live = {r[i] : i \in 1..Len(s)}
         /\ \A i \in 0..Len(s) : o.next[Behind(r, i)] = Behind(r, i + 1)
         /\ \A i \in 1..Len(s) : o.val[r[i]] = s[i] /\ s[i] \in DesignValues /\ r[i] \in ListNodes /\ r[i] \in 0..DesignBound /\ r[i] # 0
         /\ Behind(r, 0) = 0 /\ Behind(r, Len(s) + 1) = -1 /\ \A i \in 1..Len(s) : Behind(r, i) = r[i]
<1>1. o \in ListObjects /\ s \in Seq(DesignValues) /\ r \in Seq(ListNodes) /\ Len(r) = Len(s)
  BY DEF ListHolds
<1>2. Len(s) \in Nat /\ \A i \in 1..Len(s) : s[i] \in DesignValues /\ r[i] \in ListNodes
  BY <1>1
<1>3. \A i \in 1..Len(s) : r[i] \in 0..DesignBound /\ r[i] # 0
  BY <1>2, DesignAssumption DEF ListNodes
<1>4. Behind(r, 0) = 0 /\ Behind(r, Len(s) + 1) = -1 /\ \A i \in 1..Len(s) : Behind(r, i) = r[i]
  BY <1>1, <1>2 DEF Behind
<1>5. QED
  BY <1>1, <1>2, <1>3, <1>4 DEF ListHolds

\* A walk along the list ends at the node of its place.
LEMMA WalkedIs ==
  ASSUME NEW o, NEW s, NEW r, ListHolds(o, s, r), NEW k \in 0..Len(s)
  PROVE  Walked(o, k) = Behind(r, k)
<1> DEFINE Eq(f) == f = [j \in 0..k |-> IF j = 0 THEN 0 ELSE o.next[f[j - 1]]]
           f0 == [j \in 0..k |-> Behind(r, j)]
           cur == CHOOSE f : Eq(f)
<1>1. Len(s) \in Nat /\ k \in Nat /\ Behind(r, 0) = 0 /\ \A i \in 0..Len(s) : o.next[Behind(r, i)] = Behind(r, i + 1)
  BY ListFacts
<1>2. \A j \in 1..k : o.next[Behind(r, j - 1)] = Behind(r, j)
  <2>1. ASSUME NEW j \in 1..k PROVE o.next[Behind(r, j - 1)] = Behind(r, j)
    <3>1. j - 1 \in 0..Len(s) /\ (j - 1) + 1 = j
      BY <1>1
    <3>2. o.next[Behind(r, j - 1)] = Behind(r, (j - 1) + 1)
      BY <3>1, <1>1
    <3>3. QED
      BY <3>1, <3>2
  <2>2. QED
    BY <2>1
<1>3. Eq(f0)
  <2>1. \A j \in 0..k : f0[j] = Behind(r, j)
    OBVIOUS
  <2>2. ASSUME NEW j \in 0..k PROVE Behind(r, j) = IF j = 0 THEN 0 ELSE o.next[f0[j - 1]]
    <3>1. CASE j = 0
      BY <3>1, <1>1
    <3>2. CASE j # 0
      <4>1. j \in 1..k /\ j - 1 \in 0..k
        BY <3>2, <1>1
      <4> HIDE DEF f0
      <4>2. QED
        BY <3>2, <4>1, <2>1, <1>2
    <3>3. QED
      BY <3>1, <3>2
  <2>3. QED
    BY <2>2
<1> HIDE DEF Eq, f0
<1>4. Eq(cur)
  BY <1>3
<1>5. \A j \in 0..k : cur[j] = IF j = 0 THEN 0 ELSE o.next[cur[j - 1]]
  <2> HIDE DEF cur
  <2>1. QED
    BY <1>4 DEF Eq
<1>6. Walked(o, k) = cur[k]
  BY DEF Walked, Eq
<1> HIDE DEF cur
<1> DEFINE Good == {j \in 0..k : cur[j] = Behind(r, j)}
<1>7. 0 \in Good
  BY <1>1, <1>5
<1>8. ASSUME NEW j \in 1..k, j - 1 \in Good PROVE j \in Good
  <2>1. cur[j - 1] = Behind(r, j - 1)
    BY <1>8
  <2>2. j \in 0..k /\ j # 0
    BY <1>1
  <2>3. cur[j] = o.next[cur[j - 1]]
    BY <2>2, <1>5
  <2>4. cur[j] = Behind(r, j)
    BY <2>1, <2>3, <1>2
  <2>5. QED
    BY <2>2, <2>4
<1> HIDE DEF Good
<1>9. 0..k \subseteq Good
  BY <1>1, <1>7, <1>8, InductionUpTo
<1>10. k \in 0..k
  BY <1>1
<1>11. QED
  BY <1>6, <1>9, <1>10 DEF Good

\* A sequence with one element more at a place.
LEMMA InsertAtParts ==
  ASSUME NEW s, NEW j, NEW x
  PROVE  InsertAt(s, j, x) = SubSeq(s, 1, j - 1) \o <<x>> \o SubSeq(s, j, Len(s))
BY DEF InsertAt

\* What is behind the place of an insertion moves down.
LEMMA InsertAtIs ==
  ASSUME NEW T, NEW s \in Seq(T), NEW x \in T, NEW k \in 0..Len(s)
  PROVE  /\ InsertAt(s, k + 1, x) \in Seq(T) /\ Len(InsertAt(s, k + 1, x)) = Len(s) + 1
         /\ \A i \in 1..(Len(s) + 1) :
              InsertAt(s, k + 1, x)[i] = IF i <= k THEN s[i] ELSE IF i = k + 1 THEN x ELSE s[i - 1]
<1> DEFINE n == Len(s)
           a == SubSeq(s, 1, k)
           b == SubSeq(s, k + 1, n)
           ax == Append(a, x)
<1>1. n \in Nat /\ k \in Nat /\ k <= n /\ 1 \in Int /\ k \in Int /\ k + 1 \in Int /\ n \in Int /\ \A i \in 1..n : s[i] \in T
  OBVIOUS
<1>2. a \in Seq(T) /\ Len(a) = k /\ \A i \in 1..k : a[i] = s[i]
  <2>1. \A i \in 1..k : s[i] \in T
    BY <1>1
  <2> HIDE DEF n
  <2>2. /\ a \in Seq(T) /\ Len(a) = (IF 1 <= k THEN k - 1 + 1 ELSE 0)
        /\ \A i \in 1..(k - 1 + 1) : a[i] = s[1 + i - 1]
    BY <2>1, <1>1, SubSeqProperties
  <2>3. k - 1 + 1 = k /\ (IF 1 <= k THEN k - 1 + 1 ELSE 0) = k /\ \A i \in 1..k : 1 + i - 1 = i
    BY <1>1
  <2> HIDE DEF a
  <2>4. QED
    BY <2>2, <2>3
<1>3. b \in Seq(T) /\ Len(b) = n - k /\ \A i \in 1..(n - k) : b[i] = s[k + i]
  <2>1. \A i \in (k + 1)..n : s[i] \in T
    BY <1>1
  <2> HIDE DEF n
  <2>2. /\ b \in Seq(T) /\ Len(b) = (IF k + 1 <= n THEN n - (k + 1) + 1 ELSE 0)
        /\ \A i \in 1..(n - (k + 1) + 1) : b[i] = s[k + 1 + i - 1]
    BY <2>1, <1>1, SubSeqProperties
  <2>3. n - (k + 1) + 1 = n - k /\ (IF k + 1 <= n THEN n - (k + 1) + 1 ELSE 0) = n - k /\ \A i \in 1..(n - k) : k + 1 + i - 1 = k + i
    BY <1>1
  <2> HIDE DEF b
  <2>4. QED
    BY <2>2, <2>3
<1>4. InsertAt(s, k + 1, x) = a \o <<x>> \o b
  <2> DEFINE j == k + 1
  <2>1. j - 1 = k
    BY <1>1
  <2> HIDE DEF j
  <2>2. InsertAt(s, j, x) = SubSeq(s, 1, j - 1) \o <<x>> \o SubSeq(s, j, Len(s))
    BY InsertAtParts
  <2>3. InsertAt(s, j, x) = SubSeq(s, 1, k) \o <<x>> \o SubSeq(s, j, Len(s))
    BY <2>1, <2>2
  <2>4. QED
    BY <2>3 DEF j
<1> HIDE DEF a, b, n
<1>5. ax \in Seq(T) /\ Len(ax) = k + 1 /\ ax[k + 1] = x /\ \A i \in 1..k : ax[i] = s[i]
  <2>1. ax \in Seq(T) /\ Len(ax) = Len(a) + 1 /\ ax[Len(a) + 1] = x /\ \A i \in 1..Len(a) : ax[i] = a[i]
    BY <1>2, AppendIs
  <2> HIDE DEF ax
  <2>2. QED
    BY <2>1, <1>2
<1>6. a \o <<x>> = ax
  BY <1>2
<1> HIDE DEF ax
<1> DEFINE t == ax \o b
<1>7. t \in Seq(T) /\ Len(t) = Len(ax) + Len(b) /\ \A i \in 1..(Len(ax) + Len(b)) : t[i] = IF i <= Len(ax) THEN ax[i] ELSE b[i - Len(ax)]
  BY <1>3, <1>5, ConcatProperties
<1> HIDE DEF t
<1>8. Len(ax) + Len(b) = n + 1
  BY <1>1, <1>3, <1>5
<1>9. ASSUME NEW i \in 1..(n + 1) PROVE t[i] = IF i <= k THEN s[i] ELSE IF i = k + 1 THEN x ELSE s[i - 1]
  <2>1. CASE i <= k
    <3>1. i \in 1..k /\ i <= k + 1
      BY <2>1, <1>1
    <3>2. QED
      BY <2>1, <3>1, <1>5, <1>7, <1>8
  <2>2. CASE i = k + 1
    <3>1. i <= k + 1 /\ ~ (i <= k)
      BY <2>2, <1>1
    <3>2. QED
      BY <2>2, <3>1, <1>5, <1>7, <1>8
  <2>3. CASE ~ (i <= k) /\ i # k + 1
    <3>1. i - (k + 1) \in 1..(n - k) /\ ~ (i <= k + 1) /\ k + (i - (k + 1)) = i - 1
      BY <2>3, <1>1
    <3>2. t[i] = b[i - (k + 1)]
      BY <3>1, <1>5, <1>7, <1>8
    <3>3. b[i - (k + 1)] = s[k + (i - (k + 1))]
      BY <3>1, <1>3
    <3>4. QED
      BY <2>3, <3>1, <3>2, <3>3
  <2>4. QED
    BY <2>1, <2>2, <2>3
<1>10. InsertAt(s, k + 1, x) = t
  BY <1>4, <1>6 DEF t
<1>11. QED
  BY <1>7, <1>8, <1>9, <1>10 DEF n

\* A new node behind the one at a place.
LEMMA ListGrown ==
  ASSUME NEW o, NEW s, NEW r, ListHolds(o, s, r), Len(s) < DesignBound, NEW k \in 0..Len(s), NEW v \in DesignValues
  PROVE  /\ ListAgrees(LinkAfter(o, Behind(r, k), v).own, InsertAt(s, k + 1, v))
         /\ LinkAfter(o, Behind(r, k), v).out = 0
<1> DEFINE n == Len(s)
           f == FirstFree(o.live)
           cur == Behind(r, k)
           u == [val |-> [o.val EXCEPT ![f] = v], live |-> o.live \cup {f}, size_ |-> o.size_ + 1,
                 next |-> [o.next EXCEPT ![f] = o.next[cur], ![cur] = f]]
           t == InsertAt(s, k + 1, v)
           w == InsertAt(r, k + 1, f)
<1>1. /\ o \in ListObjects /\ s \in Seq(DesignValues) /\ r \in Seq(ListNodes) /\ Len(r) = n /\ o.size_ = n /\ n \in Nat
      /\ Distinct(r) /\ o.live = {r[i] : i \in 1..n}
      /\ \A i \in 0..n : o.next[Behind(r, i)] = Behind(r, i + 1)
      /\ \A i \in 1..n : o.val[r[i]] = s[i] /\ s[i] \in DesignValues /\ r[i] \in ListNodes /\ r[i] \in 0..DesignBound /\ r[i] # 0
      /\ Behind(r, 0) = 0 /\ Behind(r, n + 1) = -1 /\ \A i \in 1..n : Behind(r, i) = r[i]
  BY ListFacts
<1>2. k \in Nat /\ k <= n /\ DesignBound \in Nat /\ n < DesignBound /\ v \in Nat
  BY <1>1, DesignAssumption
<1>3. f \in ListNodes /\ f \in 0..DesignBound /\ f # 0 /\ f # -1 /\ \A i \in 1..n : r[i] # f
  <2>1. \A i, j \in 1..n : r[i] = r[j] => i = j
    BY <1>1 DEF Distinct
  <2>2. DOMAIN r = 1..n /\ r = [i \in 1..n |-> r[i]]
    BY <1>1
  <2>3. IsFiniteSet(o.live) /\ Cardinality(o.live) = n
    <3> DEFINE S == o.live
    <3>1. S = {r[i] : i \in 1..n} /\ n \in Nat
      BY <1>1
    <3> HIDE DEF n, S
    <3>2. IsFiniteSet(S) /\ Cardinality(S) = n
      BY <2>1, <2>2, <3>1, DistinctCount
    <3>3. QED
      BY <3>2 DEF S
  <2>4. f \in 1..(n + 1) /\ f \notin o.live
    BY <2>3, FirstFreeIs
  <2> HIDE DEF f
  <2>5. QED
    BY <2>4, <1>1, <1>2 DEF ListNodes
<1>4. LinkAfter(o, cur, v).own = u /\ LinkAfter(o, cur, v).out = 0
  BY DEF LinkAfter, Result
<1> HIDE DEF f
<1>5. /\ t \in Seq(DesignValues) /\ Len(t) = n + 1
      /\ \A i \in 1..(n + 1) : t[i] = IF i <= k THEN s[i] ELSE IF i = k + 1 THEN v ELSE s[i - 1]
  <2>1. k \in 0..Len(s) /\ v \in DesignValues /\ s \in Seq(DesignValues)
    BY <1>1
  <2>2. /\ t \in Seq(DesignValues) /\ Len(t) = Len(s) + 1
        /\ \A i \in 1..(Len(s) + 1) : t[i] = IF i <= k THEN s[i] ELSE IF i = k + 1 THEN v ELSE s[i - 1]
    BY <2>1, InsertAtIs
  <2> HIDE DEF t
  <2>3. QED
    BY <2>2
<1>6. /\ w \in Seq(ListNodes) /\ Len(w) = n + 1
      /\ \A i \in 1..(n + 1) : w[i] = IF i <= k THEN r[i] ELSE IF i = k + 1 THEN f ELSE r[i - 1]
  <2>1. k \in 0..Len(r)
    BY <1>1
  <2>2. /\ w \in Seq(ListNodes) /\ Len(w) = Len(r) + 1
        /\ \A i \in 1..(Len(r) + 1) : w[i] = IF i <= k THEN r[i] ELSE IF i = k + 1 THEN f ELSE r[i - 1]
    <3>1. r \in Seq(ListNodes) /\ f \in ListNodes
      BY <1>1, <1>3
    <3>2. QED
      BY <2>1, <3>1, InsertAtIs
  <2> HIDE DEF w, n
  <2>3. Len(r) = n
    BY <1>1
  <2>4. QED
    BY <2>2, <2>3
<1>7. o.next \in [0..DesignBound -> ListNodes \cup {-1}] /\ o.val \in [0..DesignBound -> Nat]
  BY <1>1 DEF ListObjects
<1>8. cur \in 0..DesignBound /\ cur # f /\ o.next[cur] = Behind(r, k + 1) /\ o.next[cur] \in ListNodes \cup {-1}
  <2>1. k = 0 \/ k \in 1..n
    BY <1>2
  <2>2. cur \in 0..DesignBound /\ cur # f
    BY <2>1, <1>1, <1>2, <1>3
  <2> HIDE DEF cur
  <2>3. o.next[cur] \in ListNodes \cup {-1}
    BY <2>2, <1>7
  <2>4. o.next[cur] = Behind(r, k + 1)
    BY <1>1 DEF cur
  <2>5. QED
    BY <2>2, <2>3, <2>4
<1>9. \A i \in 1..n : Behind(r, i) \in 0..DesignBound /\ Behind(r, i) # f /\ Behind(r, i) # 0
  BY <1>1, <1>3
<1> HIDE DEF cur
<1>10. /\ u.val = [o.val EXCEPT ![f] = v] /\ u.live = o.live \cup {f} /\ u.size_ = n + 1
       /\ u.next = [[o.next EXCEPT ![f] = o.next[cur]] EXCEPT ![cur] = f]
  BY <1>1
<1>11. u \in ListObjects
  <2>1. u.val \in [0..DesignBound -> Nat]
    BY <1>2, <1>7, <1>10
  <2>2. u.live \in SUBSET ListNodes
    BY <1>1, <1>3, <1>10 DEF ListObjects
  <2>3. u.next \in [0..DesignBound -> ListNodes \cup {-1}]
    BY <1>3, <1>7, <1>8, <1>10
  <2>4. u.size_ \in Nat
    BY <1>1, <1>10
  <2>5. u = [next |-> u.next, val |-> u.val, live |-> u.live, size_ |-> u.size_]
    OBVIOUS
  <2> HIDE DEF u
  <2>6. QED
    BY <2>1, <2>2, <2>3, <2>4, <2>5 DEF ListObjects
<1> HIDE DEF u, t, w, n
<1>12. u.next[cur] = f /\ u.next[f] = Behind(r, k + 1) /\ \A x \in 0..DesignBound : x # f /\ x # cur => u.next[x] = o.next[x]
  BY <1>3, <1>7, <1>8, <1>10
<1>13. u.val[f] = v /\ \A x \in 0..DesignBound : x # f => u.val[x] = o.val[x]
  BY <1>3, <1>7, <1>10
<1>14. \A i \in 0..(n + 2) : Behind(w, i) = IF i <= k THEN Behind(r, i) ELSE IF i = k + 1 THEN f ELSE Behind(r, i - 1)
  <2>1. ASSUME NEW i \in 0..(n + 2), i <= k PROVE Behind(w, i) = Behind(r, i)
    <3>1. i = 0 \/ (i \in 1..n /\ i \in 1..(n + 1))
      BY <2>1, <1>1, <1>2
    <3>2. CASE i = 0
      BY <3>2, <1>1, <1>6 DEF Behind
    <3>3. CASE i \in 1..n /\ i \in 1..(n + 1)
      BY <3>3, <2>1, <1>1, <1>6 DEF Behind
    <3>4. QED
      BY <3>1, <3>2, <3>3
  <2>2. Behind(w, k + 1) = f
    <3>1. k + 1 \in 1..(n + 1) /\ ~ (k + 1 <= k)
      BY <1>1, <1>2
    <3>2. QED
      BY <3>1, <1>6 DEF Behind
  <2>3. ASSUME NEW i \in 0..(n + 2), ~ (i <= k), i # k + 1 PROVE Behind(w, i) = Behind(r, i - 1)
    <3>1. i = n + 2 \/ (i \in 1..(n + 1) /\ i - 1 \in 1..n)
      BY <2>3, <1>1, <1>2
    <3>2. CASE i = n + 2
      <4>1. i \notin 1..(n + 1) /\ i # 0 /\ i - 1 = n + 1
        BY <3>2, <1>1
      <4>2. QED
        BY <4>1, <1>1, <1>6 DEF Behind
    <3>3. CASE i \in 1..(n + 1) /\ i - 1 \in 1..n
      BY <3>3, <2>3, <1>1, <1>6 DEF Behind
    <3>4. QED
      BY <3>1, <3>2, <3>3
  <2>4. QED
    BY <2>1, <2>2, <2>3
<1>15. \A i \in 0..n : i # k => Behind(r, i) # cur /\ Behind(r, i) # f /\ Behind(r, i) \in 0..DesignBound
  <2>1. ASSUME NEW i \in 0..n, i # k, Behind(r, i) = cur PROVE FALSE
    <3>1. (i = 0 \/ i \in 1..n) /\ (k = 0 \/ k \in 1..n)
      BY <1>1, <1>2
    <3>2. QED
      BY <2>1, <3>1, <1>1, <1>9 DEF cur, Distinct
  <2>2. \A i \in 0..n : Behind(r, i) # f /\ Behind(r, i) \in 0..DesignBound
    <3>1. \A i \in 0..n : i = 0 \/ i \in 1..n
      BY <1>1
    <3>2. 0 \in 0..DesignBound
      BY <1>2
    <3>3. QED
      BY <3>1, <3>2, <1>1, <1>3, <1>9
  <2>3. QED
    BY <2>1, <2>2
<1>16. ASSUME NEW i \in 0..(n + 1) PROVE u.next[Behind(w, i)] = Behind(w, i + 1)
  <2>0. i \in 0..(n + 2) /\ i + 1 \in 0..(n + 2)
    BY <1>1
  <2>1. CASE i < k
    <3>1. i <= k /\ i + 1 <= k /\ i \in 0..n /\ i # k
      BY <2>1, <1>1, <1>2
    <3>2. Behind(w, i) = Behind(r, i) /\ Behind(w, i + 1) = Behind(r, i + 1)
      BY <2>0, <3>1, <1>14
    <3>3. u.next[Behind(r, i)] = o.next[Behind(r, i)]
      BY <3>1, <1>12, <1>15
    <3>4. QED
      BY <3>1, <3>2, <3>3, <1>1
  <2>2. CASE i = k
    <3>1. i <= k /\ ~ (i + 1 <= k) /\ i + 1 = k + 1
      BY <2>2, <1>2
    <3>2. Behind(w, i) = Behind(r, k) /\ Behind(w, i + 1) = f
      BY <2>0, <2>2, <3>1, <1>14
    <3>3. QED
      BY <3>2, <1>12 DEF cur
  <2>3. CASE i = k + 1
    <3>1. ~ (i <= k) /\ ~ (i + 1 <= k) /\ i + 1 # k + 1 /\ (i + 1) - 1 = k + 1
      BY <2>3, <1>2
    <3>2. Behind(w, i) = f /\ Behind(w, i + 1) = Behind(r, k + 1)
      BY <2>0, <2>3, <3>1, <1>14
    <3>3. QED
      BY <3>2, <1>12
  <2>4. CASE i > k + 1
    <3>1. ~ (i <= k) /\ i # k + 1 /\ ~ (i + 1 <= k) /\ i + 1 # k + 1 /\ (i + 1) - 1 = (i - 1) + 1 /\ i - 1 \in 0..n /\ i - 1 # k
      BY <2>4, <1>1, <1>2
    <3>2. Behind(w, i) = Behind(r, i - 1) /\ Behind(w, i + 1) = Behind(r, (i - 1) + 1)
      BY <2>0, <3>1, <1>14
    <3>3. u.next[Behind(r, i - 1)] = o.next[Behind(r, i - 1)]
      BY <3>1, <1>12, <1>15
    <3>4. o.next[Behind(r, i - 1)] = Behind(r, (i - 1) + 1)
      BY <3>1, <1>1
    <3>5. QED
      BY <3>2, <3>3, <3>4
  <2>5. QED
    BY <2>1, <2>2, <2>3, <2>4, <1>2
<1>17. ASSUME NEW i \in 1..(n + 1) PROVE u.val[w[i]] = t[i]
  <2>1. CASE i <= k
    <3>1. i \in 1..n
      BY <2>1, <1>1, <1>2
    <3>2. w[i] = r[i] /\ t[i] = s[i]
      BY <2>1, <1>5, <1>6
    <3>3. QED
      BY <3>1, <3>2, <1>1, <1>3, <1>13
  <2>2. CASE i = k + 1
    <3>1. ~ (i <= k)
      BY <2>2, <1>2
    <3>2. w[i] = f /\ t[i] = v
      BY <2>2, <3>1, <1>5, <1>6
    <3>3. QED
      BY <3>2, <1>13
  <2>3. CASE ~ (i <= k) /\ i # k + 1
    <3>1. i - 1 \in 1..n
      BY <2>3, <1>1, <1>2
    <3>2. w[i] = r[i - 1] /\ t[i] = s[i - 1]
      BY <2>3, <1>5, <1>6
    <3>3. QED
      BY <3>1, <3>2, <1>1, <1>3, <1>13
  <2>4. QED
    BY <2>1, <2>2, <2>3
<1> DEFINE old(i) == IF i <= k THEN i ELSE i - 1
<1>18. \A i \in 1..(n + 1) : i # k + 1 => old(i) \in 1..n /\ w[i] = r[old(i)]
  <2>1. \A i \in 1..(n + 1) : i # k + 1 => old(i) \in 1..n
    BY <1>1, <1>2
  <2>2. \A i \in 1..(n + 1) : i # k + 1 => w[i] = r[old(i)]
    BY <1>6
  <2>3. QED
    BY <2>1, <2>2
<1>19. k + 1 \in 1..(n + 1) /\ w[k + 1] = f
  <2>1. k + 1 \in 1..(n + 1) /\ ~ (k + 1 <= k)
    BY <1>1, <1>2
  <2>2. QED
    BY <2>1, <1>6
<1>20. \A i, j \in 1..(n + 1) : i # k + 1 /\ j # k + 1 /\ old(i) = old(j) => i = j
  BY <1>1, <1>2
<1>21. \A i \in 1..n : \E j \in 1..(n + 1) : j # k + 1 /\ old(j) = i
  <2>1. ASSUME NEW i \in 1..n PROVE \E j \in 1..(n + 1) : j # k + 1 /\ old(j) = i
    <3>1. CASE i <= k
      <4>1. i \in 1..(n + 1) /\ i # k + 1 /\ old(i) = i
        BY <3>1, <1>1, <1>2
      <4>2. QED
        BY <4>1
    <3>2. CASE ~ (i <= k)
      <4>1. i + 1 \in 1..(n + 1) /\ i + 1 # k + 1 /\ old(i + 1) = i
        BY <3>2, <1>1, <1>2
      <4>2. QED
        BY <4>1
    <3>3. QED
      BY <3>1, <3>2
  <2>2. QED
    BY <2>1
<1> HIDE DEF old
<1>22. Distinct(w)
  <2>1. ASSUME NEW i \in 1..(n + 1), NEW j \in 1..(n + 1), w[i] = w[j] PROVE i = j
    <3>1. CASE i # k + 1 /\ j # k + 1
      <4>1. old(i) = old(j)
        BY <2>1, <3>1, <1>1, <1>18 DEF Distinct
      <4>2. QED
        BY <3>1, <4>1, <1>20
    <3>2. CASE i = k + 1 \/ j = k + 1
      BY <2>1, <3>2, <1>3, <1>18, <1>19
    <3>3. QED
      BY <3>1, <3>2
  <2>2. QED
    BY <2>1, <1>6 DEF Distinct
<1>23. u.live = {w[i] : i \in 1..(n + 1)}
  <2> DEFINE B == {w[i] : i \in 1..(n + 1)}
  <2>1. \A x \in B : x \in u.live
    <3>1. ASSUME NEW i \in 1..(n + 1) PROVE w[i] \in u.live
      <4>1. CASE i = k + 1
        BY <4>1, <1>10, <1>19
      <4>2. CASE i # k + 1
        <5>1. old(i) \in 1..n /\ w[i] = r[old(i)]
          BY <4>2, <1>18
        <5>2. QED
          BY <5>1, <1>1, <1>10
      <4>3. QED
        BY <4>1, <4>2
    <3>2. QED
      BY <3>1
  <2>2. \A x \in u.live : x \in B
    <3>1. f \in B
      BY <1>19
    <3>2. ASSUME NEW i \in 1..n PROVE r[i] \in B
      <4>1. PICK j \in 1..(n + 1) : j # k + 1 /\ old(j) = i
        BY <1>21
      <4>2. w[j] = r[i]
        BY <4>1, <1>18
      <4>3. QED
        BY <4>2
    <3> HIDE DEF B
    <3>3. QED
      BY <3>1, <3>2, <1>1, <1>10
  <2> HIDE DEF B
  <2>3. u.live = B
    BY <2>1, <2>2
  <2>4. QED
    BY <2>3 DEF B
<1>24. ListHolds(u, t, w)
  BY <1>5, <1>6, <1>10, <1>11, <1>16, <1>17, <1>22, <1>23 DEF ListHolds
<1>25. QED
  BY <1>4, <1>6, <1>24 DEF ListAgrees, t, cur

\* The node at a place goes.
LEMMA ListCut ==
  ASSUME NEW o, NEW s, NEW r, ListHolds(o, s, r), NEW k \in 1..Len(s), NEW cur, NEW d, cur = Behind(r, k - 1), d = o.next[cur]
  PROVE  ListAgrees([val |-> o.val, live |-> o.live \ {d}, size_ |-> o.size_ - 1, next |-> [o.next EXCEPT ![cur] = o.next[d]]], RemoveAt(s, k))
<1> DEFINE n == Len(s)
           u == [val |-> o.val, live |-> o.live \ {d}, size_ |-> o.size_ - 1, next |-> [o.next EXCEPT ![cur] = o.next[d]]]
           t == RemoveAt(s, k)
           w == RemoveAt(r, k)
<1>1. /\ o \in ListObjects /\ s \in Seq(DesignValues) /\ r \in Seq(ListNodes) /\ Len(r) = n /\ o.size_ = n /\ n \in Nat
      /\ Distinct(r) /\ o.live = {r[i] : i \in 1..n}
      /\ \A i \in 0..n : o.next[Behind(r, i)] = Behind(r, i + 1)
      /\ \A i \in 1..n : o.val[r[i]] = s[i] /\ s[i] \in DesignValues /\ r[i] \in ListNodes /\ r[i] \in 0..DesignBound /\ r[i] # 0
      /\ Behind(r, 0) = 0 /\ Behind(r, n + 1) = -1 /\ \A i \in 1..n : Behind(r, i) = r[i]
  BY ListFacts
<1>2. k \in Nat /\ k <= n /\ k > 0 /\ DesignBound \in Nat /\ k \in 1..n /\ k - 1 \in 0..n /\ (k - 1) + 1 = k /\ k \in 0..n /\ n - 1 \in Nat
  BY <1>1, DesignAssumption
<1>3. d = r[k] /\ o.next[d] = Behind(r, k + 1)
  <2>1. o.next[Behind(r, k - 1)] = Behind(r, (k - 1) + 1)
    BY <1>1, <1>2
  <2>2. d = r[k] /\ d = Behind(r, k)
    BY <2>1, <1>1, <1>2
  <2>3. QED
    BY <2>2, <1>1, <1>2
<1>4. /\ t \in Seq(DesignValues) /\ Len(t) = n - 1 /\ \A i \in 1..(n - 1) : t[i] = IF i < k THEN s[i] ELSE s[i + 1]
  <2>1. /\ t \in Seq(DesignValues) /\ Len(t) = Len(s) - 1 /\ \A i \in 1..(Len(s) - 1) : t[i] = IF i < k THEN s[i] ELSE s[i + 1]
    BY <1>1, RemoveAtIs
  <2> HIDE DEF t
  <2>2. QED
    BY <2>1
<1>5. /\ w \in Seq(ListNodes) /\ Len(w) = n - 1 /\ \A i \in 1..(n - 1) : w[i] = IF i < k THEN r[i] ELSE r[i + 1]
  <2>0. k \in 1..Len(r)
    BY <1>1
  <2>1. /\ w \in Seq(ListNodes) /\ Len(w) = Len(r) - 1 /\ \A i \in 1..(Len(r) - 1) : w[i] = IF i < k THEN r[i] ELSE r[i + 1]
    BY <2>0, <1>1, RemoveAtIs
  <2> HIDE DEF w
  <2>2. QED
    BY <2>1, <1>1
<1>6. /\ o.next \in [0..DesignBound -> ListNodes \cup {-1}] /\ o.val \in [0..DesignBound -> Nat] /\ o.live \in SUBSET ListNodes
      /\ o = [next |-> o.next, val |-> o.val, live |-> o.live, size_ |-> o.size_]
  BY <1>1 DEF ListObjects
<1>7. \A i \in 0..n : Behind(r, i) \in 0..DesignBound /\ (i # k - 1 => Behind(r, i) # cur) /\ (i # k => Behind(r, i) # d)
  <2>1. \A i \in 0..n : i = 0 \/ i \in 1..n
    BY <1>1
  <2>2. \A i \in 0..n : Behind(r, i) \in 0..DesignBound
    <3>1. 0 \in 0..DesignBound
      BY <1>2
    <3>2. QED
      BY <3>1, <2>1, <1>1
  <2>3. \A i \in 0..n, j \in 0..n : Behind(r, i) = Behind(r, j) => i = j
    BY <2>1, <1>1 DEF Distinct
  <2>4. \A i \in 0..n : i # k - 1 => Behind(r, i) # cur
    BY <2>3, <1>2
  <2>5. \A i \in 0..n : i # k => Behind(r, i) # d
    BY <2>3, <1>1, <1>2, <1>3
  <2>6. QED
    BY <2>2, <2>4, <2>5
<1>8. cur \in 0..DesignBound /\ d \in 0..DesignBound
  BY <1>1, <1>2, <1>3, <1>7
<1>9. /\ u.next = [o.next EXCEPT ![cur] = o.next[d]] /\ u.val = o.val /\ u.live = o.live \ {d} /\ u.size_ = n - 1
      /\ u = [next |-> u.next, val |-> u.val, live |-> u.live, size_ |-> u.size_]
  BY <1>1
<1> HIDE DEF u, t, w, n
<1>10. u \in ListObjects
  <2>1. u.next \in [0..DesignBound -> ListNodes \cup {-1}]
    BY <1>6, <1>8, <1>9
  <2>2. u.live \in SUBSET ListNodes /\ u.val \in [0..DesignBound -> Nat] /\ u.size_ \in Nat
    BY <1>2, <1>6, <1>9
  <2>3. QED
    BY <2>1, <2>2, <1>9 DEF ListObjects
<1>11. u.next[cur] = Behind(r, k + 1) /\ \A x \in 0..DesignBound : x # cur => u.next[x] = o.next[x]
  BY <1>3, <1>6, <1>8, <1>9
<1>12. \A i \in 0..n : Behind(w, i) = IF i < k THEN Behind(r, i) ELSE Behind(r, i + 1)
  <2>1. ASSUME NEW i \in 0..n, i < k PROVE Behind(w, i) = Behind(r, i)
    <3>1. i = 0 \/ (i \in 1..n /\ i \in 1..(n - 1))
      BY <2>1, <1>1, <1>2
    <3>2. CASE i = 0
      BY <3>2, <1>1, <1>5 DEF Behind
    <3>3. CASE i \in 1..n /\ i \in 1..(n - 1)
      BY <3>3, <2>1, <1>1, <1>5 DEF Behind
    <3>4. QED
      BY <3>1, <3>2, <3>3
  <2>2. ASSUME NEW i \in 0..n, ~ (i < k) PROVE Behind(w, i) = Behind(r, i + 1)
    <3>0. n \in Nat /\ k \in Nat /\ k > 0
      BY <1>1, <1>2
    <3>1. i = n \/ (i \in 1..(n - 1) /\ i + 1 \in 1..n)
      BY <2>2, <3>0
    <3>2. CASE i = n
      <4>1. i \notin 1..(n - 1) /\ i # 0 /\ i + 1 = n + 1
        <5>1. n \notin 1..(n - 1) /\ n # 0
          BY <2>2, <3>0, <3>2
        <5>2. QED
          BY <3>2, <5>1
      <4>2. QED
        BY <4>1, <1>1, <1>5 DEF Behind
    <3>3. CASE i \in 1..(n - 1) /\ i + 1 \in 1..n
      BY <3>3, <2>2, <1>1, <1>5 DEF Behind
    <3>4. QED
      BY <3>1, <3>2, <3>3
  <2>3. QED
    BY <2>1, <2>2
<1>13. ASSUME NEW i \in 0..(n - 1) PROVE u.next[Behind(w, i)] = Behind(w, i + 1)
  <2>0. i \in 0..n /\ i + 1 \in 0..n
    BY <1>1, <1>2
  <2>1. CASE i + 1 < k
    <3>1. i < k /\ i # k - 1
      BY <2>1, <2>0, <1>2
    <3>2. Behind(w, i) = Behind(r, i) /\ Behind(w, i + 1) = Behind(r, i + 1)
      BY <2>0, <2>1, <3>1, <1>12
    <3>3. u.next[Behind(r, i)] = o.next[Behind(r, i)]
      BY <2>0, <3>1, <1>7, <1>11
    <3>4. QED
      BY <2>0, <3>2, <3>3, <1>1
  <2>2. CASE i = k - 1
    <3>1. i < k /\ ~ (i + 1 < k) /\ (i + 1) + 1 = k + 1
      BY <2>2, <1>2
    <3>2. Behind(w, i) = cur /\ Behind(w, i + 1) = Behind(r, k + 1)
      <4>1. Behind(w, i) = Behind(r, i) /\ Behind(w, i + 1) = Behind(r, (i + 1) + 1)
        BY <2>0, <3>1, <1>12
      <4>2. QED
        BY <4>1, <2>2, <3>1
    <3>3. QED
      BY <3>2, <1>11
  <2>3. CASE ~ (i + 1 < k) /\ i # k - 1
    <3>1. ~ (i < k) /\ i + 1 # k - 1 /\ i + 1 # k
      BY <2>3, <2>0, <1>2
    <3>2. Behind(w, i) = Behind(r, i + 1) /\ Behind(w, i + 1) = Behind(r, (i + 1) + 1)
      BY <2>0, <2>3, <3>1, <1>12
    <3>3. u.next[Behind(r, i + 1)] = o.next[Behind(r, i + 1)]
      BY <2>0, <3>1, <1>7, <1>11
    <3>4. o.next[Behind(r, i + 1)] = Behind(r, (i + 1) + 1)
      BY <2>0, <1>1
    <3>5. QED
      BY <3>2, <3>3, <3>4
  <2>4. QED
    BY <2>1, <2>2, <2>3
<1> DEFINE old(i) == IF i < k THEN i ELSE i + 1
<1>14. \A i \in 1..(n - 1) : old(i) \in 1..n /\ old(i) # k /\ w[i] = r[old(i)] /\ t[i] = s[old(i)]
  <2>1. \A i \in 1..(n - 1) : old(i) \in 1..n /\ old(i) # k
    BY <1>1, <1>2
  <2>2. QED
    BY <2>1, <1>4, <1>5
<1>15. \A i, j \in 1..(n - 1) : old(i) = old(j) => i = j
  <2>1. n \in Nat /\ k \in Nat
    BY <1>1, <1>2
  <2>2. QED
    BY <2>1
<1>16. \A i \in 1..n : i # k => \E j \in 1..(n - 1) : old(j) = i
  <2>1. ASSUME NEW i \in 1..n, i # k PROVE \E j \in 1..(n - 1) : old(j) = i
    <3>1. CASE i < k
      <4>1. i \in 1..(n - 1) /\ old(i) = i
        BY <3>1, <1>1, <1>2
      <4>2. QED
        BY <4>1
    <3>2. CASE ~ (i < k)
      <4>1. i - 1 \in 1..(n - 1) /\ old(i - 1) = i
        BY <3>2, <2>1, <1>1, <1>2
      <4>2. QED
        BY <4>1
    <3>3. QED
      BY <3>1, <3>2
  <2>2. QED
    BY <2>1
<1> HIDE DEF old
<1>17. Distinct(w)
  <2>1. ASSUME NEW i \in 1..(n - 1), NEW j \in 1..(n - 1), w[i] = w[j] PROVE i = j
    <3>1. old(i) \in 1..n /\ old(j) \in 1..n /\ r[old(i)] = r[old(j)]
      BY <2>1, <1>14
    <3>2. old(i) = old(j)
      <4>1. \A a, b \in 1..n : r[a] = r[b] => a = b
        BY <1>1 DEF Distinct
      <4>2. QED
        BY <3>1, <4>1
    <3>3. QED
      BY <3>2, <1>15
  <2>2. QED
    BY <2>1, <1>5 DEF Distinct
<1>18. \A i \in 1..(n - 1) : u.val[w[i]] = t[i]
  BY <1>1, <1>9, <1>14
<1>19. u.live = {w[i] : i \in 1..(n - 1)}
  <2> DEFINE B == {w[i] : i \in 1..(n - 1)}
  <2>1. \A x \in B : x \in u.live
    <3>1. ASSUME NEW i \in 1..(n - 1) PROVE w[i] \in u.live
      <4>1. old(i) \in 1..n /\ old(i) # k /\ w[i] = r[old(i)]
        BY <1>14
      <4>2. r[old(i)] # r[k]
        BY <4>1, <1>1, <1>2 DEF Distinct
      <4>3. QED
        BY <4>1, <4>2, <1>1, <1>3, <1>9
    <3>2. QED
      BY <3>1
  <2>2. \A x \in u.live : x \in B
    <3>1. ASSUME NEW i \in 1..n, r[i] # d PROVE r[i] \in B
      <4>1. PICK j \in 1..(n - 1) : old(j) = i
        BY <3>1, <1>3, <1>16
      <4>2. w[j] = r[i]
        BY <4>1, <1>14
      <4>3. QED
        BY <4>2
    <3> HIDE DEF B
    <3>2. QED
      BY <3>1, <1>1, <1>9
  <2> HIDE DEF B
  <2>3. u.live = B
    BY <2>1, <2>2
  <2>4. QED
    BY <2>3 DEF B
<1>20. ListHolds(u, t, w)
  BY <1>4, <1>5, <1>9, <1>10, <1>13, <1>17, <1>18, <1>19 DEF ListHolds
<1>21. QED
  BY <1>5, <1>20 DEF ListAgrees, t, u

\* The calls of the list, of which the ones that add have room.
LEMMA ListStep ==
  ASSUME NEW index \in 0..DesignBound, NEW v \in DesignValues, ListAgrees(own, ideal), CallList(index, v)
  PROVE  ListAgrees(own', ideal') /\ returned'.got = returned'.due
<1> DEFINE n == Len(ideal)
<1>1. PICK r \in Seq(ListNodes) : ListHolds(own, ideal, r)
  BY DEF ListAgrees
<1>2. /\ own \in ListObjects /\ ideal \in Seq(DesignValues) /\ Len(r) = n /\ own.size_ = n /\ n \in Nat
      /\ Distinct(r) /\ own.live = {r[i] : i \in 1..n}
      /\ \A i \in 0..n : own.next[Behind(r, i)] = Behind(r, i + 1)
      /\ \A i \in 1..n : own.val[r[i]] = ideal[i] /\ ideal[i] \in DesignValues /\ r[i] \in ListNodes /\ r[i] \in 0..DesignBound /\ r[i] # 0
      /\ Behind(r, 0) = 0 /\ Behind(r, n + 1) = -1 /\ \A i \in 1..n : Behind(r, i) = r[i]
  BY <1>1, ListFacts
<1>3. index \in Nat /\ DesignBound \in Nat
  BY DesignAssumption
<1>4. \A k \in 0..n : Walked(own, k) = Behind(r, k)
  BY <1>1, WalkedIs
<1>5. ASSUME NEW k \in 0..n, HasRoom
      PROVE  ListAgrees(LinkAfter(own, Behind(r, k), v).own, InsertAt(ideal, k + 1, v)) /\ LinkAfter(own, Behind(r, k), v).out = 0
  BY <1>1, <1>5, ListGrown DEF HasRoom
<1>6. ASSUME NEW k \in 0..n, HasRoom, NEW t, t = InsertAt(ideal, k + 1, v),
             Calls(LinkAfter(own, Behind(r, k), v), Result(t, 0))
      PROVE  ListAgrees(own', ideal') /\ returned'.got = returned'.due
  BY <1>5, <1>6 DEF Calls, Result
<1> HIDE DEF n
<1>7. CASE Calls(ListGet(own, index), Result(ideal, IF index < Len(ideal) THEN ideal[index + 1] ELSE -1))
  <2>1. ListGet(own, index).own = own /\ ListGet(own, index).out = IF index < n THEN ideal[index + 1] ELSE -1
    <3>1. CASE index < n
      <4>1. ~ (index >= own.size_) /\ index \in 0..n /\ index + 1 \in 1..n
        BY <3>1, <1>2, <1>3
      <4>2. own.next[Walked(own, index)] = r[index + 1]
        BY <4>1, <1>2, <1>4
      <4>3. own.val[own.next[Walked(own, index)]] = ideal[index + 1]
        BY <4>1, <4>2, <1>2
      <4>4. QED
        BY <3>1, <4>1, <4>3 DEF ListGet, Result
    <3>2. CASE ~ (index < n)
      <4>1. index >= own.size_
        BY <3>2, <1>2, <1>3
      <4>2. QED
        BY <3>2, <4>1 DEF ListGet, Result
    <3>3. QED
      BY <3>1, <3>2
  <2>2. own' = own /\ ideal' = ideal /\ returned'.got = returned'.due
    BY <2>1, <1>7 DEF Calls, Result, n
  <2>3. QED
    BY <2>2
<1>8. CASE HasRoom /\ Calls(LinkAfter(own, 0, v), Result(<<v>> \o ideal, 0))
  <2> DEFINE t == InsertAt(ideal, 0 + 1, v)
             y == <<v>> \o ideal
  <2>1. 0 \in 0..n
    BY <1>2
  <2>2. t \in Seq(DesignValues) /\ Len(t) = n + 1 /\ \A i \in 1..(n + 1) : t[i] = IF i <= 0 THEN ideal[i] ELSE IF i = 0 + 1 THEN v ELSE ideal[i - 1]
    <3>1. 0 \in 0..Len(ideal) /\ ideal \in Seq(DesignValues)
      BY <2>1, <1>2 DEF n
    <3>2. /\ t \in Seq(DesignValues) /\ Len(t) = Len(ideal) + 1
          /\ \A i \in 1..(Len(ideal) + 1) : t[i] = IF i <= 0 THEN ideal[i] ELSE IF i = 0 + 1 THEN v ELSE ideal[i - 1]
      BY <3>1, InsertAtIs
    <3> HIDE DEF t
    <3>3. QED
      BY <3>2 DEF n
  <2>3. y \in Seq(DesignValues) /\ Len(y) = n + 1 /\ y[1] = v /\ \A i \in 1..n : y[i + 1] = ideal[i]
    BY <1>2, PrependIs DEF n
  <2> HIDE DEF t, y
  <2>4. \A i \in 1..(n + 1) : y[i] = t[i]
    <3>1. ASSUME NEW i \in 1..(n + 1) PROVE y[i] = t[i]
      <4>1. CASE i = 1
        BY <4>1, <2>2, <2>3, <1>2
      <4>2. CASE i # 1
        <5>1. i - 1 \in 1..n /\ (i - 1) + 1 = i /\ ~ (i <= 0) /\ i # 0 + 1
          BY <4>2, <1>2
        <5>2. y[(i - 1) + 1] = ideal[i - 1]
          BY <5>1, <2>3
        <5>3. QED
          BY <5>1, <5>2, <2>2
      <4>3. QED
        BY <4>1, <4>2
    <3>2. QED
      BY <3>1
  <2>5. y = t
    BY <2>2, <2>3, <2>4, SeqEqual
  <2>6. Calls(LinkAfter(own, Behind(r, 0), v), Result(y, 0)) /\ HasRoom
    BY <1>8, <1>2 DEF y
  <2>7. y = InsertAt(ideal, 0 + 1, v)
    BY <2>5 DEF t
  <2>8. QED
    BY <2>1, <2>6, <2>7, <1>6
<1>9. CASE HasRoom /\ Calls(AddAtTail(own, v), Result(Append(ideal, v), 0))
  <2> DEFINE t == InsertAt(ideal, n + 1, v)
             y == Append(ideal, v)
  <2>1. n \in 0..n
    BY <1>2
  <2>2. t \in Seq(DesignValues) /\ Len(t) = n + 1 /\ \A i \in 1..(n + 1) : t[i] = IF i <= n THEN ideal[i] ELSE IF i = n + 1 THEN v ELSE ideal[i - 1]
    <3>1. n \in 0..Len(ideal) /\ ideal \in Seq(DesignValues)
      BY <2>1, <1>2 DEF n
    <3>2. /\ t \in Seq(DesignValues) /\ Len(t) = Len(ideal) + 1
          /\ \A i \in 1..(Len(ideal) + 1) : t[i] = IF i <= n THEN ideal[i] ELSE IF i = n + 1 THEN v ELSE ideal[i - 1]
      BY <3>1, InsertAtIs
    <3> HIDE DEF t
    <3>3. QED
      BY <3>2 DEF n
  <2>3. y \in Seq(DesignValues) /\ Len(y) = n + 1 /\ y[n + 1] = v /\ \A i \in 1..n : y[i] = ideal[i]
    BY <1>2, AppendIs DEF n
  <2> HIDE DEF t, y
  <2>4. \A i \in 1..(n + 1) : y[i] = t[i]
    <3>1. \A i \in 1..(n + 1) : (i <= n /\ i \in 1..n) \/ (i = n + 1 /\ ~ (i <= n))
      BY <1>2
    <3>2. QED
      BY <3>1, <2>2, <2>3
  <2>5. y = t
    BY <2>2, <2>3, <2>4, SeqEqual
  <2>6. (CHOOSE x \in own.live \cup {0} : own.next[x] = -1) = Behind(r, n)
    <3>1. Behind(r, n) \in own.live \cup {0}
      <4>1. n = 0 \/ n \in 1..n
        BY <1>2
      <4>2. QED
        BY <4>1, <1>2
    <3>2. own.next[Behind(r, n)] = -1
      BY <2>1, <1>2
    <3>3. ASSUME NEW x \in own.live \cup {0}, own.next[x] = -1 PROVE x = Behind(r, n)
      <4>1. PICK i \in 0..n : x = Behind(r, i)
        <5>1. CASE x = 0
          <6>1. 0 \in 0..n
            BY <1>2
          <6>2. QED
            BY <5>1, <6>1, <1>2
        <5>2. CASE x \in own.live
          <6>1. PICK i \in 1..n : x = r[i]
            BY <5>2, <1>2
          <6>2. i \in 0..n /\ x = Behind(r, i)
            BY <6>1, <1>2
          <6>3. QED
            BY <6>2
        <5>3. QED
          BY <5>1, <5>2
      <4>2. CASE i = n
        BY <4>1, <4>2
      <4>3. CASE i # n
        <5>1. i + 1 \in 1..n /\ Behind(r, i + 1) = r[i + 1] /\ own.next[x] = Behind(r, i + 1)
          BY <4>1, <4>3, <1>2
        <5>2. r[i + 1] \in 0..DesignBound
          BY <5>1, <1>2
        <5>3. r[i + 1] # -1
          BY <5>2, <1>3
        <5>4. QED
          BY <3>3, <5>1, <5>3
      <4>4. QED
        BY <4>2, <4>3
    <3>4. QED
      BY <3>1, <3>2, <3>3
  <2>7. Calls(LinkAfter(own, Behind(r, n), v), Result(y, 0)) /\ HasRoom
    BY <2>6, <1>9 DEF y, AddAtTail
  <2>8. y = InsertAt(ideal, n + 1, v)
    BY <2>5 DEF t
  <2>9. QED
    BY <2>1, <2>7, <2>8, <1>6
<1>10. CASE HasRoom /\ Calls(AddAtIndex(own, index, v), Result(IF index > Len(ideal) THEN ideal ELSE InsertAt(ideal, index + 1, v), 0))
  <2>1. CASE index > n
    <3>1. index > own.size_
      BY <2>1, <1>2
    <3>2. own' = own /\ ideal' = ideal /\ returned'.got = returned'.due
      BY <2>1, <3>1, <1>10 DEF AddAtIndex, Calls, Result, n
    <3>3. QED
      BY <3>2
  <2>2. CASE ~ (index > n)
    <3>1. ~ (index > own.size_) /\ index \in 0..n
      BY <2>2, <1>2, <1>3
    <3> DEFINE t == InsertAt(ideal, index + 1, v)
    <3>2. AddAtIndex(own, index, v) = LinkAfter(own, Behind(r, index), v)
      BY <3>1, <1>4 DEF AddAtIndex
    <3>3. Calls(LinkAfter(own, Behind(r, index), v), Result(t, 0)) /\ HasRoom
      BY <2>2, <3>2, <1>10 DEF n
    <3>4. t = InsertAt(ideal, index + 1, v)
      OBVIOUS
    <3> HIDE DEF t
    <3>5. QED
      BY <3>1, <3>3, <3>4, <1>6
  <2>3. QED
    BY <2>1, <2>2
<1>11. CASE Calls(DeleteAtIndex(own, index), Result(IF index >= Len(ideal) THEN ideal ELSE RemoveAt(ideal, index + 1), 0))
  <2>1. CASE index >= n
    <3>1. index >= own.size_
      BY <2>1, <1>2
    <3>2. own' = own /\ ideal' = ideal /\ returned'.got = returned'.due
      BY <2>1, <3>1, <1>11 DEF DeleteAtIndex, Calls, Result, n
    <3>3. QED
      BY <3>2
  <2>2. CASE ~ (index >= n)
    <3> DEFINE k == index + 1
               cur == Walked(own, index)
               d == own.next[cur]
               u == [val |-> own.val, live |-> own.live \ {d}, size_ |-> own.size_ - 1, next |-> [own.next EXCEPT ![cur] = own.next[d]]]
    <3>1. ~ (index >= own.size_) /\ index \in 0..n /\ k \in 1..n /\ k - 1 = index
      BY <2>2, <1>2, <1>3
    <3>2. DeleteAtIndex(own, index) = Result(u, 0)
      BY <3>1 DEF DeleteAtIndex
    <3>3. own' = u /\ ideal' = RemoveAt(ideal, k) /\ returned'.got = returned'.due
      BY <2>2, <3>2, <1>11 DEF Calls, Result, n
    <3>4. cur = Behind(r, k - 1)
      BY <3>1, <1>4
    <3> HIDE DEF k, cur
    <3>5. ListAgrees(u, RemoveAt(ideal, k))
      <4>1. d = own.next[cur]
        OBVIOUS
      <4> HIDE DEF d
      <4>2. QED
        BY <3>1, <3>4, <4>1, <1>1, ListCut DEF n
    <3> HIDE DEF u
    <3>6. QED
      BY <3>3, <3>5
  <2>3. QED
    BY <2>1, <2>2
<1>12. QED
  BY <1>7, <1>8, <1>9, <1>10, <1>11 DEF CallList

DesignNames == {"lru", "ring", "list", "circular", "minstack", "stack", "queue", "set", "flip", "tree"}

\* Any of the classes, and any sequence of its calls.
DesignSpec == DesignInit(DesignNames) /\ [][DesignNext]_designVars

\* What is returned is due, and what the object holds is what its user expects.
DesignAgrees ==
  /\ design = "lru" => LruAgrees(own, ideal)
  /\ design = "ring" => RingAgrees(own, ideal)
  /\ design = "list" => ListAgrees(own, ideal)
  /\ design = "circular" => CircularAgrees(own, ideal)
  /\ design = "minstack" => MinStackAgrees(own, ideal)
  /\ design = "stack" => StackAgrees(own, ideal)
  /\ design = "queue" => QueueAgrees(own, ideal)
  /\ design = "set" => SetAgrees(own, ideal)
  /\ design = "flip" => FlipAgrees(own, ideal)
  /\ design = "tree" => TreeAgrees(own, ideal)
DesignInv == design \in DesignNames /\ returned.got = returned.due /\ DesignAgrees

\* New objects hold nothing, the tree its root.
LEMMA EmptyIsHeld ==
  /\ LruAgrees(Empty.lru, <<>>) /\ RingAgrees(Empty.ring, <<>>) /\ ListAgrees(Empty.list, <<>>)
  /\ CircularAgrees(Empty.circular, <<>>) /\ MinStackAgrees(Empty.minstack, <<>>) /\ StackAgrees(Empty.stack, <<>>)
  /\ QueueAgrees(Empty.queue, <<>>) /\ SetAgrees(Empty.set, {}) /\ FlipAgrees(Empty.flip, {}) /\ TreeAgrees(Empty.tree, 1)
<1>0. DesignCapacity \in Nat \ {0} /\ DesignBound \in Nat /\ 0 \in Nodes0
  BY DesignAssumption DEF Nodes0
<1>1. LruAgrees(Empty.lru, <<>>)
  <2> DEFINE o == [list |-> <<>>, map |-> [k \in DesignValues |-> 0]]
  <2>1. Empty.lru = o
    BY DEF Empty, None0
  <2>2. o \in [list : Seq(Entries), map : [DesignValues -> Nat]] /\ <<>> \in Seq(KeyValues) /\ Len(<<>>) = 0 /\ o.list = <<>>
        /\ \A k \in DesignValues : o.map[k] = 0
    OBVIOUS
  <2> HIDE DEF o
  <2>3. LruBut(o, <<>>, {})
    BY <2>2 DEF LruBut
  <2>4. QED
    BY <2>1, <2>2, <2>3, <1>0 DEF LruAgrees
<1>2. RingAgrees(Empty.ring, <<>>)
  <2> DEFINE z == [n \in Nodes0 |-> 0]
             o == [prev |-> z, next |-> z, key |-> z, value |-> z, nodes |-> [k \in DesignValues |-> 0], live |-> {}]
  <2>1. Empty.ring = o
    BY DEF Empty, None0
  <2>2. o \in RingObjects /\ o.live = {} /\ o.next[0] = 0 /\ o.prev[0] = 0 /\ \A k \in DesignValues : o.nodes[k] = 0
    BY <1>0 DEF RingObjects
  <2> HIDE DEF o
  <2>3. <<>> \in Seq(KeyValues) /\ <<>> \in Seq(RingNodes) /\ Len(<<>>) = 0
    OBVIOUS
  <2>4. Linked(o, <<>>) /\ Distinct(<<>>)
    BY <2>2, <2>3 DEF Linked, Distinct, Place
  <2>5. RingHolds(o, <<>>, <<>>)
    <3>1. o.live = {<<>>[i] : i \in 1..Len(<<>>)}
      BY <2>2, <2>3
    <3>2. QED
      BY <2>2, <2>3, <2>4, <3>1 DEF RingHolds
  <2>6. \E r \in Seq(RingNodes) : RingHolds(o, <<>>, r)
    BY <2>3, <2>5
  <2>7. Len(<<>>) <= DesignCapacity
    BY <2>3, <1>0
  <2>8. QED
    BY <2>1, <2>6, <2>7 DEF RingAgrees
<1>3. ListAgrees(Empty.list, <<>>)
  <2> DEFINE o == [next |-> [n \in 0..DesignBound |-> -1], val |-> [n \in 0..DesignBound |-> 0], live |-> {}, size_ |-> 0]
  <2>1. Empty.list = o
    BY DEF Empty
  <2>2. o \in ListObjects /\ o.live = {} /\ o.size_ = 0 /\ o.next[0] = -1
    BY <1>0 DEF ListObjects
  <2> HIDE DEF o
  <2>3. <<>> \in Seq(DesignValues) /\ <<>> \in Seq(ListNodes) /\ Len(<<>>) = 0
    OBVIOUS
  <2>4. ListHolds(o, <<>>, <<>>)
    <3>1. o.live = {<<>>[i] : i \in 1..Len(<<>>)}
      BY <2>2, <2>3
    <3>2. \A i \in 0..Len(<<>>) : o.next[Behind(<<>>, i)] = Behind(<<>>, i + 1)
      BY <2>2, <2>3 DEF Behind
    <3>3. QED
      BY <2>2, <2>3, <3>1, <3>2 DEF ListHolds, Distinct
  <2>5. QED
    BY <2>1, <2>3, <2>4 DEF ListAgrees
<1>4. CircularAgrees(Empty.circular, <<>>)
  <2> DEFINE o == [data |-> [n \in 0..(DesignCapacity - 1) |-> 0], used |-> 0, front |-> 0, rear |-> 0]
  <2>1. Empty.circular = o
    BY DEF Empty
  <2>2. o \in CircularObjects /\ o.used = 0 /\ o.front = 0 /\ o.rear = 0
    BY <1>0 DEF CircularObjects
  <2> HIDE DEF o
  <2>3. CircularAgrees(o, <<>>)
    BY <2>2, <1>0 DEF CircularAgrees, Turn
  <2>4. QED
    BY <2>1, <2>3
<1>5. MinStackAgrees(Empty.minstack, <<>>) /\ StackAgrees(Empty.stack, <<>>) /\ QueueAgrees(Empty.queue, <<>>)
  <2>1. Empty.minstack = [data |-> <<>>, sort |-> <<>>] /\ Empty.stack = <<>> /\ Empty.queue = [in |-> <<>>, out |-> <<>>]
    BY DEF Empty
  <2>2. QED
    BY <2>1 DEF MinStackAgrees, StackAgrees, QueueAgrees
<1>6. SetAgrees(Empty.set, {})
  <2> DEFINE o == [nums |-> <<>>, maps |-> [k \in DesignValues |-> 0]]
  <2>1. Empty.set = o
    BY DEF Empty, None0
  <2>2. o \in [nums : Seq(DesignValues), maps : [DesignValues -> Nat]] /\ DOMAIN o.nums = {} /\ \A k \in DesignValues : o.maps[k] = 0
    OBVIOUS
  <2> HIDE DEF o
  <2>3. SetAgrees(o, {})
    BY <2>2 DEF SetAgrees, ToSet
  <2>4. QED
    BY <2>1, <2>3
<1>7. FlipAgrees(Empty.flip, {})
  <2> DEFINE o == [total |-> 4, map |-> [c \in Cells |-> -1]]
  <2>1. Empty.flip = o
    BY DEF Empty
  <2>2. o \in [total : 0..4, map : [Cells -> Cells \cup {-1}]] /\ \A c \in Cells : o.map[c] = -1
    OBVIOUS
  <2> HIDE DEF o
  <2>3. FlipAgrees(o, {})
    BY <2>2 DEF FlipAgrees, Stands
  <2>4. QED
    BY <2>1, <2>3
<1>8. TreeAgrees(Empty.tree, 1)
  <2> DEFINE z == [n \in 1..(DesignBound + 1) |-> 0]
             o == [left |-> z, right |-> z, que_ |-> <<1>>, count |-> 1]
  <2>1. Empty.tree = o
    BY DEF Empty, None0
  <2>2. /\ o \in [left : [TreeNodes -> Nat], right : [TreeNodes -> Nat], que_ : Seq(TreeNodes), count : TreeNodes]
        /\ o.count = 1 /\ o.que_ = <<1>> /\ Len(o.que_) = 1 /\ o.que_[1] = 1 /\ \A n \in TreeNodes : o.left[n] = 0 /\ ~ (2 * n <= 1)
    BY <1>0 DEF TreeNodes
  <2> HIDE DEF o
  <2>3. (1 + 1) \div 2 = 1
    OBVIOUS
  <2>4. TreeAgrees(o, 1)
    BY <2>2, <2>3 DEF TreeAgrees
  <2>5. QED
    BY <2>1, <2>4
<1>9. QED
  BY <1>1, <1>2, <1>3, <1>4, <1>5, <1>6, <1>7, <1>8

\* A behaviour starts with a new object of one of the classes.
LEMMA DesignStarts == DesignInit(DesignNames) => DesignInv
<1> SUFFICES ASSUME DesignInit(DesignNames) PROVE DesignInv
  OBVIOUS
<1>1. /\ design \in DesignNames /\ own = Empty[design] /\ returned = [got |-> 0, due |-> 0]
      /\ design \in {"set", "flip"} => ideal = {}
      /\ design = "tree" => ideal = 1
      /\ design \notin {"set", "flip", "tree"} => ideal = <<>>
  BY DEF DesignInit
<1>2. DesignAgrees
  BY <1>1, EmptyIsHeld DEF DesignAgrees
<1>3. QED
  BY <1>1, <1>2 DEF DesignInv

\* Every call returns what is due, and leaves the object as its user expects.
LEMMA DesignStep == DesignInv /\ [DesignNext]_designVars => DesignInv'
<1> SUFFICES ASSUME DesignInv, [DesignNext]_designVars PROVE DesignInv'
  OBVIOUS
<1>1. design \in DesignNames /\ DesignAgrees /\ returned.got = returned.due
  BY DEF DesignInv
<1>2. CASE UNCHANGED designVars
  BY <1>1, <1>2 DEF designVars, DesignInv, DesignAgrees
<1>3. CASE CallFlip
  <2>1. design = "flip" /\ design' = design
    BY <1>3 DEF CallFlip, Calls
  <2>2. FlipAgrees(own', ideal') /\ returned'.got = returned'.due
    BY <2>1, <1>1, <1>3, FlipStep DEF DesignAgrees
  <2>3. QED
    BY <2>1, <2>2, <1>1 DEF DesignInv, DesignAgrees
<1>4. CASE CallTree
  <2>1. design = "tree" /\ design' = design
    BY <1>4 DEF CallTree, Calls
  <2>2. TreeAgrees(own', ideal') /\ returned'.got = returned'.due
    BY <2>1, <1>1, <1>4, TreeStep DEF DesignAgrees
  <2>3. QED
    BY <2>1, <2>2, <1>1 DEF DesignInv, DesignAgrees
<1>5. ASSUME NEW v \in DesignValues, CallCircular(v) PROVE DesignInv'
  <2>1. design = "circular" /\ design' = design
    BY <1>5 DEF CallCircular, Calls
  <2>2. CircularAgrees(own', ideal') /\ returned'.got = returned'.due
    BY <2>1, <1>1, <1>5, CircularStep DEF DesignAgrees
  <2>3. QED
    BY <2>1, <2>2, <1>1 DEF DesignInv, DesignAgrees
<1>6. ASSUME NEW v \in DesignValues, CallMinStack(v) PROVE DesignInv'
  <2>1. design = "minstack" /\ design' = design
    BY <1>6 DEF CallMinStack, Calls
  <2>2. MinStackAgrees(own', ideal') /\ returned'.got = returned'.due
    BY <2>1, <1>1, <1>6, MinStackStep DEF DesignAgrees
  <2>3. QED
    BY <2>1, <2>2, <1>1 DEF DesignInv, DesignAgrees
<1>7. ASSUME NEW v \in DesignValues, CallStack(v) PROVE DesignInv'
  <2>1. design = "stack" /\ design' = design
    BY <1>7 DEF CallStack, Calls
  <2>2. StackAgrees(own', ideal') /\ returned'.got = returned'.due
    BY <2>1, <1>1, <1>7, StackStep DEF DesignAgrees
  <2>3. QED
    BY <2>1, <2>2, <1>1 DEF DesignInv, DesignAgrees
<1>8. ASSUME NEW v \in DesignValues, CallQueue(v) PROVE DesignInv'
  <2>1. design = "queue" /\ design' = design
    BY <1>8 DEF CallQueue, Calls
  <2>2. QueueAgrees(own', ideal') /\ returned'.got = returned'.due
    BY <2>1, <1>1, <1>8, QueueStep DEF DesignAgrees
  <2>3. QED
    BY <2>1, <2>2, <1>1 DEF DesignInv, DesignAgrees
<1>9. ASSUME NEW v \in DesignValues, CallSet(v) PROVE DesignInv'
  <2>1. design = "set" /\ design' = design
    BY <1>9 DEF CallSet, Calls
  <2>2. SetAgrees(own', ideal') /\ returned'.got = returned'.due
    BY <2>1, <1>1, <1>9, SetStep DEF DesignAgrees
  <2>3. QED
    BY <2>1, <2>2, <1>1 DEF DesignInv, DesignAgrees
<1>10. ASSUME NEW index \in 0..DesignBound, NEW v \in DesignValues, CallList(index, v) PROVE DesignInv'
  <2>1. design = "list" /\ design' = design
    BY <1>10 DEF CallList, Calls
  <2>2. ListAgrees(own', ideal') /\ returned'.got = returned'.due
    BY <2>1, <1>1, <1>10, ListStep DEF DesignAgrees
  <2>3. QED
    BY <2>1, <2>2, <1>1 DEF DesignInv, DesignAgrees
<1>11. ASSUME NEW key \in DesignValues, NEW value \in DesignValues, CallCache(key, value) PROVE DesignInv'
  <2>1. CASE /\ design = "lru"
             /\ \/ Calls(LruGet(own, key), IdealGet(ideal, key))
                \/ Calls(LruPut(own, key, value), IdealPut(ideal, key, value))
    <3>1. design' = design
      BY <2>1 DEF Calls
    <3>2. LruAgrees(own', ideal') /\ returned'.got = returned'.due
      BY <2>1, <1>1, LruStep DEF DesignAgrees
    <3>3. QED
      BY <2>1, <3>1, <3>2, <1>1 DEF DesignInv, DesignAgrees
  <2>2. CASE /\ design = "ring"
             /\ \/ Calls(RingGet(own, key), IdealGet(ideal, key))
                \/ Calls(RingPut(own, key, value), IdealPut(ideal, key, value))
    <3>1. design' = design
      BY <2>2 DEF Calls
    <3>2. RingAgrees(own', ideal') /\ returned'.got = returned'.due
      BY <2>2, <1>1, RingStep DEF DesignAgrees
    <3>3. QED
      BY <2>2, <3>1, <3>2, <1>1 DEF DesignInv, DesignAgrees
  <2>3. QED
    BY <2>1, <2>2, <1>11 DEF CallCache
<1>12. QED
  BY <1>2, <1>3, <1>4, <1>5, <1>6, <1>7, <1>8, <1>9, <1>10, <1>11 DEF DesignNext

\* The maps of the caches follow from what the objects hold.
LEMMA DesignInvPromises == DesignInv => DesignsKeepTheirPromise
<1> SUFFICES ASSUME DesignInv PROVE DesignsKeepTheirPromise
  OBVIOUS
<1>1. DesignAgrees /\ returned.got = returned.due
  BY DEF DesignInv
<1>2. ASSUME design = "lru", NEW k \in DesignValues
      PROVE  own.map[k] # None0 <=> \E n \in ToSet(own.list) : n.id = own.map[k] /\ n.key = k
  <2>1. LruBut(own, ideal, {})
    BY <1>1, <1>2 DEF DesignAgrees, LruAgrees
  <2>2. own \in [list : Seq(Entries), map : [DesignValues -> Nat]] /\ ideal \in Seq(KeyValues) /\ Len(ideal) = Len(own.list)
    BY <2>1 DEF LruBut
  <2>3. own.list \in Seq(Entries) /\ DOMAIN own.list = 1..Len(ideal)
    BY <2>2
  <2>4. \A i \in 1..Len(ideal) : own.list[i].id # 0
    <3>1. \A i \in 1..Len(ideal) : own.list[i] \in Entries
      BY <2>2, <2>3
    <3>2. QED
      BY <3>1 DEF Entries
  <2>5. own.map[k] # 0 => \E i \in 1..Len(ideal) : own.list[i].id = own.map[k] /\ own.list[i].key = k
    BY <2>1 DEF LruBut
  <2>6. ToSet(own.list) = {own.list[i] : i \in 1..Len(ideal)}
    BY <2>3 DEF ToSet
  <2>7. QED
    BY <2>4, <2>5, <2>6 DEF None0
<1>3. ASSUME design = "ring" PROVE {own.nodes[k] : k \in DesignValues} \ {None0} = own.live
  <2>1. PICK r \in Seq(RingNodes) : RingHolds(own, ideal, r)
    BY <1>1, <1>3 DEF DesignAgrees, RingAgrees
  <2>2. QED
    BY <2>1, RingHeld
<1>4. QED
  BY <1>1, <1>2, <1>3 DEF DesignsKeepTheirPromise

\* The theorem of this section: every call of the ten classes returns what its user may expect after
\* all the calls before, and the maps of the caches name the nodes that exist, for any values, keys,
\* capacity and bound.
THEOREM PromisesStayKept == DesignSpec => []DesignsKeepTheirPromise
<1>1. QED
  BY DesignStarts, DesignStep, DesignInvPromises, PTL DEF DesignSpec
=============================================================================
