----------------------------- MODULE MqttDevices -----------------------------
(***************************************************************************)
(* The programs of code/mqtt/client/go over a broker: devices (client.go)  *)
(* publish their state and answer commands, the server (server.go) answers *)
(* every state with a command. autopaho connects them again whenever the   *)
(* connection is lost; the broker keeps the session of a lost connection   *)
(* for 60 seconds. A device subscribes once, after its first connection;   *)
(* the server in every OnConnectionUp.                                     *)
(***************************************************************************)
EXTENDS Integers, FiniteSets

CONSTANTS Devices,
          MaxStates,       \* bound: states a device publishes
          MaxConnects      \* bound: connections of one program

Server == "server"
Programs == Devices \cup {Server}

ASSUME MqttAssumption == Server \notin Devices /\ MaxStates \in Nat /\ MaxConnects \in Nat

VARIABLES online,        \* programs whose connection is up
          connects,      \* per program, the connections it has had
          session,       \* per program, at the broker: topics, and messages not acknowledged
          deviceStage,   \* "await", "subscribe" or "publish"
          sent,          \* states published
          routine,       \* per connection of the server, the topics it has yet to subscribe
          handling,      \* per program, the message whose handler has published its answer
          forgotten,     \* devices whose subscription failed, or ended with the session
          wills,         \* devices with a retained will
          told           \* devices the server was told are offline

mqttVars == <<online, connects, session, deviceStage, sent, routine, handling, forgotten, wills, told>>

ServerTopics == {"state", "result", "will"}
NoSession == [topics |-> {}, queue |-> {}]
NoMessage == [kind |-> "none"]
Message(kind, d, n) == [kind |-> kind, device |-> d, n |-> n]

MqttInit ==
  /\ online = {} /\ connects = [p \in Programs |-> 0] /\ session = [p \in Programs |-> NoSession]
  /\ deviceStage = [d \in Devices |-> "await"] /\ sent = [d \in Devices |-> 0]
  /\ routine = [n \in 1..MaxConnects |-> {}] /\ handling = [p \in Programs |-> NoMessage]
  /\ forgotten = {} /\ wills = {} /\ told = {}

\* The broker puts a message into the queue of its reader, if that has subscribed.
Routed(s, m) ==
  LET reader == IF m.kind = "command" THEN m.device ELSE Server
  IN IF m.kind \in s[reader].topics THEN [s EXCEPT ![reader].queue = @ \cup {m}] ELSE s

\* MUTANT Subscribing: the server subscribes once, as the devices do.
SubscribingOnce(n) == IF n = 1 THEN ServerTopics ELSE {}
\* What the OnConnectionUp of the n-th connection of the server is to subscribe.
Subscribing(n) == ServerTopics

\* The first connection starts with a clean session.
Connect(p) ==
  /\ p \notin online /\ connects[p] < MaxConnects
  /\ online' = online \cup {p} /\ connects' = [connects EXCEPT ![p] = @ + 1]
  /\ session' = IF connects[p] = 0 THEN [session EXCEPT ![p] = NoSession] ELSE session
  /\ routine' = IF p = Server THEN [routine EXCEPT ![connects'[p]] = Subscribing(connects'[p])] ELSE routine
  /\ UNCHANGED <<deviceStage, sent, handling, forgotten, wills, told>>

\* A lost connection: the broker publishes and retains the will; what was not
\* acknowledged is delivered again.
Disconnect(p) ==
  /\ p \in online /\ online' = online \ {p}
  /\ handling' = [handling EXCEPT ![p] = NoMessage]
  /\ wills' = wills \cup ({p} \cap Devices)
  /\ session' = IF p \in Devices THEN Routed(session, Message("will", p, 0)) ELSE session
  /\ UNCHANGED <<connects, deviceStage, sent, routine, forgotten, told>>

\* SessionExpiryInterval.
Expire(p) ==
  /\ p \notin online /\ connects[p] > 0 /\ session[p] # NoSession
  /\ session' = [session EXCEPT ![p] = NoSession]
  /\ forgotten' = forgotten \cup ({p} \cap Devices)
  /\ UNCHANGED <<online, connects, deviceStage, sent, routine, handling, wills, told>>

\* startClient of a device: AwaitConnection, then subscribe, whose error is
\* printed, then publish for ever.
AwaitConnection(d) ==
  /\ deviceStage[d] = "await" /\ d \in online
  /\ deviceStage' = [deviceStage EXCEPT ![d] = "subscribe"]
  /\ UNCHANGED <<online, connects, session, sent, routine, handling, forgotten, wills, told>>
SubscribeDevice(d) ==
  /\ deviceStage[d] = "subscribe" /\ deviceStage' = [deviceStage EXCEPT ![d] = "publish"]
  /\ IF d \in online
     THEN session' = [session EXCEPT ![d].topics = {"command"}] /\ UNCHANGED forgotten
     ELSE forgotten' = forgotten \cup {d} /\ UNCHANGED session
  /\ UNCHANGED <<online, connects, sent, routine, handling, wills, told>>
PublishState(d) ==
  /\ deviceStage[d] = "publish" /\ sent[d] < MaxStates
  /\ sent' = [sent EXCEPT ![d] = @ + 1]
  /\ session' = IF d \in online THEN Routed(session, Message("state", d, sent[d] + 1)) ELSE session
  /\ UNCHANGED <<online, connects, deviceStage, routine, handling, forgotten, wills, told>>

\* One Subscribe of an OnConnectionUp of the server: state, result, will. The
\* retained wills are delivered at once.
SubscribeServer(n) ==
  LET topic == IF "state" \in routine[n] THEN "state" ELSE IF "result" \in routine[n] THEN "result" ELSE "will"
  IN /\ routine[n] # {} /\ routine' = [routine EXCEPT ![n] = @ \ {topic}]
     /\ session' = IF Server \notin online THEN session
                   ELSE [session EXCEPT ![Server] = [topics |-> @.topics \cup {topic},
                          queue |-> @.queue \cup (IF topic = "will" THEN {Message("will", d, 0) : d \in wills} ELSE {})]]
     /\ UNCHANGED <<online, connects, deviceStage, sent, handling, forgotten, wills, told>>

\* OnPublishReceived: the answer is published before the message is acknowledged.
Answer(m) ==
  CASE m.kind = "state" -> {Message("command", m.device, m.n)}
    [] m.kind = "command" -> {Message("result", m.device, m.n)}
    [] OTHER -> {}
HandleMessage(p) ==
  /\ p \in online /\ handling[p] = NoMessage
  /\ \E m \in session[p].queue :
       /\ handling' = [handling EXCEPT ![p] = m]
       /\ session' = IF Answer(m) = {} THEN session ELSE Routed(session, CHOOSE a \in Answer(m) : TRUE)
       /\ told' = IF m.kind = "will" THEN told \cup {m.device} ELSE told
  /\ UNCHANGED <<online, connects, deviceStage, sent, routine, forgotten, wills>>
Acknowledge(p) ==
  /\ p \in online /\ handling[p] # NoMessage
  /\ session' = [session EXCEPT ![p].queue = @ \ {handling[p]}]
  /\ handling' = [handling EXCEPT ![p] = NoMessage]
  /\ UNCHANGED <<online, connects, deviceStage, sent, routine, forgotten, wills, told>>

MqttNext ==
  \/ \E p \in Programs : Connect(p) \/ Disconnect(p) \/ Expire(p) \/ HandleMessage(p) \/ Acknowledge(p)
  \/ \E d \in Devices : AwaitConnection(d) \/ SubscribeDevice(d) \/ PublishState(d)
  \/ \E n \in 1..MaxConnects : SubscribeServer(n)

----------------------------------------------------------------------------
\* Connected, and with no OnConnectionUp under way, the server has all its
\* subscriptions, whatever connections and sessions it lost before. A device
\* has its own until the broker forgets the session, or if the connection was
\* lost before the one Subscribe (client.go:106): then it gets no command again.
SubscriptionsKept ==
  /\ Server \in online /\ (\A n \in 1..MaxConnects : routine[n] = {}) => session[Server].topics = ServerTopics
  /\ \A d \in Devices :
       /\ deviceStage[d] = "publish" /\ d \notin forgotten => session[d].topics = {"command"}
       /\ d \in forgotten /\ deviceStage[d] = "publish" => session[d].topics = {}
       /\ d \in told => connects[d] > 0 /\ d \in wills
=============================================================================
