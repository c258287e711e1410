------------------------------ MODULE Samples ------------------------------
(***************************************************************************)
(* The programs of the repository that are small enough to be checked      *)
(* together. They share nothing: part says which of them a behaviour is    *)
(* about, and the variables of the others keep their first values.         *)
(***************************************************************************)
EXTENDS OrderedSet, TimerQueue, MemoryPool, BloomFilter, JsonTree, JsonText, Exceptions, Singletons,
        XdpNat, EventLoops, MqttDevices, Observer, Zpipe, Designs, Exercises

CONSTANTS JsonDocs,        \* items that are printed and parsed
          AllDesigns,      \* data structures of Designs
          AllExercises     \* pairs of an exercise and its input

VARIABLE part

\* The choices of a part are made only where a behaviour is about it.
Inputs(p, S) == IF part = p THEN S ELSE {CHOOSE x \in S : TRUE}

SamplesInit ==
  /\ part \in {"trees", "timers", "pool", "bloom", "jsontree", "jsontext", "exceptions", "singletons",
               "xdp", "loops", "mqtt", "observer", "zpipe", "designs", "exercises"}
  /\ OrderedSetInit(Inputs("trees", TreeKinds))
  /\ TimerInit(Inputs("timers", {"skiplist", "rbtree"}))
  /\ PoolInit
  /\ BloomInit
  /\ JsonInit(Inputs("jsontree", JsonLimits))
  /\ JsonTextInit(Inputs("jsontext", JsonDocs))
  /\ ExceptionInit
  /\ SingletonInit(Inputs("singletons", 1..6))
  /\ XdpInit(Inputs("xdp", {"tcp", "udp", "icmp"}))
  /\ LoopInit(Inputs("loops", {"select", "poll", "epoll"}))
  /\ MqttInit
  /\ ObserverInit
  /\ ZpipeInit(Inputs("zpipe", {"def", "inf"}), Inputs("zpipe", SourceSizes))
  /\ DesignInit(Inputs("designs", AllDesigns))
  /\ ExerciseInit(IF part = "exercises" THEN AllExercises ELSE {NoQuestion})

Keep(p, vars) == IF part = p THEN TRUE ELSE UNCHANGED vars
OthersUnchanged ==
  /\ UNCHANGED part
  /\ Keep("trees", treeVars) /\ Keep("timers", timerVars) /\ Keep("pool", poolVars)
  /\ Keep("bloom", bloomVars) /\ Keep("jsontree", jsonVars) /\ Keep("jsontext", textVars)
  /\ Keep("exceptions", exceptionVars) /\ Keep("singletons", singletonVars) /\ Keep("xdp", xdpVars)
  /\ Keep("loops", loopVars) /\ Keep("mqtt", mqttVars) /\ Keep("observer", observerVars)
  /\ Keep("zpipe", zpipeVars) /\ Keep("designs", designVars) /\ Keep("exercises", exerciseVars)

SamplesNext ==
  \/ part = "trees" /\ OrderedSetNext /\ OthersUnchanged
  \/ part = "timers" /\ TimerNext /\ OthersUnchanged
  \/ part = "pool" /\ PoolNext /\ OthersUnchanged
  \/ part = "bloom" /\ BloomNext /\ OthersUnchanged
  \/ part = "jsontree" /\ JsonNext /\ OthersUnchanged
  \/ part = "jsontext" /\ JsonTextNext /\ OthersUnchanged
  \/ part = "exceptions" /\ ExceptionNext /\ OthersUnchanged
  \/ part = "singletons" /\ SingletonNext /\ OthersUnchanged
  \/ part = "xdp" /\ XdpNext /\ OthersUnchanged
  \/ part = "loops" /\ LoopNext /\ OthersUnchanged
  \/ part = "mqtt" /\ MqttNext /\ OthersUnchanged
  \/ part = "observer" /\ ObserverNext /\ OthersUnchanged
  \/ part = "zpipe" /\ ZpipeNext /\ OthersUnchanged
  \/ part = "designs" /\ DesignNext /\ OthersUnchanged
  \/ part = "exercises" /\ Solve /\ OthersUnchanged
============================================================================
