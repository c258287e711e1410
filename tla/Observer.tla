------------------------------ MODULE Observer ------------------------------
(***************************************************************************)
(* The observers of code/designpattern/observer.cpp, notified by job and   *)
(* level. The list of the subject holds addresses: programs attach, detach *)
(* and delete watchers in any order, and a new watcher may come to live    *)
(* where one was deleted. What follows a call to a deleted watcher is      *)
(* undefined and not modelled.                                             *)
(***************************************************************************)
EXTENDS Integers, Sequences, FiniteSets, SequencesExt

CONSTANTS Watchers,         \* addresses of watchers
          MaxAttached       \* bound: entries of observers

Jobs == {"recorder", "warner", "leader"}   \* 监测人员, 预警人员, 监测部门领导
PolluteLevels == 0..3

ASSUME ObserverAssumption == MaxAttached \in Nat

VARIABLES watcherJob,     \* m_job of the watcher at an address ("none" before setJob), or "deleted"
          observers,
          polluteLevel,
          attached,       \* watchers that have attached, and not detached since
          careless,       \* addresses of watchers deleted while attached, and not detached since
          notified        \* the latest notification: whom it called, and whom it should have

observerVars == <<watcherJob, observers, polluteLevel, attached, careless, notified>>

ObserverInit ==
  /\ watcherJob = [w \in Watchers |-> "deleted"]
  /\ observers = <<>> /\ polluteLevel = 0
  /\ attached = {} /\ careless = {}
  /\ notified = [got |-> {}, dead |-> {}, due |-> {}, careless |-> {}]

Lives(w) == watcherJob[w] # "deleted"

Create(w) ==
  /\ ~ Lives(w) /\ watcherJob' = [watcherJob EXCEPT ![w] = "none"]
  /\ UNCHANGED <<observers, polluteLevel, attached, careless, notified>>

SetJob(w, job) ==
  /\ Lives(w) /\ watcherJob' = [watcherJob EXCEPT ![w] = job]
  /\ UNCHANGED <<observers, polluteLevel, attached, careless, notified>>

Delete(w) ==
  /\ Lives(w) /\ watcherJob' = [watcherJob EXCEPT ![w] = "deleted"]
  /\ attached' = attached \ {w} /\ careless' = careless \cup ({w} \cap attached)
  /\ UNCHANGED <<observers, polluteLevel, notified>>

Attach(w) ==
  /\ Lives(w) /\ Len(observers) < MaxAttached
  /\ observers' = Append(observers, w) /\ attached' = attached \cup {w}
  /\ UNCHANGED <<watcherJob, polluteLevel, careless, notified>>

\* MUTANT Removed: only the first entry goes.
RemovedFirst(w) == IF Contains(observers, w) THEN RemoveFirst(observers, w) ELSE observers
\* list::remove takes out every entry.
Removed(w) ==
  LET kept[k \in 0..Len(observers)] ==
        IF k = 0 THEN <<>> ELSE IF observers[k] = w THEN kept[k - 1] ELSE Append(kept[k - 1], observers[k])
  IN kept[Len(observers)]

\* Only addresses are compared, so that a watcher may be detached after it was deleted.
Detach(w) ==
  /\ observers' = Removed(w) /\ attached' = attached \ {w} /\ careless' = careless \ {w}
  /\ UNCHANGED <<watcherJob, polluteLevel, notified>>

\* The tests of notifyWatchers: each job from a level of its own on.
Called(w, level) ==
  \/ level >= 0 /\ watcherJob[w] = "recorder"
  \/ level >= 1 /\ watcherJob[w] = "warner"
  \/ level >= 2 /\ watcherJob[w] = "leader"
\* Whom the requirement names at a level (observer.cpp:4).
Asked(level) ==
  IF level = 0 THEN {"recorder"} ELSE IF level = 1 THEN {"recorder", "warner"} ELSE Jobs

Notify(level) ==
  notified' = [got  |-> {w \in ToSet(observers) : Lives(w) /\ Called(w, level)},
               dead |-> {w \in ToSet(observers) : ~ Lives(w)},
               due  |-> {w \in attached : watcherJob[w] \in Asked(level)},
               careless |-> careless]
notifyWatchers ==
  Notify(polluteLevel) /\ UNCHANGED <<watcherJob, observers, polluteLevel, attached, careless>>
SetPolluteLevel(level) ==
  /\ polluteLevel' = level /\ Notify(level)
  /\ UNCHANGED <<watcherJob, observers, attached, careless>>

ObserverNext ==
  /\ notified.dead = {}
  /\ \/ \E w \in Watchers : \/ Create(w) \/ Delete(w) \/ Attach(w) \/ Detach(w)
                            \/ \E job \in Jobs : SetJob(w, job)
     \/ notifyWatchers
     \/ \E level \in PolluteLevels : SetPolluteLevel(level)

----------------------------------------------------------------------------
\* Whatever was attached, detached, deleted and created at the same address
\* before it, a notification calls a watcher that is gone (observer.cpp:159)
\* only where one was deleted while attached. Elsewhere it calls those who have
\* attached and not detached since, exactly if the requirement names their job
\* at the level (observer.cpp:4).
ObserversLive ==
  /\ notified.dead \subseteq notified.careless
  /\ notified.dead = {} => notified.got \ notified.careless = notified.due \ notified.careless
=============================================================================
