----------------------------- MODULE Singletons -----------------------------
(***************************************************************************)
(* The variants of Singleton::getInstance in                               *)
(* code/designpattern/singleton.cpp, chosen by SINGLETON_INDEX, under      *)
(* threads that all call it once. A plain pointer (variants 1 to 3) may be *)
(* seen set before the object behind it is constructed: compiler and       *)
(* processor may swap the two stores. At exit, after the threads were      *)
(* joined, the GarbageCollector of variants 1 to 4 deletes the object.     *)
(***************************************************************************)
EXTENDS Integers, FiniteSets

CONSTANT Callers

ASSUME SingletonAssumption == 0 \notin Callers      \* 0 stands for no thread

VARIABLES variant,       \* SINGLETON_INDEX
          caller,        \* per thread, where it is
          tmp,           \* per thread, the object it allocates or returns, 0 for none
          instance,      \* m_singleton, m_instance or the guarded local
          mutex,         \* the thread that holds m_mutex, 0 for none
          constructed,   \* objects whose constructor has run
          objects,       \* the number of objects allocated
          deleted        \* objects the GarbageCollector has deleted

singletonVars == <<variant, caller, tmp, instance, mutex, constructed, objects, deleted>>

SingletonInit(variants) ==
  /\ variant \in variants
  /\ caller = [t \in Callers |-> "check"] /\ tmp = [t \in Callers |-> 0]
  /\ mutex = 0 /\ deleted = {}
  /\ instance = IF variant = 6 THEN 1 ELSE 0            \* before main
  /\ constructed = IF variant = 6 THEN {1} ELSE {}
  /\ objects = IF variant = 6 THEN 1 ELSE 0

Go(t, from, to) == caller[t] = from /\ caller' = [caller EXCEPT ![t] = to]

\* MUTANT AfterLock: variants 3 to 5 do not look again under the lock.
AfterLockAllocate == IF variant = 2 THEN "look" ELSE "allocate"
AfterLock == "look"

\* The first look at the pointer; variant 2 takes the mutex first.
Check(t) ==
  /\ caller[t] = "check"
  /\ caller' = [caller EXCEPT ![t] = IF variant = 2 THEN "lock"
                                     ELSE IF instance # 0 THEN "return"
                                     ELSE IF variant = 1 THEN "allocate" ELSE "lock"]
  /\ tmp' = [tmp EXCEPT ![t] = instance]
  /\ UNCHANGED <<variant, instance, mutex, constructed, objects, deleted>>

Lock(t) ==
  /\ mutex = 0 /\ mutex' = t /\ Go(t, "lock", AfterLock)
  /\ UNCHANGED <<variant, tmp, instance, constructed, objects, deleted>>

\* The look under the lock.
Look(t) ==
  /\ Go(t, "look", IF instance = 0 THEN "allocate" ELSE "unlock")
  /\ tmp' = [tmp EXCEPT ![t] = instance]
  /\ UNCHANGED <<variant, instance, mutex, constructed, objects, deleted>>

\* new Singleton: the memory, then the constructor and the pointer. Variant 4
\* has a fence between them, variant 5 the guard of the local.
Allocate(t) ==
  /\ objects' = objects + 1
  /\ tmp' = [tmp EXCEPT ![t] = objects + 1]
  /\ \/ Go(t, "allocate", "construct")
     \/ variant \in 1..3 /\ Go(t, "allocate", "publish_early")
  /\ UNCHANGED <<variant, instance, mutex, constructed, deleted>>

Done == IF variant = 1 THEN "return" ELSE "unlock"

Construct(t) ==
  /\ \/ Go(t, "construct", "publish")
     \/ Go(t, "construct_late", Done)
  /\ constructed' = constructed \cup {tmp[t]}
  /\ UNCHANGED <<variant, tmp, instance, mutex, objects, deleted>>

Publish(t) ==
  /\ \/ Go(t, "publish", Done)
     \/ Go(t, "publish_early", "construct_late")
  /\ instance' = tmp[t]
  /\ UNCHANGED <<variant, tmp, mutex, constructed, objects, deleted>>

Unlock(t) ==
  /\ mutex' = 0 /\ Go(t, "unlock", "return")
  /\ UNCHANGED <<variant, tmp, instance, constructed, objects, deleted>>

\* Variants 1 to 3 read the pointer again.
ReturnObject(t) ==
  /\ Go(t, "return", "done")
  /\ tmp' = IF variant = 4 THEN tmp ELSE [tmp EXCEPT ![t] = instance]
  /\ UNCHANGED <<variant, instance, mutex, constructed, objects, deleted>>

\* ~GarbageCollector; only variant 4 leaves the pointer as it is.
CollectGarbage ==
  /\ variant \in 1..4 /\ \A t \in Callers : caller[t] = "done"
  /\ instance # 0 /\ instance \notin deleted
  /\ deleted' = deleted \cup {instance}
  /\ instance' = IF variant = 4 THEN instance ELSE 0
  /\ UNCHANGED <<variant, caller, tmp, mutex, constructed, objects>>

SingletonNext ==
  \/ CollectGarbage
  \/ \E t \in Callers : \/ Check(t) \/ Lock(t) \/ Look(t) \/ Allocate(t) \/ Construct(t)
                        \/ Publish(t) \/ Unlock(t) \/ ReturnObject(t)

----------------------------------------------------------------------------
Finished == {t \in Callers : caller[t] = "done"}

\* Only variant 1 makes two objects, and loses all but one at exit
\* (singleton.cpp:51, 93, 144, 195): every caller of the others gets the same.
OneObject ==
  variant # 1 =>
    /\ objects <= 1 /\ \A t \in Finished : tmp[t] = 1
    /\ mutex = 0 => constructed = 1..objects

\* No caller gets an object before its constructor has run, but with the plain
\* pointer that variants 1 and 3 read without the mutex (singleton.cpp:144, 150).
ReturnedIsConstructed == variant \notin {1, 3} => \A t \in Finished : tmp[t] \in constructed

\* Every caller gets the one object, complete.
OneInstance == OneObject /\ ReturnedIsConstructed
=============================================================================
