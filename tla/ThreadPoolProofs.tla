-------------------------- MODULE ThreadPoolProofs --------------------------
(***************************************************************************)
(* Theorems about ThreadPool for any number of workers, jobs and spurious  *)
(* wakeups, and, at the end, about the other program of threads and a      *)
(* mutex, Singletons.                                                      *)
(***************************************************************************)
EXTENDS ThreadPool, Singletons, FiniteSetTheorems, TLAPS

(***************************************************************************)
(* Elementary facts about lists built at the head.                         *)
(***************************************************************************)

\* What adding at the head of a list (LL_ADD) gives.
LEMMA ConsFacts ==
  ASSUME NEW S, NEW s \in Seq(S), NEW e \in S
  PROVE  /\ <<e>> \o s \in Seq(S)
         /\ Len(<<e>> \o s) = Len(s) + 1
         /\ (<<e>> \o s)[1] = e
         /\ \A k \in 1..Len(s) : (<<e>> \o s)[k + 1] = s[k]
         /\ DOMAIN (<<e>> \o s) = 1..(Len(s) + 1)
         /\ Range(<<e>> \o s) = {e} \cup Range(s)
<1>1. <<e>> \o s \in Seq(S) /\ Len(<<e>> \o s) = Len(s) + 1 /\ (<<e>> \o s)[1] = e
  OBVIOUS
<1>2. \A k \in 1..Len(s) : (<<e>> \o s)[k + 1] = s[k]
  OBVIOUS
<1>3. DOMAIN (<<e>> \o s) = 1..(Len(s) + 1)
  BY <1>1
<1>4. \A k \in 2..(Len(s) + 1) : k - 1 \in 1..Len(s) /\ (<<e>> \o s)[k] = s[k - 1]
  BY <1>2
<1>5. DOMAIN s = 1..Len(s) /\ Len(s) \in Nat
  OBVIOUS
<1>6. \A x \in Range(<<e>> \o s) : x \in {e} \cup Range(s)
  BY <1>1, <1>3, <1>4, <1>5 DEF Range
<1>7. \A x \in Range(s) : x \in Range(<<e>> \o s)
  <2> SUFFICES ASSUME NEW k \in 1..Len(s) PROVE s[k] \in Range(<<e>> \o s)
    BY <1>5 DEF Range
  <2>1. k + 1 \in 1..(Len(s) + 1)
    BY <1>5
  <2> QED BY <2>1, <1>2, <1>3 DEF Range
<1>8. e \in Range(<<e>> \o s)
  BY <1>1, <1>3, <1>5 DEF Range
<1> QED BY <1>1, <1>2, <1>3, <1>6, <1>7, <1>8

\* What removing the head of a list (LL_REMOVE of the head) gives.
LEMMA TailFacts ==
  ASSUME NEW S, NEW s \in Seq(S), s # <<>>
  PROVE  /\ Head(s) \in S /\ Head(s) = s[1] /\ Head(s) \in Range(s)
         /\ Tail(s) \in Seq(S)
         /\ Len(Tail(s)) = Len(s) - 1
         /\ \A k \in 1..(Len(s) - 1) : Tail(s)[k] = s[k + 1]
         /\ Range(Tail(s)) \subseteq Range(s)
         /\ Len(s) > 0
<1>1. /\ Head(s) \in S /\ Head(s) = s[1] /\ Tail(s) \in Seq(S)
      /\ Len(Tail(s)) = Len(s) - 1 /\ Len(s) > 0 /\ Len(s) \in Nat
      /\ \A k \in 1..(Len(s) - 1) : Tail(s)[k] = s[k + 1]
  OBVIOUS
<1>2. Head(s) \in Range(s)
  BY <1>1 DEF Range
<1>3. Range(Tail(s)) \subseteq Range(s)
  <2> SUFFICES ASSUME NEW k \in 1..(Len(s) - 1) PROVE Tail(s)[k] \in Range(s)
    BY <1>1 DEF Range
  <2>1. k + 1 \in 1..Len(s)
    BY <1>1
  <2> QED BY <2>1, <1>1 DEF Range
<1> QED BY <1>1, <1>2, <1>3

\* The empty list has no elements.
LEMMA EmptyFacts == Range(<< >>) = {} /\ DOMAIN << >> = {}
  BY DEF Range

\* A list without repetition keeps none when a new element is added at its head.
LEMMA ConsInjective ==
  ASSUME NEW S, NEW s \in Seq(S), NEW e \in S, e \notin Range(s), IsInjective(s)
  PROVE  IsInjective(<<e>> \o s)
<1> DEFINE t == <<e>> \o s
<1>1. /\ t[1] = e /\ DOMAIN t = 1..(Len(s) + 1) /\ Len(s) \in Nat
      /\ \A k \in 1..Len(s) : t[k + 1] = s[k]
  BY ConsFacts
<1> HIDE DEF t
<1>2. DOMAIN s = 1..Len(s)
  OBVIOUS
<1>3. \A k \in DOMAIN t : k = 1 \/ (k - 1 \in DOMAIN s /\ t[k] = s[k - 1])
  BY <1>1, <1>2
<1>4. \A k \in DOMAIN s : s[k] # e
  BY DEF Range
<1>5. \A m, n \in DOMAIN s : s[m] = s[n] => m = n
  BY DEF IsInjective
<1>6. \A m, n \in DOMAIN t : t[m] = t[n] => m = n
  <2> SUFFICES ASSUME NEW m \in DOMAIN t, NEW n \in DOMAIN t, t[m] = t[n] PROVE m = n
    OBVIOUS
  <2>1. m \in Nat /\ n \in Nat
    BY <1>1
  <2>2. CASE m # 1 /\ n # 1 BY <2>1, <2>2, <1>3, <1>5
  <2>3. CASE m = 1 \/ n = 1 BY <2>3, <1>1, <1>3, <1>4
  <2> QED BY <2>2, <2>3
<1> QED BY <1>6 DEF IsInjective, t

\* A list without repetition keeps none, and loses its head, when the head is removed.
LEMMA TailInjective ==
  ASSUME NEW S, NEW s \in Seq(S), s # <<>>, IsInjective(s)
  PROVE  IsInjective(Tail(s)) /\ Head(s) \notin Range(Tail(s))
<1> DEFINE t == Tail(s)
<1>1. /\ Head(s) = s[1] /\ DOMAIN t = 1..(Len(s) - 1) /\ Len(s) \in Nat /\ Len(s) > 0
      /\ \A k \in 1..(Len(s) - 1) : t[k] = s[k + 1]
  BY TailFacts
<1> HIDE DEF t
<1>2. DOMAIN s = 1..Len(s)
  OBVIOUS
<1>3. \A m, n \in DOMAIN s : s[m] = s[n] => m = n
  BY DEF IsInjective
<1>4. \A k \in DOMAIN t : k \in Nat /\ k > 0 /\ k + 1 \in DOMAIN s /\ t[k] = s[k + 1] /\ 1 \in DOMAIN s
  BY <1>1, <1>2
<1>5. \A m, n \in DOMAIN t : t[m] = t[n] => m = n
  BY <1>3, <1>4
<1>6. \A k \in DOMAIN t : t[k] # s[1]
  BY <1>3, <1>4
<1> QED BY <1>1, <1>5, <1>6 DEF IsInjective, Range, t

\* A decreasing list stays decreasing when a larger number is added at its head.
LEMMA ConsDecreasing ==
  ASSUME NEW S \in SUBSET Nat, NEW s \in Seq(S), NEW e \in S,
         \A k \in DOMAIN s : s[k] < e,
         \A m, n \in DOMAIN s : m < n => s[n] < s[m]
  PROVE  \A m, n \in DOMAIN (<<e>> \o s) : m < n => (<<e>> \o s)[n] < (<<e>> \o s)[m]
<1> DEFINE t == <<e>> \o s
<1>1. /\ t[1] = e /\ DOMAIN t = 1..(Len(s) + 1) /\ Len(s) \in Nat
      /\ \A k \in 1..Len(s) : t[k + 1] = s[k]
  BY ConsFacts
<1> HIDE DEF t
<1>2. DOMAIN s = 1..Len(s)
  OBVIOUS
<1>3. \A k \in DOMAIN t : k = 1 \/ (k - 1 \in DOMAIN s /\ t[k] = s[k - 1])
  BY <1>1, <1>2
<1>4. \A m, n \in DOMAIN t : m < n => t[n] < t[m]
  <2> SUFFICES ASSUME NEW m \in DOMAIN t, NEW n \in DOMAIN t, m < n PROVE t[n] < t[m]
    OBVIOUS
  <2>1. m \in Nat /\ n \in Nat /\ n # 1 /\ m >= 1
    BY <1>1
  <2>2. n - 1 \in DOMAIN s /\ t[n] = s[n - 1]
    BY <1>3, <2>1
  <2>3. CASE m = 1 BY <2>2, <2>3, <1>1
  <2>4. CASE m # 1
    <3>1. m - 1 \in DOMAIN s /\ t[m] = s[m - 1] /\ m - 1 < n - 1
      BY <1>3, <2>1, <2>4
    <3> QED BY <2>2, <3>1
  <2> QED BY <2>3, <2>4
<1> QED BY <1>4 DEF t

----------------------------------------------------------------------------
\* Every step keeps every variable in its type.
LEMMA TypeStep == IInv /\ [Next]_vars => TypeOK'
<1> SUFFICES ASSUME IInv, [Next]_vars PROVE TypeOK'
  OBVIOUS
<1> USE WorkersAssumption, OwnersAssumption, CountsAssumption DEF IInv, TypeOK, Jobs, NoJob,
        mainVars, workerVars
<1>1. CASE CreateWorker BY <1>1 DEF CreateWorker, Created
<1>2. CASE CreateReturns BY <1>2 DEF CreateReturns
<1>3. CASE MallocJob BY <1>3 DEF MallocJob
<1>4. CASE MallocJobFails BY <1>4 DEF MallocJobFails
<1>5. CASE MainLock BY <1>5 DEF MainLock
<1>6. CASE ThreadPoolQueue
  <2>1. i \in Jobs /\ waiting_jobs \in Seq(Jobs)
    BY <1>6 DEF ThreadPoolQueue, JobInv
  <2>2. waiting_jobs' \in Seq(Jobs)
    BY <1>6, <2>1, ConsFacts DEF ThreadPoolQueue
  <2>3. i' \in 1..(NumJobs + 1)
    BY <1>6, <2>1 DEF ThreadPoolQueue
  <2>4. wpc' \in [Workers -> {"none", "lock", "test", "asleep", "check", "run", "free", "gone"}]
    BY <1>6 DEF ThreadPoolQueue, Signal, Asleep
  <2> QED BY <1>6, <2>2, <2>3, <2>4 DEF ThreadPoolQueue
<1>7. CASE BeginShutdown BY <1>7 DEF BeginShutdown
<1>8. CASE MarkWorker BY <1>8 DEF MarkWorker
<1>9. CASE AdvanceCursor BY <1>9 DEF AdvanceCursor
<1>10. CASE CursorCrash BY <1>10 DEF CursorCrash
<1>11. CASE WalkEnds BY <1>11 DEF WalkEnds
<1>12. CASE StopPool BY <1>12 DEF StopPool, Asleep
<1>13. CASE MainReturn BY <1>13 DEF MainReturn
<1>14. ASSUME NEW w \in Workers, WorkerLock(w) PROVE TypeOK' BY <1>14 DEF WorkerLock
<1>15. ASSUME NEW w \in Workers, WorkerSleep(w) PROVE TypeOK' BY <1>15 DEF WorkerSleep
<1>16. ASSUME NEW w \in Workers, WorkerWoken(w) PROVE TypeOK' BY <1>16 DEF WorkerWoken
<1>17. ASSUME NEW w \in Workers, WorkerLeave(w) PROVE TypeOK' BY <1>17 DEF WorkerLeave
<1>18. ASSUME NEW w \in Workers, WorkerTake(w) PROVE TypeOK'
  <2>1. /\ job'[w] \in Jobs \cup {NoJob} /\ waiting_jobs' \in Seq(Jobs)
        /\ job' = [job EXCEPT ![w] = job'[w]]
    <3>1. CASE waiting_jobs = <<>> BY <1>18, <3>1 DEF WorkerTake
    <3>2. CASE waiting_jobs # <<>>
      <4>1. Head(waiting_jobs) \in Jobs /\ Tail(waiting_jobs) \in Seq(Jobs)
        BY <3>2, TailFacts
      <4> QED BY <1>18, <3>2, <4>1 DEF WorkerTake
    <3> QED BY <3>1, <3>2
  <2> QED BY <1>18, <2>1 DEF WorkerTake
<1>19. ASSUME NEW w \in Workers, WorkerRun(w) PROVE TypeOK' BY <1>19 DEF WorkerRun
<1>20. ASSUME NEW w \in Workers, WorkerFree(w) PROVE TypeOK' BY <1>20 DEF WorkerFree
<1>21. ASSUME NEW w \in Workers, SpuriousWakeup(w) PROVE TypeOK' BY <1>21 DEF SpuriousWakeup
<1>22. CASE UNCHANGED vars BY <1>22 DEF vars, Created, Asleep
<1> QED BY <1>1, <1>2, <1>3, <1>4, <1>5, <1>6, <1>7, <1>8, <1>9, <1>10, <1>11, <1>12, <1>13, <1>14,
        <1>15, <1>16, <1>17, <1>18, <1>19, <1>20, <1>21, <1>22 DEF Next, MainStep, WorkerThread

----------------------------------------------------------------------------
\* Every step keeps jobs_mtx with the one thread inside a critical section.
LEMMA LockStep == IInv /\ [Next]_vars => LockInv'
<1> SUFFICES ASSUME IInv, [Next]_vars PROVE LockInv'
  OBVIOUS
<1> USE WorkersAssumption, OwnersAssumption, CountsAssumption DEF IInv, LockInv, TypeOK, mainVars,
        workerVars
<1>1. CASE CreateWorker BY <1>1 DEF CreateWorker, Created
<1>2. CASE CreateReturns BY <1>2 DEF CreateReturns
<1>3. CASE MallocJob BY <1>3 DEF MallocJob
<1>4. CASE MallocJobFails BY <1>4 DEF MallocJobFails
<1>5. CASE MainLock BY <1>5 DEF MainLock
<1>6. CASE ThreadPoolQueue BY <1>6 DEF ThreadPoolQueue, Signal, Asleep
<1>7. CASE BeginShutdown BY <1>7 DEF BeginShutdown
<1>8. CASE MarkWorker BY <1>8 DEF MarkWorker
<1>9. CASE AdvanceCursor BY <1>9 DEF AdvanceCursor
<1>10. CASE CursorCrash BY <1>10 DEF CursorCrash
<1>11. CASE WalkEnds BY <1>11 DEF WalkEnds
<1>12. CASE StopPool BY <1>12 DEF StopPool, Asleep
<1>13. CASE MainReturn BY <1>13 DEF MainReturn
<1>14. ASSUME NEW w \in Workers, WorkerLock(w) PROVE LockInv' BY <1>14 DEF WorkerLock
<1>15. ASSUME NEW w \in Workers, WorkerSleep(w) PROVE LockInv' BY <1>15 DEF WorkerSleep
<1>16. ASSUME NEW w \in Workers, WorkerWoken(w) PROVE LockInv' BY <1>16 DEF WorkerWoken
<1>17. ASSUME NEW w \in Workers, WorkerLeave(w) PROVE LockInv' BY <1>17 DEF WorkerLeave
<1>18. ASSUME NEW w \in Workers, WorkerTake(w) PROVE LockInv' BY <1>18 DEF WorkerTake
<1>19. ASSUME NEW w \in Workers, WorkerRun(w) PROVE LockInv' BY <1>19 DEF WorkerRun
<1>20. ASSUME NEW w \in Workers, WorkerFree(w) PROVE LockInv' BY <1>20 DEF WorkerFree
<1>21. ASSUME NEW w \in Workers, SpuriousWakeup(w) PROVE LockInv' BY <1>21 DEF SpuriousWakeup
<1>22. CASE UNCHANGED vars BY <1>22 DEF vars, Created, Asleep
<1> QED BY <1>1, <1>2, <1>3, <1>4, <1>5, <1>6, <1>7, <1>8, <1>9, <1>10, <1>11, <1>12, <1>13, <1>14,
        <1>15, <1>16, <1>17, <1>18, <1>19, <1>20, <1>21, <1>22 DEF Next, MainStep, WorkerThread

----------------------------------------------------------------------------
\* Every step keeps jobs below main's counter and the list newest first.
LEMMA JobStep == IInv /\ [Next]_vars => JobInv'
<1> SUFFICES ASSUME IInv, [Next]_vars PROVE JobInv'
  OBVIOUS
<1> USE WorkersAssumption, OwnersAssumption, CountsAssumption DEF IInv, JobInv, TypeOK, Jobs,
        NoJob, mainVars, workerVars
<1>1. CASE CreateWorker BY <1>1 DEF CreateWorker, Created
<1>2. CASE CreateReturns BY <1>2 DEF CreateReturns
<1>3. CASE MallocJob BY <1>3 DEF MallocJob
<1>4. CASE MallocJobFails BY <1>4 DEF MallocJobFails
<1>5. CASE MainLock BY <1>5 DEF MainLock
<1>6. CASE ThreadPoolQueue
  <2>1. i \in Jobs /\ waiting_jobs \in Seq(Jobs) /\ i' = i + 1 /\ mpc' = "queue"
    BY <1>6 DEF ThreadPoolQueue
  <2>2. Range(waiting_jobs') = {i} \cup Range(waiting_jobs) /\ waiting_jobs' # <<>>
    BY <1>6, <2>1, ConsFacts DEF ThreadPoolQueue
  <2>3. /\ \A w \in Workers : wpc'[w] # wpc[w] => wpc[w] = "asleep" /\ wpc'[w] = "lock"
        /\ job' = job /\ terminate' = terminate /\ finished' = finished
    BY <1>6 DEF ThreadPoolQueue, Signal, Asleep
  <2>4. \A j \in Range(waiting_jobs') \cup finished' : j < i'
    <3>1. \A k \in DOMAIN waiting_jobs : waiting_jobs[k] \in Nat
      BY <2>1
    <3>2. Range(waiting_jobs) \subseteq Nat
      BY <3>1 DEF Range
    <3>3. \A j \in Range(waiting_jobs) \cup finished : j < i /\ j \in Nat
      <4>1. finished \subseteq Nat
        OBVIOUS
      <4>2. \A j \in Range(waiting_jobs) \cup finished : j < i
        OBVIOUS
      <4> QED BY ONLY <3>2, <4>1, <4>2
    <3>4. i \in Nat /\ \A j \in Nat : j < i => j < i + 1
      BY <2>1
    <3> QED BY ONLY <2>1, <2>2, <2>3, <3>3, <3>4
  <2>5. \A w \in Workers : job'[w] < i'
    BY <2>1, <2>3
  <2>6. \A w \in Workers : wpc'[w] = "run" <=> job'[w] # NoJob
    BY <2>3
  <2>7. \A m, n \in DOMAIN waiting_jobs' : m < n => waiting_jobs'[n] < waiting_jobs'[m]
    <3>1. Jobs \in SUBSET Nat /\ waiting_jobs' = <<i>> \o waiting_jobs
      BY <1>6 DEF ThreadPoolQueue
    <3>2. \A k \in DOMAIN waiting_jobs : waiting_jobs[k] < i
      BY DEF Range
    <3>3. \A m, n \in DOMAIN waiting_jobs : m < n => waiting_jobs[n] < waiting_jobs[m]
      OBVIOUS
    <3> HIDE DEF Jobs
    <3> QED BY ONLY <2>1, <3>1, <3>2, <3>3, ConsDecreasing
  <2> QED BY <2>1, <2>2, <2>4, <2>5, <2>6, <2>7
<1>7. CASE BeginShutdown BY <1>7 DEF BeginShutdown
<1>8. CASE MarkWorker BY <1>8 DEF MarkWorker
<1>9. CASE AdvanceCursor BY <1>9 DEF AdvanceCursor
<1>10. CASE CursorCrash BY <1>10 DEF CursorCrash
<1>11. CASE WalkEnds BY <1>11 DEF WalkEnds
<1>12. CASE StopPool
  <2>1. \A w \in Workers : wpc[w] # "check"
    BY <1>12 DEF StopPool, LockInv
  <2>2. \A w \in Workers : wpc'[w] # wpc[w] => wpc[w] = "asleep" /\ wpc'[w] = "lock"
    BY <1>12 DEF StopPool, Asleep
  <2>3. Range(waiting_jobs') = {} /\ DOMAIN waiting_jobs' = {}
    BY <1>12, EmptyFacts DEF StopPool
  <2> QED BY <1>12, <2>1, <2>2, <2>3 DEF StopPool
<1>13. CASE MainReturn BY <1>13 DEF MainReturn
<1>14. ASSUME NEW w \in Workers, WorkerLock(w) PROVE JobInv' BY <1>14 DEF WorkerLock
<1>15. ASSUME NEW w \in Workers, WorkerSleep(w) PROVE JobInv' BY <1>15 DEF WorkerSleep
<1>16. ASSUME NEW w \in Workers, WorkerWoken(w) PROVE JobInv' BY <1>16 DEF WorkerWoken
<1>17. ASSUME NEW w \in Workers, WorkerLeave(w) PROVE JobInv' BY <1>17 DEF WorkerLeave
<1>18. ASSUME NEW w \in Workers, WorkerTake(w) PROVE JobInv'
  <2>1. waiting_jobs # <<>> /\ waiting_jobs \in Seq(Jobs)
    BY <1>18 DEF WorkerTake
  <2>2. /\ Head(waiting_jobs) \in Jobs /\ Head(waiting_jobs) \in Range(waiting_jobs)
        /\ Range(Tail(waiting_jobs)) \subseteq Range(waiting_jobs)
    BY <2>1, TailFacts
  <2>3. \A v \in Workers \ {w} : wpc[v] # "check"
    BY <1>18 DEF WorkerTake, LockInv
  <2>4. waiting_jobs' = Tail(waiting_jobs)
    BY <1>18, <2>1 DEF WorkerTake
  <2>5. \A m, n \in DOMAIN waiting_jobs' : m < n => waiting_jobs'[n] < waiting_jobs'[m]
    <3>1. \A k \in DOMAIN waiting_jobs' : /\ k \in Nat /\ k + 1 \in DOMAIN waiting_jobs
                                        /\ waiting_jobs'[k] = waiting_jobs[k + 1]
      BY ONLY <2>1, <2>4, TailFacts
    <3> QED BY <3>1
  <2> QED BY <1>18, <2>1, <2>2, <2>3, <2>4, <2>5 DEF WorkerTake
<1>19. ASSUME NEW w \in Workers, WorkerRun(w) PROVE JobInv' BY <1>19 DEF WorkerRun
<1>20. ASSUME NEW w \in Workers, WorkerFree(w) PROVE JobInv' BY <1>20 DEF WorkerFree
<1>21. ASSUME NEW w \in Workers, SpuriousWakeup(w) PROVE JobInv' BY <1>21 DEF SpuriousWakeup
<1>22. CASE UNCHANGED vars BY <1>22 DEF vars, Created, Asleep
<1> QED BY <1>1, <1>2, <1>3, <1>4, <1>5, <1>6, <1>7, <1>8, <1>9, <1>10, <1>11, <1>12, <1>13, <1>14,
        <1>15, <1>16, <1>17, <1>18, <1>19, <1>20, <1>21, <1>22 DEF Next, MainStep, WorkerThread

----------------------------------------------------------------------------
\* Every step keeps the worker list complete and the shutdown walk in order.
LEMMA WalkStep == IInv /\ [Next]_vars => WalkInv'
<1> SUFFICES ASSUME IInv, [Next]_vars PROVE WalkInv'
  OBVIOUS
<1> USE WorkersAssumption, OwnersAssumption, CountsAssumption DEF IInv, WalkInv, TypeOK, Created,
        LockInv, mainVars, workerVars
<1>1. CASE CreateWorker
  <2>1. PICK w \in Workers \ Created : /\ wpc' = [wpc EXCEPT ![w] = "lock"]
                                        /\ workers' = <<w>> \o workers
    BY <1>1 DEF CreateWorker
  <2>2. workers \in Seq(Workers) /\ Range(workers) = Created /\ Created' = Created \cup {w}
    BY <1>1, <2>1 DEF CreateWorker
  <2>3. Range(workers') = {w} \cup Range(workers) /\ IsInjective(workers')
    BY <2>1, <2>2, ConsFacts, ConsInjective
  <2>4. /\ mpc = "create" /\ mpc' = mpc /\ terminate' = terminate
        /\ \A v \in Workers : ~ terminate[v]
    BY <1>1 DEF CreateWorker
  <2>5. \A v \in Workers : wpc'[v] \notin {"free", "gone"}
    BY <2>1, <2>4
  <2>6. Range(workers') = Created'
    BY <2>2, <2>3
  <2> QED BY ONLY <2>3, <2>4, <2>5, <2>6 DEF WalkInv
<1>2. CASE CreateReturns BY <1>2 DEF CreateReturns
<1>3. CASE MallocJob BY <1>3 DEF MallocJob
<1>4. CASE MallocJobFails BY <1>4 DEF MallocJobFails
<1>5. CASE MainLock BY <1>5 DEF MainLock
<1>6. CASE ThreadPoolQueue BY <1>6 DEF ThreadPoolQueue, Signal, Asleep
<1>7. CASE BeginShutdown BY <1>7 DEF BeginShutdown
<1>8. CASE MarkWorker
  <2>1. cursor \in DOMAIN workers /\ workers[cursor] \in Workers
    BY <1>8 DEF MarkWorker
  <2>2. workers[cursor] \in Created
    BY <1>8, <2>1 DEF MarkWorker, Range
  <2>3. terminate' = [terminate EXCEPT ![workers[cursor]] = TRUE]
    BY <1>8 DEF MarkWorker
  <2>4. \A k \in DOMAIN workers : terminate'[workers[k]] <=> k <= cursor
    <3> SUFFICES ASSUME NEW k \in DOMAIN workers PROVE terminate'[workers[k]] <=> k <= cursor
      OBVIOUS
    <3>1. workers[k] \in Workers /\ (terminate[workers[k]] <=> k < cursor)
      BY <1>8 DEF MarkWorker
    <3>2. CASE k = cursor BY <2>1, <2>3, <3>1, <3>2
    <3>3. CASE k # cursor
      <4>1. workers[k] # workers[cursor]
        BY <2>1, <3>3 DEF IsInjective
      <4>2. terminate'[workers[k]] = terminate[workers[k]]
        BY <2>3, <3>1, <4>1
      <4>3. k \in Nat /\ cursor \in Nat
        OBVIOUS
      <4> QED BY <3>1, <3>3, <4>2, <4>3
    <3> QED BY <3>2, <3>3
  <2>5. \A w \in Workers : terminate'[w] <=> terminate[w] \/ w = workers[cursor]
    BY <2>3
  <2> QED BY <1>8, <2>1, <2>2, <2>4, <2>5 DEF MarkWorker
<1>9. CASE AdvanceCursor BY <1>9 DEF AdvanceCursor
<1>10. CASE CursorCrash BY <1>10 DEF CursorCrash
<1>11. CASE WalkEnds
  <2>1. \A k \in DOMAIN workers : terminate[workers[k]]
    BY <1>11 DEF WalkEnds
  <2>2. \A w \in Created : terminate[w]
    BY <1>11, <2>1 DEF WalkEnds, Range
  <2> QED BY <1>11, <2>2 DEF WalkEnds
<1>12. CASE StopPool
  <2>1. \A w \in Workers : (wpc'[w] # wpc[w] => wpc[w] = "asleep" /\ wpc'[w] = "lock")
    BY <1>12 DEF StopPool, Asleep
  <2>2. workers' = <<>> /\ IsInjective(workers')
    BY <1>12 DEF StopPool, IsInjective
  <2>3. mpc = "stop" /\ mpc' = "return" /\ terminate' = terminate
    BY <1>12 DEF StopPool
  <2> QED BY <2>1, <2>2, <2>3
<1>13. CASE MainReturn BY <1>13 DEF MainReturn
<1>14. ASSUME NEW w \in Workers, WorkerLock(w) PROVE WalkInv' BY <1>14 DEF WorkerLock
<1>15. ASSUME NEW w \in Workers, WorkerSleep(w) PROVE WalkInv' BY <1>15 DEF WorkerSleep
<1>16. ASSUME NEW w \in Workers, WorkerWoken(w) PROVE WalkInv' BY <1>16 DEF WorkerWoken
<1>17. ASSUME NEW w \in Workers, WorkerLeave(w) PROVE WalkInv' BY <1>17 DEF WorkerLeave
<1>18. ASSUME NEW w \in Workers, WorkerTake(w) PROVE WalkInv' BY <1>18 DEF WorkerTake
<1>19. ASSUME NEW w \in Workers, WorkerRun(w) PROVE WalkInv' BY <1>19 DEF WorkerRun
<1>20. ASSUME NEW w \in Workers, WorkerFree(w) PROVE WalkInv' BY <1>20 DEF WorkerFree
<1>21. ASSUME NEW w \in Workers, SpuriousWakeup(w) PROVE WalkInv' BY <1>21 DEF SpuriousWakeup
<1>22. CASE UNCHANGED vars BY <1>22 DEF vars, Created, Asleep
<1> QED BY <1>1, <1>2, <1>3, <1>4, <1>5, <1>6, <1>7, <1>8, <1>9, <1>10, <1>11, <1>12, <1>13, <1>14,
        <1>15, <1>16, <1>17, <1>18, <1>19, <1>20, <1>21, <1>22 DEF Next, MainStep, WorkerThread

----------------------------------------------------------------------------
\* No step puts a job in two places.
LEMMA OwnedStep == IInv /\ [Next]_vars => JobOwnedOnce'
<1> SUFFICES ASSUME IInv, [Next]_vars PROVE JobOwnedOnce'
  OBVIOUS
<1> USE WorkersAssumption, OwnersAssumption, CountsAssumption DEF IInv, JobOwnedOnce, TypeOK, Jobs,
        NoJob, JobInv, mainVars, workerVars
<1>1. CASE CreateWorker BY <1>1 DEF CreateWorker, Created
<1>2. CASE CreateReturns BY <1>2 DEF CreateReturns
<1>3. CASE MallocJob BY <1>3 DEF MallocJob
<1>4. CASE MallocJobFails BY <1>4 DEF MallocJobFails
<1>5. CASE MainLock BY <1>5 DEF MainLock
<1>6. CASE ThreadPoolQueue
  <2>1. i \in Jobs /\ waiting_jobs \in Seq(Jobs)
    BY <1>6 DEF ThreadPoolQueue
  <2>2. i \notin Range(waiting_jobs) /\ i \notin finished /\ \A w \in Workers : job[w] # i
    BY <2>1
  <2>3. Range(waiting_jobs') = {i} \cup Range(waiting_jobs) /\ IsInjective(waiting_jobs')
    BY <1>6, <2>1, <2>2, ConsFacts, ConsInjective DEF ThreadPoolQueue
  <2> QED BY <1>6, <2>2, <2>3 DEF ThreadPoolQueue
<1>7. CASE BeginShutdown BY <1>7 DEF BeginShutdown
<1>8. CASE MarkWorker BY <1>8 DEF MarkWorker
<1>9. CASE AdvanceCursor BY <1>9 DEF AdvanceCursor
<1>10. CASE CursorCrash BY <1>10 DEF CursorCrash
<1>11. CASE WalkEnds BY <1>11 DEF WalkEnds
<1>12. CASE StopPool
  <2>1. Range(waiting_jobs') = {} /\ IsInjective(waiting_jobs')
    BY <1>12, EmptyFacts DEF StopPool, IsInjective
  <2> QED BY <1>12, <2>1 DEF StopPool
<1>13. CASE MainReturn BY <1>13 DEF MainReturn
<1>14. ASSUME NEW w \in Workers, WorkerLock(w) PROVE JobOwnedOnce' BY <1>14 DEF WorkerLock
<1>15. ASSUME NEW w \in Workers, WorkerSleep(w) PROVE JobOwnedOnce' BY <1>15 DEF WorkerSleep
<1>16. ASSUME NEW w \in Workers, WorkerWoken(w) PROVE JobOwnedOnce' BY <1>16 DEF WorkerWoken
<1>17. ASSUME NEW w \in Workers, WorkerLeave(w) PROVE JobOwnedOnce' BY <1>17 DEF WorkerLeave
<1>18. ASSUME NEW w \in Workers, WorkerTake(w) PROVE JobOwnedOnce'
  <2>1. waiting_jobs # <<>> /\ waiting_jobs \in Seq(Jobs)
    BY <1>18 DEF WorkerTake
  <2>2. /\ waiting_jobs' = Tail(waiting_jobs)
        /\ job' = [job EXCEPT ![w] = Head(waiting_jobs)]
    BY <1>18, <2>1 DEF WorkerTake
  <2>3. /\ Head(waiting_jobs) \in Jobs
        /\ Head(waiting_jobs) \in Range(waiting_jobs)
        /\ Range(waiting_jobs') \subseteq Range(waiting_jobs)
        /\ IsInjective(waiting_jobs') /\ Head(waiting_jobs) \notin Range(waiting_jobs')
    BY <2>1, <2>2, TailFacts, TailInjective
  <2>4. Head(waiting_jobs) \notin finished /\ \A v \in Workers : job[v] # Head(waiting_jobs)
    BY <2>3
  <2> QED BY <1>18, <2>2, <2>3, <2>4 DEF WorkerTake
<1>19. ASSUME NEW w \in Workers, WorkerRun(w) PROVE JobOwnedOnce' BY <1>19 DEF WorkerRun
<1>20. ASSUME NEW w \in Workers, WorkerFree(w) PROVE JobOwnedOnce' BY <1>20 DEF WorkerFree
<1>21. ASSUME NEW w \in Workers, SpuriousWakeup(w) PROVE JobOwnedOnce' BY <1>21 DEF SpuriousWakeup
<1>22. CASE UNCHANGED vars BY <1>22 DEF vars, Created, Asleep
<1> QED BY <1>1, <1>2, <1>3, <1>4, <1>5, <1>6, <1>7, <1>8, <1>9, <1>10, <1>11, <1>12, <1>13, <1>14,
        <1>15, <1>16, <1>17, <1>18, <1>19, <1>20, <1>21, <1>22 DEF Next, MainStep, WorkerThread

----------------------------------------------------------------------------
\* No step leaves a worker asleep after ThreadPoolShutdown.
LEMMA AsleepStep == IInv /\ [Next]_vars => NoSleeperAfterShutdown'
<1> SUFFICES ASSUME IInv, [Next]_vars PROVE NoSleeperAfterShutdown'
  OBVIOUS
<1> USE WorkersAssumption, OwnersAssumption, CountsAssumption DEF IInv, NoSleeperAfterShutdown,
        TypeOK, Asleep, WalkInv, Created, mainVars, workerVars
<1>1. CASE CreateWorker BY <1>1 DEF CreateWorker
<1>2. CASE CreateReturns BY <1>2 DEF CreateReturns
<1>3. CASE MallocJob BY <1>3 DEF MallocJob
<1>4. CASE MallocJobFails BY <1>4 DEF MallocJobFails
<1>5. CASE MainLock BY <1>5 DEF MainLock
<1>6. CASE ThreadPoolQueue BY <1>6 DEF ThreadPoolQueue, Signal
<1>7. CASE BeginShutdown BY <1>7 DEF BeginShutdown
<1>8. CASE MarkWorker BY <1>8 DEF MarkWorker
<1>9. CASE AdvanceCursor BY <1>9 DEF AdvanceCursor
<1>10. CASE CursorCrash BY <1>10 DEF CursorCrash
<1>11. CASE WalkEnds BY <1>11 DEF WalkEnds
<1>12. CASE StopPool BY <1>12 DEF StopPool
<1>13. CASE MainReturn BY <1>13 DEF MainReturn
<1>14. ASSUME NEW w \in Workers, WorkerLock(w) PROVE NoSleeperAfterShutdown' BY <1>14 DEF WorkerLock
<1>15. ASSUME NEW w \in Workers, WorkerSleep(w) PROVE NoSleeperAfterShutdown' BY <1>15 DEF WorkerSleep
<1>16. ASSUME NEW w \in Workers, WorkerWoken(w) PROVE NoSleeperAfterShutdown' BY <1>16 DEF WorkerWoken
<1>17. ASSUME NEW w \in Workers, WorkerLeave(w) PROVE NoSleeperAfterShutdown' BY <1>17 DEF WorkerLeave
<1>18. ASSUME NEW w \in Workers, WorkerTake(w) PROVE NoSleeperAfterShutdown' BY <1>18 DEF WorkerTake
<1>19. ASSUME NEW w \in Workers, WorkerRun(w) PROVE NoSleeperAfterShutdown' BY <1>19 DEF WorkerRun
<1>20. ASSUME NEW w \in Workers, WorkerFree(w) PROVE NoSleeperAfterShutdown' BY <1>20 DEF WorkerFree
<1>21. ASSUME NEW w \in Workers, SpuriousWakeup(w) PROVE NoSleeperAfterShutdown' BY <1>21 DEF SpuriousWakeup
<1>22. CASE UNCHANGED vars BY <1>22 DEF vars, Created, Asleep
<1> QED BY <1>1, <1>2, <1>3, <1>4, <1>5, <1>6, <1>7, <1>8, <1>9, <1>10, <1>11, <1>12, <1>13, <1>14,
        <1>15, <1>16, <1>17, <1>18, <1>19, <1>20, <1>21, <1>22 DEF Next, MainStep, WorkerThread

----------------------------------------------------------------------------
(* No wakeup is lost: the jobs on the list never outnumber the workers awake *)
(* while a worker sleeps.                                                    *)

\* A larger set of workers has at least as many members.
LEMMA MoreAwake ==
  ASSUME NEW S \in SUBSET Workers, NEW T \in SUBSET Workers, S \subseteq T
  PROVE  /\ Cardinality(S) \in Nat /\ Cardinality(T) \in Nat
         /\ Cardinality(S) <= Cardinality(T)
         /\ \A w \in Workers \ S : Cardinality(S \cup {w}) = Cardinality(S) + 1
<1>1. IsFiniteSet(S) /\ IsFiniteSet(T)
  BY WorkersAssumption, FS_Subset DEF WorkersAssumption
<1> QED BY <1>1, FS_Subset, FS_CardinalityType, FS_AddElement

\* What a step does to the jobs and the workers awake preserves the property.
LEMMA AwakeStep == IInv /\ [Next]_vars => WorkConserving'
<1> SUFFICES ASSUME IInv, [Next]_vars PROVE WorkConserving'
  OBVIOUS
<1> USE DEF IInv, mainVars, workerVars
<1>0. TypeOK /\ TypeOK' /\ Awake \subseteq Workers /\ Awake' \subseteq Workers /\ Len(waiting_jobs) \in Nat
  BY TypeStep DEF Awake, Created, TypeOK
<1>1. ASSUME waiting_jobs' = waiting_jobs, Awake \subseteq Awake', Asleep' \subseteq Asleep,
             \A w \in Workers : terminate[w] => terminate'[w]
      PROVE  WorkConserving'
  BY <1>0, <1>1, MoreAwake DEF WorkConserving
<1>2. CASE waiting_jobs' = <<>>
  BY <1>0, <1>2, MoreAwake DEF WorkConserving
<1>3. CASE CreateWorker
  BY <1>0, <1>1, <1>3 DEF CreateWorker, Awake, Asleep, Created, TypeOK
<1>4. CASE ThreadPoolQueue
  <2>1. waiting_jobs \in Seq(Jobs) /\ i \in Jobs
    BY <1>4 DEF ThreadPoolQueue, TypeOK, JobInv, Jobs
  <2>2. Len(waiting_jobs') = Len(waiting_jobs) + 1 /\ terminate' = terminate
    BY <1>4, <2>1, ConsFacts DEF ThreadPoolQueue
  <2>3. CASE Asleep = {}
    BY <1>4, <2>3 DEF ThreadPoolQueue, Signal, WorkConserving, Asleep
  <2>4. CASE Asleep # {}
    <3>1. PICK w \in Asleep : wpc' = [wpc EXCEPT ![w] = "lock"]
      BY <1>4, <2>4 DEF ThreadPoolQueue, Signal
    <3>2. w \in Workers \ Awake /\ Awake' = Awake \cup {w}
      BY <1>0, <3>1 DEF Awake, Asleep, Created, TypeOK
    <3>3. Cardinality(Awake') = Cardinality(Awake) + 1 /\ Cardinality(Awake) \in Nat
      BY <1>0, <3>2, MoreAwake
    <3> QED BY <1>0, <2>2, <2>4, <3>3 DEF WorkConserving
  <2> QED BY <2>3, <2>4
<1>5. CASE MarkWorker
  <2>1. workers[cursor] \in Workers /\ terminate'[workers[cursor]]
    BY <1>0, <1>5 DEF MarkWorker, TypeOK
  <2> QED BY <2>1 DEF WorkConserving
<1>6. ASSUME NEW w \in Workers, WorkerTake(w) PROVE WorkConserving'
  <2>1. waiting_jobs # <<>> /\ waiting_jobs \in Seq(Jobs)
    BY <1>0, <1>6 DEF WorkerTake, JobInv, TypeOK
  <2>2. Len(waiting_jobs') = Len(waiting_jobs) - 1
    BY <1>6, <2>1, TailFacts DEF WorkerTake
  <2>3. Awake' = Awake /\ Asleep' = Asleep /\ terminate' = terminate
    BY <1>0, <1>6 DEF WorkerTake, Awake, Asleep, Created, TypeOK
  <2> QED BY <1>0, <2>2, <2>3, MoreAwake DEF WorkConserving
<1>7. ASSUME NEW w \in Workers, WorkerSleep(w) PROVE WorkConserving'
  BY <1>2, <1>7 DEF WorkerSleep
<1>8. CASE StopPool
  BY <1>2, <1>8 DEF StopPool
<1>9. CASE \/ CreateReturns \/ MallocJob \/ MallocJobFails \/ MainLock \/ BeginShutdown
           \/ AdvanceCursor \/ CursorCrash \/ WalkEnds \/ MainReturn \/ UNCHANGED vars
  <2>1. waiting_jobs' = waiting_jobs /\ wpc' = wpc /\ terminate' = terminate
    BY <1>9 DEF CreateReturns, MallocJob, MallocJobFails, MainLock, BeginShutdown,
                AdvanceCursor, CursorCrash, WalkEnds, MainReturn, vars
  <2> QED BY <1>1, <2>1 DEF Awake, Asleep, Created
<1>10. ASSUME NEW w \in Workers,
              \/ WorkerLock(w) \/ WorkerWoken(w) \/ WorkerLeave(w)
              \/ WorkerRun(w) \/ WorkerFree(w) \/ SpuriousWakeup(w)
       PROVE  WorkConserving'
  <2>1. waiting_jobs' = waiting_jobs /\ terminate' = terminate
    BY <1>10 DEF WorkerLock, WorkerWoken, WorkerLeave, WorkerRun, WorkerFree, SpuriousWakeup
  <2>2. Awake \subseteq Awake' /\ Asleep' \subseteq Asleep
    BY <1>0, <1>10 DEF WorkerLock, WorkerWoken, WorkerLeave, WorkerRun, WorkerFree,
                       SpuriousWakeup, Awake, Asleep, Created, TypeOK
  <2> QED BY <1>1, <2>1, <2>2
<1> QED BY <1>3, <1>4, <1>5, <1>6, <1>7, <1>8, <1>9, <1>10 DEF Next, MainStep, WorkerThread

----------------------------------------------------------------------------
\* The initial states satisfy the inductive invariant.
LEMMA InitIInv == Init => IInv
<1> SUFFICES ASSUME Init PROVE IInv
  OBVIOUS
<1> USE WorkersAssumption, OwnersAssumption, CountsAssumption DEF Init
<1>1. TypeOK
  BY DEF TypeOK, Jobs, NoJob
<1>2. LockInv /\ JobInv /\ WalkInv /\ JobOwnedOnce /\ NoSleeperAfterShutdown
  BY EmptyFacts DEF LockInv, JobInv, WalkInv, JobOwnedOnce, NoSleeperAfterShutdown, Created,
                    NoJob, IsInjective
<1>3. WorkConserving
  BY DEF WorkConserving, Asleep
<1> QED BY <1>1, <1>2, <1>3 DEF IInv

\* The inductive invariant holds of every reachable state of the pool.
THEOREM Invariant == Spec => []IInv
<1>1. IInv /\ [Next]_vars => IInv'
  BY TypeStep, LockStep, JobStep, WalkStep, OwnedStep, AsleepStep, AwakeStep DEF IInv
<1> QED BY InitIInv, <1>1, PTL DEF Spec

\* Every variable of the thread pool keeps its type.
THEOREM TypeCorrect == Spec => []TypeOK
<1>1. IInv => TypeOK BY DEF IInv
<1> QED BY <1>1, Invariant, PTL

\* No job is run or freed twice, whatever the number of workers and jobs and
\* however their critical sections interleave.
THEOREM OwnedOnce == Spec => []JobOwnedOnce
<1>1. IInv => JobOwnedOnce BY DEF IInv
<1> QED BY <1>1, Invariant, PTL

\* No wakeup is lost before shutdown: while a worker sleeps on jobs_cond, at
\* least as many workers are awake as there are jobs on the list.
THEOREM NoLostWakeup == Spec => []WorkConserving
<1>1. IInv => WorkConserving BY DEF IInv
<1> QED BY <1>1, Invariant, PTL

\* WorkerThread's test for a null job after the terminate test never fires.
THEOREM NoNullJob == Spec => []TakeFindsJob
<1>1. IInv => TakeFindsJob BY DEF IInv, JobInv, TakeFindsJob
<1> QED BY <1>1, Invariant, PTL

\* ThreadPoolShutdown's unlocked store never hits a freed worker.
THEOREM StoreSafe == Spec => []StoreHitsLiveWorker
<1>1. IInv => StoreHitsLiveWorker
  <2> SUFFICES ASSUME IInv, mpc = "walk", cursor <= Len(workers) PROVE wpc[workers[cursor]] # "gone"
    BY DEF StoreHitsLiveWorker
  <2>1. cursor \in DOMAIN workers /\ workers[cursor] \in Workers
    BY DEF IInv, TypeOK
  <2>2. ~terminate[workers[cursor]]
    BY <2>1 DEF IInv, WalkInv, TypeOK
  <2> QED BY <2>1, <2>2 DEF IInv, WalkInv
<1> QED BY <1>1, Invariant, PTL

\* After ThreadPoolShutdown returns no worker sleeps on jobs_cond.
THEOREM NobodyLeftAsleep == Spec => []NoSleeperAfterShutdown
<1>1. IInv => NoSleeperAfterShutdown BY DEF IInv
<1> QED BY <1>1, Invariant, PTL

----------------------------------------------------------------------------
(***************************************************************************)
(* The thread pool implements JobPool: every step of a thread is one of    *)
(* the job pool's operations or changes nothing the job pool shows.        *)
(***************************************************************************)

\* What jobStatus says of a job, by where the job is.
LEMMA StatusOf ==
  ASSUME IInv, NEW j \in Jobs
  PROVE  /\ jobStatus[j] \in {"new", "waiting", "running", "done", "dropped"}
         /\ jobStatus[j] = "done" <=> j \in finished
         /\ jobStatus[j] = "running" <=> \E w \in Workers : job[w] = j
         /\ jobStatus[j] = "waiting" <=> j \in Range(waiting_jobs)
         /\ jobStatus[j] = "new" <=> ~(j < i)
<1>1. /\ j \in finished => j < i /\ j \notin Range(waiting_jobs) /\ \A w \in Workers : job[w] # j
      /\ j \in Range(waiting_jobs) => j < i /\ \A w \in Workers : job[w] # j
      /\ (\E w \in Workers : job[w] = j) => j < i
  BY DEF IInv, JobInv, JobOwnedOnce, NoJob, Jobs
<1> QED BY <1>1 DEF jobStatus

\* Steps that move no job, and do not return from ThreadPoolShutdown, are
\* invisible to the job pool.
LEMMA Stutter ==
  ASSUME finished' = finished, job' = job, waiting_jobs' = waiting_jobs, i' = i,
         (mpc' = "return") <=> (mpc = "return")
  PROVE  UNCHANGED <<jobStatus, mpc = "return">>
  BY DEF jobStatus

\* Fewer workers than there are run a job while one of them has none.
LEMMA SpareWorker ==
  ASSUME IInv, NEW w \in Workers, job[w] = NoJob
  PROVE  Cardinality({j \in Jobs : jobStatus[j] = "running"}) < Cardinality(Workers)
<1> DEFINE busy == {v \in Workers : job[v] # NoJob}
           running == {j \in Jobs : jobStatus[j] = "running"}
           held == [v \in busy |-> job[v]]
<1>1. IsFiniteSet(Workers) /\ busy \subseteq Workers \ {w}
  BY WorkersAssumption DEF WorkersAssumption
<1>2. /\ IsFiniteSet(busy) /\ Cardinality(busy) <= Cardinality(Workers \ {w})
      /\ Cardinality(Workers \ {w}) = Cardinality(Workers) - 1
      /\ Cardinality(Workers) \in Nat /\ Cardinality(busy) \in Nat
  <2>1. IsFiniteSet(Workers \ {w}) /\ Cardinality(Workers \ {w}) = Cardinality(Workers) - 1
    BY <1>1, FS_RemoveElement
  <2> QED BY <1>1, <2>1, FS_Subset, FS_CardinalityType
<1>3. held \in Surjection(busy, running)
  <2>1. \A v \in busy : job[v] \in Jobs /\ jobStatus[job[v]] = "running"
    BY StatusOf DEF IInv, TypeOK
  <2>2. \A j \in running : \E v \in busy : job[v] = j
    <3> SUFFICES ASSUME NEW j \in running PROVE \E v \in busy : job[v] = j
      OBVIOUS
    <3>1. \E v \in Workers : job[v] = j
      BY StatusOf
    <3>2. j # NoJob
      BY CountsAssumption DEF Jobs, NoJob
    <3> QED BY <3>1, <3>2
  <2> QED BY <2>1, <2>2 DEF Surjection
<1>4. Cardinality(running) <= Cardinality(busy) /\ IsFiniteSet(running)
  BY <1>2, <1>3, FS_Surjection
<1>5. Cardinality(running) \in Nat
  BY <1>4, FS_CardinalityType
<1> QED BY <1>2, <1>4, <1>5

\* Every step of the threads is a step of the job pool or a stutter.
LEMMA StepRefines == IInv /\ IInv' /\ [Next]_vars => [Pool!Next]_(Pool!jpVars)
<1> SUFFICES ASSUME IInv, IInv', [Next]_vars PROVE [Pool!Next]_(Pool!jpVars)
  OBVIOUS
<1> USE DEF Pool!Jobs, Pool!jpVars, Pool!With
<1>1. Pool!Jobs = Jobs
  BY DEF Jobs
<1>2. UNCHANGED <<jobStatus, mpc = "return">> => [Pool!Next]_(Pool!jpVars)
  OBVIOUS
<1>3. CASE ThreadPoolQueue
  <2>1. i \in Jobs /\ waiting_jobs \in Seq(Jobs)
    BY <1>3 DEF ThreadPoolQueue, IInv, TypeOK, JobInv, Jobs
  <2>2. Range(waiting_jobs') = {i} \cup Range(waiting_jobs)
    BY <1>3, <2>1, ConsFacts DEF ThreadPoolQueue
  <2>3. /\ i' = i + 1 /\ finished' = finished /\ job' = job
        /\ mpc # "return" /\ mpc' # "return"
    BY <1>3 DEF ThreadPoolQueue
  <2>4. jobStatus[i] = "new" /\ \A k \in 1..(i - 1) : jobStatus[k] # "new"
    <3>1. ~(i < i) /\ \A k \in 1..(i - 1) : k \in Jobs /\ k < i
      <4>1. i \in 1..NumJobs /\ NumJobs \in Nat
        BY <2>1, CountsAssumption DEF Jobs
      <4> QED BY ONLY <4>1 DEF Jobs
    <3> QED BY <2>1, <3>1, StatusOf
  <2>5. jobStatus' = [jobStatus EXCEPT ![i] = "waiting"]
    <3>1. i \notin finished /\ i \notin Range(waiting_jobs) /\ \A w \in Workers : job[w] # i
      BY <2>1, <2>4, StatusOf
    <3>2. \A j \in Jobs : j # i => (j < i + 1 <=> j < i)
      BY <2>1 DEF Jobs
    <3> QED BY <2>1, <2>2, <2>3, <3>1, <3>2 DEF jobStatus
  <2>6. Pool!Submit(i)
    BY <1>1, <2>3, <2>4, <2>5 DEF Pool!Submit
  <2> QED BY <1>1, <2>1, <2>6 DEF Pool!Next
<1>4. ASSUME NEW w \in Workers, WorkerTake(w) PROVE [Pool!Next]_(Pool!jpVars)
  <2> DEFINE h == Head(waiting_jobs)
  <2>1. waiting_jobs # <<>> /\ waiting_jobs \in Seq(Jobs) /\ job[w] = NoJob
    BY <1>4 DEF WorkerTake, IInv, TypeOK, JobInv
  <2>2. /\ h \in Jobs /\ h \in Range(waiting_jobs) /\ h = waiting_jobs[1]
        /\ h \notin Range(waiting_jobs')
        /\ Range(waiting_jobs) = {h} \cup Range(waiting_jobs')
    <3>1. waiting_jobs' = Tail(waiting_jobs)
      BY <1>4, <2>1 DEF WorkerTake
    <3>2. IsInjective(waiting_jobs)
      BY DEF IInv, JobOwnedOnce
    <3>3. Range(waiting_jobs) \subseteq {h} \cup Range(waiting_jobs')
      <4> SUFFICES ASSUME NEW k \in DOMAIN waiting_jobs PROVE waiting_jobs[k] \in {h} \cup Range(waiting_jobs')
        BY DEF Range
      <4>1. /\ k \in 1..Len(waiting_jobs) /\ h = waiting_jobs[1]
            /\ DOMAIN waiting_jobs' = 1..(Len(waiting_jobs) - 1)
            /\ \A n \in 1..(Len(waiting_jobs) - 1) : waiting_jobs'[n] = waiting_jobs[n + 1]
        BY <2>1, <3>1, TailFacts
      <4>2. k = 1 \/ (k - 1 \in DOMAIN waiting_jobs' /\ waiting_jobs'[k - 1] = waiting_jobs[k])
        BY <4>1
      <4> QED BY <4>1, <4>2 DEF Range
    <3> QED BY <2>1, <3>1, <3>2, <3>3, TailFacts, TailInjective
  <2>3. /\ job' = [job EXCEPT ![w] = h] /\ finished' = finished /\ i' = i /\ mpc' = mpc
    BY <1>4, <2>1 DEF WorkerTake, mainVars
  <2>4. jobStatus[h] = "waiting"
    BY <2>2, StatusOf
  <2>5. \A k \in {j \in Jobs : jobStatus[j] = "waiting"} : k <= h
    <3> SUFFICES ASSUME NEW k \in Jobs, k \in Range(waiting_jobs) PROVE k <= h
      BY StatusOf
    <3>1. PICK n \in DOMAIN waiting_jobs : k = waiting_jobs[n]
      BY DEF Range
    <3>2. n = 1 \/ (1 \in DOMAIN waiting_jobs /\ 1 < n)
      BY <2>1
    <3>3. 1 < n => waiting_jobs[n] < waiting_jobs[1]
      BY <3>2 DEF IInv, JobInv
    <3>4. h \in Nat /\ k \in Nat
      BY <2>2 DEF Jobs
    <3> QED BY <2>2, <3>1, <3>2, <3>3, <3>4
  <2>6. jobStatus' = [jobStatus EXCEPT ![h] = "running"]
    <3>1. h \notin finished /\ \A v \in Workers : job[v] # h
      BY <2>2, <2>4, StatusOf
    <3>2. job \in [Workers -> Jobs \cup {NoJob}] /\ NoJob \notin Jobs
      BY CountsAssumption DEF IInv, TypeOK, Jobs, NoJob
    <3>3. \A j \in Jobs \ {h} : (\E v \in Workers : job'[v] = j) <=> (\E v \in Workers : job[v] = j)
      BY <2>1, <2>3, <3>2
    <3>4. job'[w] = h
      BY <2>3, <3>2
    <3>5. jobStatus'[h] = "running"
      BY <2>2, <2>3, <3>1, <3>4 DEF jobStatus
    <3>6. ASSUME NEW j \in Jobs \ {h} PROVE jobStatus'[j] = jobStatus[j]
      <4>1. j \in Range(waiting_jobs) <=> j \in Range(waiting_jobs')
        BY <2>2
      <4> HIDE DEF h
      <4> QED BY <2>3, <3>3, <4>1 DEF jobStatus
    <3> HIDE DEF h
    <3>7. /\ jobStatus = [j \in Jobs |-> jobStatus[j]]
          /\ jobStatus' = [j \in Jobs |-> jobStatus'[j]]
      BY DEF jobStatus
    <3>8. h \in Jobs
      BY <2>2
    <3> HIDE DEF jobStatus
    <3> QED BY <3>5, <3>6, <3>7, <3>8
  <2>7. Cardinality({j \in Jobs : jobStatus[j] = "running"}) < Cardinality(Workers)
    BY <2>1, SpareWorker
  <2>8. Pool!Start(h)
    <3>1. Pool!Cardinality(Pool!With("running")) = Cardinality({j \in Jobs : jobStatus[j] = "running"})
      BY <1>1, Zenon DEF Pool!Cardinality, Cardinality
    <3> HIDE DEF h
    <3> QED BY <1>1, <2>3, <2>4, <2>5, <2>6, <2>7, <3>1 DEF Pool!Start
  <2> QED BY <1>1, <2>2, <2>8 DEF Pool!Next
<1>5. ASSUME NEW w \in Workers, WorkerRun(w) PROVE [Pool!Next]_(Pool!jpVars)
  <2> DEFINE h == job[w]
  <2>1. h \in Jobs /\ h # NoJob
    BY <1>5 DEF WorkerRun, IInv, TypeOK, JobInv
  <2>2. /\ finished' = finished \cup {h} /\ job' = [job EXCEPT ![w] = NoJob]
        /\ waiting_jobs' = waiting_jobs /\ i' = i /\ mpc' = mpc
    BY <1>5, <2>1 DEF WorkerRun, mainVars
  <2>3. jobStatus[h] = "running"
    BY <2>1, StatusOf
  <2>4. jobStatus' = [jobStatus EXCEPT ![h] = "done"]
    <3>1. job \in [Workers -> Jobs \cup {NoJob}] /\ NoJob \notin Jobs
      BY CountsAssumption DEF IInv, TypeOK, Jobs, NoJob
    <3>2. \A j \in Jobs \ {h} : (\E v \in Workers : job'[v] = j) <=> (\E v \in Workers : job[v] = j)
      BY <2>1, <2>2, <3>1
    <3> QED BY <2>1, <2>2, <3>2 DEF jobStatus
  <2>5. Pool!Finish(h)
    BY <1>1, <2>2, <2>3, <2>4 DEF Pool!Finish
  <2> QED BY <1>1, <2>1, <2>5 DEF Pool!Next
<1>6. CASE StopPool
  <2>1. /\ finished' = finished /\ job' = job /\ i' = i
        /\ mpc # "return" /\ mpc' = "return" /\ Range(waiting_jobs') = {}
    BY <1>6, EmptyFacts DEF StopPool
  <2>2. \A j \in Jobs : jobStatus'[j] = IF jobStatus[j] = "waiting" THEN "dropped" ELSE jobStatus[j]
    <3> SUFFICES ASSUME NEW j \in Jobs
                 PROVE  jobStatus'[j] = IF jobStatus[j] = "waiting" THEN "dropped" ELSE jobStatus[j]
      OBVIOUS
    <3>1. j \in Range(waiting_jobs) => j < i /\ j \notin finished /\ ~ \E w \in Workers : job[w] = j
      BY StatusOf
    <3> QED BY <2>1, <3>1 DEF jobStatus
  <2>3. Pool!Close
    BY <1>1, <2>1, <2>2 DEF Pool!Close, jobStatus
  <2> QED BY <2>3 DEF Pool!Next
<1>7. CASE \/ CreateWorker \/ CreateReturns \/ MallocJob \/ MallocJobFails \/ MainLock
           \/ BeginShutdown \/ MarkWorker \/ AdvanceCursor \/ CursorCrash \/ WalkEnds
           \/ MainReturn \/ UNCHANGED vars
  BY <1>2, <1>7, Stutter
     DEF CreateWorker, CreateReturns, MallocJob, MallocJobFails, MainLock, BeginShutdown,
         MarkWorker, AdvanceCursor, CursorCrash, WalkEnds, MainReturn, vars, mainVars, workerVars
<1>8. ASSUME NEW w \in Workers,
             \/ WorkerLock(w) \/ WorkerSleep(w) \/ WorkerWoken(w)
             \/ WorkerLeave(w) \/ WorkerFree(w) \/ SpuriousWakeup(w)
      PROVE  [Pool!Next]_(Pool!jpVars)
  BY <1>2, <1>8, Stutter
     DEF WorkerLock, WorkerSleep, WorkerWoken, WorkerLeave, WorkerFree, SpuriousWakeup, mainVars
<1> QED BY <1>3, <1>4, <1>5, <1>6, <1>7, <1>8 DEF Next, MainStep, WorkerThread

\* threadpool.c implements the job pool: a submitted job runs at most once, on
\* at most one of the workers, newest first, and never starts after shutdown.
THEOREM Refinement == Spec => ImplementsJobPool
<1>1. Init => Pool!Init
  BY EmptyFacts DEF Init, Pool!Init, jobStatus, Pool!Jobs, Jobs, NoJob
<1>2. IInv /\ IInv' /\ [Next]_vars => [Pool!Next]_(Pool!jpVars)
  BY StepRefines
<1> QED BY <1>1, <1>2, Invariant, PTL DEF Spec, Pool!Spec, ImplementsJobPool

----------------------------------------------------------------------------
(* Singletons: any number of threads call instance() of a variant. *)

\* Any inputs, and any steps of the program.
SingletonSpec == SingletonInit(1..6) /\ [][SingletonNext]_singletonVars

\* Where a thread holds the mutex; where an object is allocated but not constructed;
\* where it is not yet published.
Locked == {"look", "allocate", "construct", "publish", "publish_early", "construct_late", "unlock"}
Unconstructed == {"construct", "publish_early", "construct_late"}
Unpublished == {"construct", "publish", "publish_early"}

SingletonType ==
  /\ variant \in 1..6
  /\ caller \in [Callers -> Locked \cup {"check", "lock", "return", "done"}]
  /\ tmp \in [Callers -> Nat] /\ instance \in Nat
  /\ mutex \in Callers \cup {0} /\ constructed \in SUBSET Nat /\ objects \in Nat /\ deleted \in SUBSET Nat

\* The mutex keeps threads out of the section that makes the object.
Exclusion == \A t \in Callers : caller[t] \in Locked <=> mutex = t

HolderIn(places) == mutex # 0 /\ caller[mutex] \in places
AllDone == \A t \in Callers : caller[t] = "done"

\* There is one object at most, and who is to allocate it is the first.
OnlyObject ==
  /\ objects \in {0, 1} /\ instance \in {0, 1} /\ (instance = 1 => objects = 1)
  /\ objects = 1 /\ instance = 0 => HolderIn(Unpublished) \/ AllDone
  /\ \A t \in Callers :
       /\ caller[t] = "allocate" => objects = 0
       /\ caller[t] \in Unpublished \cup {"construct_late"} => objects = 1 /\ tmp[t] = 1
       /\ caller[t] \in Unpublished => instance = 0
       /\ caller[t] \in {"construct_late", "unlock", "return"} => instance = 1
       /\ variant = 4 /\ caller[t] \in {"unlock", "return"} => tmp[t] = 1
       /\ caller[t] = "done" => objects = 1 /\ tmp[t] = 1

\* Its constructor has run but while the thread that makes it is about to run it.
Construction ==
  /\ constructed = IF objects = 0 \/ HolderIn(Unconstructed) THEN {} ELSE {1}
  /\ \A t \in Callers :
       /\ caller[t] \in {"publish_early", "construct_late"} => variant \in 1..3
       /\ variant # 3 /\ caller[t] \in {"return", "done"} => 1 \in constructed

SingletonInv == SingletonType /\ (variant # 1 => Exclusion /\ OnlyObject /\ Construction)

\* Before the first call there is no object and nobody in the section.
LEMMA SingletonStarts == SingletonInit(1..6) => SingletonInv
<1> SUFFICES ASSUME SingletonInit(1..6) PROVE SingletonInv
  OBVIOUS
<1> USE DEF SingletonInit
<1>1. SingletonType
  BY DEF SingletonType, Locked
<1>2. Exclusion
  BY SingletonAssumption DEF Exclusion, Locked
<1>3. OnlyObject
  BY DEF OnlyObject, HolderIn, AllDone, Unpublished
<1>4. Construction
  BY DEF Construction, HolderIn, Unconstructed
<1>5. QED
  BY <1>1, <1>2, <1>3, <1>4 DEF SingletonInv

\* The variables keep their types, and a behaviour its variant.
LEMMA SingletonTypeStep == SingletonType /\ [SingletonNext]_singletonVars => SingletonType' /\ variant' = variant
<1> SUFFICES ASSUME SingletonType, [SingletonNext]_singletonVars PROVE SingletonType' /\ variant' = variant
  OBVIOUS
<1> USE DEF SingletonType, Locked
<1>1. CASE CollectGarbage
  BY <1>1 DEF CollectGarbage
<1>2. ASSUME NEW t \in Callers, Check(t) PROVE SingletonType' /\ variant' = variant
  BY <1>2 DEF Check
<1>3. ASSUME NEW t \in Callers, Lock(t) PROVE SingletonType' /\ variant' = variant
  BY <1>3 DEF Go, AfterLock, Lock
<1>4. ASSUME NEW t \in Callers, Look(t) PROVE SingletonType' /\ variant' = variant
  BY <1>4 DEF Go, Look
<1>5. ASSUME NEW t \in Callers, Allocate(t) PROVE SingletonType' /\ variant' = variant
  <2> USE <1>5 DEF Allocate
  <2>1. tmp' \in [Callers -> Nat] /\ objects' \in Nat
    BY DEF Go
  <2>2. caller' \in [Callers -> Locked \cup {"check", "lock", "return", "done"}]
    BY DEF Go
  <2>3. QED
    BY <2>1, <2>2
<1>6. ASSUME NEW t \in Callers, Construct(t) PROVE SingletonType' /\ variant' = variant
  BY <1>6 DEF Go, Done, Construct
<1>7. ASSUME NEW t \in Callers, Publish(t) PROVE SingletonType' /\ variant' = variant
  BY <1>7 DEF Go, Done, Publish
<1>8. ASSUME NEW t \in Callers, Unlock(t) PROVE SingletonType' /\ variant' = variant
  BY <1>8 DEF Go, Unlock
<1>9. ASSUME NEW t \in Callers, ReturnObject(t) PROVE SingletonType' /\ variant' = variant
  BY <1>9 DEF Go, ReturnObject
<1>10. CASE UNCHANGED singletonVars
  BY <1>10 DEF singletonVars
<1>11. QED
  BY <1>1, <1>2, <1>3, <1>4, <1>5, <1>6, <1>7, <1>8, <1>9, <1>10 DEF SingletonNext

\* Every step of a caller keeps the invariant.
LEMMA SingletonStep == SingletonInv /\ [SingletonNext]_singletonVars => SingletonInv'
<1> SUFFICES ASSUME SingletonInv, [SingletonNext]_singletonVars PROVE SingletonInv'
  OBVIOUS
<1>1. SingletonType /\ SingletonType' /\ variant' = variant
  BY SingletonTypeStep DEF SingletonInv
<1>2. SUFFICES ASSUME variant # 1, Exclusion, OnlyObject, Construction PROVE (Exclusion /\ OnlyObject /\ Construction)'
  BY <1>1 DEF SingletonInv
<1> USE SingletonAssumption, <1>1, <1>2 DEF SingletonType
<1>3. CASE CollectGarbage
  <2> USE <1>3 DEF CollectGarbage
  <2>1. Exclusion'
    BY DEF Exclusion
  <2>2. OnlyObject'
    BY DEF OnlyObject, AllDone, HolderIn
  <2>3. Construction'
    BY DEF Construction, HolderIn
  <2>4. QED
    BY <2>1, <2>2, <2>3
<1>4. ASSUME NEW t \in Callers, Check(t) PROVE (Exclusion /\ OnlyObject /\ Construction)'
  <2> USE <1>4 DEF Check
  <2>1. Exclusion'
    BY DEF Exclusion, Locked
  <2>2. OnlyObject'
    BY DEF Exclusion, OnlyObject, AllDone, HolderIn, Locked, Unpublished
  <2>3. Construction'
    BY DEF Exclusion, OnlyObject, Construction, HolderIn, Locked, Unpublished, Unconstructed
  <2>4. QED
    BY <2>1, <2>2, <2>3
<1>5. ASSUME NEW t \in Callers, Lock(t) PROVE (Exclusion /\ OnlyObject /\ Construction)'
  <2> USE <1>5 DEF Go, AfterLock, Lock
  <2>1. Exclusion'
    BY DEF Exclusion, Locked
  <2>2. OnlyObject'
    BY DEF Exclusion, OnlyObject, AllDone, HolderIn, Locked, Unpublished
  <2>3. Construction'
    BY DEF Exclusion, OnlyObject, Construction, HolderIn, Locked, Unpublished, Unconstructed
  <2>4. QED
    BY <2>1, <2>2, <2>3
<1>6. ASSUME NEW t \in Callers, Look(t) PROVE (Exclusion /\ OnlyObject /\ Construction)'
  <2> USE <1>6 DEF Go, Look
  <2>1. mutex = t /\ t # 0 /\ \A u \in Callers : u # t => caller[u] \notin Locked /\ caller'[u] = caller[u] /\ tmp'[u] = tmp[u]
    BY DEF Exclusion, Locked
  <2>2. Exclusion'
    BY <2>1 DEF Exclusion, Locked
  <2>3. OnlyObject'
    BY <2>1, <2>2 DEF OnlyObject, AllDone, HolderIn, Locked, Unpublished
  <2>4. Construction'
    BY <2>1, <2>2, <2>3 DEF OnlyObject, Construction, HolderIn, Locked, Unpublished, Unconstructed
  <2>5. QED
    BY <2>2, <2>3, <2>4
<1>7. ASSUME NEW t \in Callers, Allocate(t) PROVE (Exclusion /\ OnlyObject /\ Construction)'
  <2> USE <1>7 DEF Go, Allocate
  <2>1. mutex = t /\ t # 0 /\ \A u \in Callers : u # t => caller[u] \notin Locked /\ caller'[u] = caller[u] /\ tmp'[u] = tmp[u]
    BY DEF Exclusion, Locked
  <2>2. Exclusion'
    BY <2>1 DEF Exclusion, Locked
  <2>3. OnlyObject'
    BY <2>1, <2>2 DEF OnlyObject, AllDone, HolderIn, Locked, Unpublished
  <2>4. Construction'
    BY <2>1, <2>2, <2>3 DEF OnlyObject, Construction, HolderIn, Locked, Unpublished, Unconstructed
  <2>5. QED
    BY <2>2, <2>3, <2>4
<1>8. ASSUME NEW t \in Callers, Construct(t) PROVE (Exclusion /\ OnlyObject /\ Construction)'
  <2> USE <1>8 DEF Go, Done, Construct
  <2>1. mutex = t /\ t # 0 /\ \A u \in Callers : u # t => caller[u] \notin Locked /\ caller'[u] = caller[u] /\ tmp'[u] = tmp[u]
    BY DEF Exclusion, Locked
  <2>2. Exclusion'
    BY <2>1 DEF Exclusion, Locked
  <2>3. OnlyObject'
    BY <2>1, <2>2 DEF OnlyObject, AllDone, HolderIn, Locked, Unpublished
  <2>4. Construction'
    BY <2>1, <2>2, <2>3 DEF OnlyObject, Construction, HolderIn, Locked, Unpublished, Unconstructed
  <2>5. QED
    BY <2>2, <2>3, <2>4
<1>9. ASSUME NEW t \in Callers, Publish(t) PROVE (Exclusion /\ OnlyObject /\ Construction)'
  <2> USE <1>9 DEF Go, Done, Publish
  <2>1. mutex = t /\ t # 0 /\ \A u \in Callers : u # t => caller[u] \notin Locked /\ caller'[u] = caller[u] /\ tmp'[u] = tmp[u]
    BY DEF Exclusion, Locked
  <2>2. Exclusion'
    BY <2>1 DEF Exclusion, Locked
  <2>3. OnlyObject'
    BY <2>1, <2>2 DEF OnlyObject, AllDone, HolderIn, Locked, Unpublished
  <2>4. Construction'
    BY <2>1, <2>2, <2>3 DEF OnlyObject, Construction, HolderIn, Locked, Unpublished, Unconstructed
  <2>5. QED
    BY <2>2, <2>3, <2>4
<1>10. ASSUME NEW t \in Callers, Unlock(t) PROVE (Exclusion /\ OnlyObject /\ Construction)'
  <2> USE <1>10 DEF Go, Unlock
  <2>1. mutex = t /\ t # 0 /\ \A u \in Callers : u # t => caller[u] \notin Locked /\ caller'[u] = caller[u] /\ tmp'[u] = tmp[u]
    BY DEF Exclusion, Locked
  <2>2. Exclusion'
    BY <2>1 DEF Exclusion, Locked
  <2>3. OnlyObject'
    BY <2>1, <2>2 DEF OnlyObject, AllDone, HolderIn, Locked, Unpublished
  <2>4. Construction'
    BY <2>1, <2>2, <2>3 DEF OnlyObject, Construction, HolderIn, Locked, Unpublished, Unconstructed
  <2>5. QED
    BY <2>2, <2>3, <2>4
<1>11. ASSUME NEW t \in Callers, ReturnObject(t) PROVE (Exclusion /\ OnlyObject /\ Construction)'
  <2> USE <1>11 DEF Go, ReturnObject
  <2>1. Exclusion'
    BY DEF Exclusion, Locked
  <2>2. OnlyObject'
    BY DEF Exclusion, OnlyObject, AllDone, HolderIn, Locked, Unpublished
  <2>3. Construction'
    BY DEF Exclusion, OnlyObject, Construction, HolderIn, Locked, Unpublished, Unconstructed
  <2>4. QED
    BY <2>1, <2>2, <2>3
<1>12. CASE UNCHANGED singletonVars
  BY <1>12 DEF singletonVars, Exclusion, OnlyObject, Construction, HolderIn, AllDone
<1>13. QED
  BY <1>3, <1>4, <1>5, <1>6, <1>7, <1>8, <1>9, <1>10, <1>11, <1>12 DEF SingletonNext

\* The theorem of this section: for any callers, all get the one object, of every variant but the
\* first, and it is constructed, of every variant but the first and the third (singleton.cpp).
THEOREM SingletonsShareOne == SingletonSpec => []OneInstance
<1>1. ASSUME SingletonInv PROVE OneInstance
  <2> USE SingletonAssumption, <1>1 DEF SingletonInv, SingletonType
  <2>1. OneObject
    <3>1. 1..0 = {} /\ 1..1 = {1}
      OBVIOUS
    <3>2. ASSUME variant # 1 PROVE objects <= 1 /\ \A t \in Finished : tmp[t] = 1
      BY <3>2 DEF Finished, OnlyObject
    <3>3. ASSUME variant # 1, mutex = 0 PROVE constructed = 1..objects
      BY <3>1, <3>3 DEF OnlyObject, Construction, HolderIn
    <3>4. QED
      BY <3>2, <3>3 DEF OneObject
  <2>2. ReturnedIsConstructed
    BY DEF ReturnedIsConstructed, Finished, OnlyObject, Construction
  <2>3. QED
    BY <2>1, <2>2 DEF OneInstance
<1>2. QED
  BY <1>1, SingletonStarts, SingletonStep, PTL DEF SingletonSpec
=============================================================================
