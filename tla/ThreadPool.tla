----------------------------- MODULE ThreadPool -----------------------------
(***************************************************************************)
(* code/threadpool/threadpool.c: worker threads that share a list of       *)
(* waiting jobs under one mutex and one condition variable, and the main   *)
(* thread that creates them, queues jobs, shuts the pool down and returns  *)
(* (which ends the process, whatever the workers are doing).               *)
(***************************************************************************)
EXTENDS Integers, Sequences, FiniteSets, Functions

CONSTANTS Workers,     \* the Worker blocks ThreadPoolCreate may allocate
          NumJobs,     \* jobs main queues, numbered 1..NumJobs
          MaxSpurious, \* bound on wakeups of pthread_cond_wait without a signal
          Main,        \* the main thread, as owner of the mutex
          Nobody       \* the mutex is free

\* numWorkers < 1 is replaced by 1 (lines 111-112).
ASSUME WorkersAssumption == IsFiniteSet(Workers) /\ Workers # {}
ASSUME OwnersAssumption == Main \notin Workers /\ Nobody \notin Workers /\ Main # Nobody
ASSUME CountsAssumption == NumJobs \in Nat /\ MaxSpurious \in Nat

Jobs == 1..NumJobs
NoJob == 0  \* a null Job pointer

VARIABLES
  proc,         \* "up", or "down" once the process has ended or crashed
  mpc,          \* where main is
  i,            \* main's loop counter: the next job to queue
  cursor,       \* ThreadPoolShutdown's cursor, an index into workers
  workers,      \* workqueue->workers, newest first
  waiting_jobs, \* workqueue->waiting_jobs, newest first
  jobs_mtx,     \* owner of workqueue->jobs_mtx
  wpc,          \* where each worker is; "asleep" is waiting on jobs_cond
  terminate,    \* worker->terminate
  job,          \* the job in each worker's hand
  finished,     \* jobs that ran and were freed by their job_function
  spurious      \* wakeups without a signal so far

mainVars == <<mpc, i, cursor>>
workerVars == <<wpc, terminate, job>>
vars == <<proc, mainVars, workers, waiting_jobs, jobs_mtx, workerVars, finished, spurious>>

Created == {w \in Workers : wpc[w] # "none"}
Asleep == {w \in Workers : wpc[w] = "asleep"}
Awake == Created \ Asleep

Init ==
  /\ proc = "up"
  /\ mpc = "create" /\ i = 1 /\ cursor = 1
  /\ workers = <<>> /\ waiting_jobs = <<>>
  /\ jobs_mtx = Nobody
  /\ wpc = [w \in Workers |-> "none"]
  /\ terminate = [w \in Workers |-> FALSE]
  /\ job = [w \in Workers |-> NoJob]
  /\ finished = {}
  /\ spurious = 0

----------------------------------------------------------------------------
(* The main thread. *)

\* One turn of ThreadPoolCreate's loop; the thread runs at once.
CreateWorker ==
  /\ mpc = "create"
  /\ \E w \in Workers \ Created :
       /\ wpc' = [wpc EXCEPT ![w] = "lock"]
       /\ workers' = <<w>> \o workers
  /\ UNCHANGED <<proc, mainVars, waiting_jobs, jobs_mtx, terminate, job, finished, spurious>>

\* The loop is over, or malloc or pthread_create failed: main ignores which,
\* and goes on with the workers it has, if any.
CreateReturns ==
  /\ mpc = "create"
  /\ mpc' = "queue"
  /\ UNCHANGED <<proc, i, cursor, workers, waiting_jobs, jobs_mtx, workerVars, finished, spurious>>

\* A job is allocated and ThreadPoolQueue is called with it.
MallocJob ==
  /\ mpc = "queue" /\ i <= NumJobs
  /\ mpc' = "lockqueue"
  /\ UNCHANGED <<proc, i, cursor, workers, waiting_jobs, jobs_mtx, workerVars, finished, spurious>>

\* exit(1) without a job; a null user_data crashes the process instead.
MallocJobFails ==
  /\ mpc = "queue" /\ i <= NumJobs
  /\ proc' = "down"
  /\ UNCHANGED <<mainVars, workers, waiting_jobs, jobs_mtx, workerVars, finished, spurious>>

\* ThreadPoolQueue and ThreadPoolShutdown lock jobs_mtx.
MainLock ==
  /\ mpc \in {"lockqueue", "lockstop"}
  /\ jobs_mtx = Nobody
  /\ jobs_mtx' = Main
  /\ mpc' = IF mpc = "lockqueue" THEN "add" ELSE "stop"
  /\ UNCHANGED <<proc, i, cursor, workers, waiting_jobs, workerVars, finished, spurious>>

\* Mutant of Signal: nobody is woken.
SignalNobody == UNCHANGED wpc

\* pthread_cond_signal: one of the sleeping workers, if there is one, must
\* take the mutex again.
Signal ==
  IF Asleep = {} THEN UNCHANGED wpc
  ELSE \E w \in Asleep : wpc' = [wpc EXCEPT ![w] = "lock"]

\* Mutant of ThreadPoolQueue: the job is added at the tail.
ThreadPoolQueueAtTail ==
  /\ mpc = "add"
  /\ waiting_jobs' = Append(waiting_jobs, i)
  /\ Signal
  /\ jobs_mtx' = Nobody
  /\ mpc' = "queue" /\ i' = i + 1
  /\ UNCHANGED <<proc, cursor, workers, terminate, job, finished, spurious>>

\* ThreadPoolQueue with the mutex held: add, signal, unlock; main's loop goes on.
ThreadPoolQueue ==
  /\ mpc = "add"
  /\ waiting_jobs' = <<i>> \o waiting_jobs
  /\ Signal
  /\ jobs_mtx' = Nobody
  /\ mpc' = "queue" /\ i' = i + 1
  /\ UNCHANGED <<proc, cursor, workers, terminate, job, finished, spurious>>

\* All jobs are queued: ThreadPoolShutdown starts its walk at the list's head.
BeginShutdown ==
  /\ mpc = "queue" /\ i > NumJobs
  /\ mpc' = "walk" /\ cursor' = 1
  /\ UNCHANGED <<proc, i, workers, waiting_jobs, jobs_mtx, workerVars, finished, spurious>>

\* worker->terminate = 1, with no lock held.
MarkWorker ==
  /\ mpc = "walk" /\ cursor <= Len(workers)
  /\ terminate' = [terminate EXCEPT ![workers[cursor]] = TRUE]
  /\ mpc' = "advance"
  /\ UNCHANGED <<proc, i, cursor, workers, waiting_jobs, jobs_mtx, wpc, job, finished, spurious>>

\* worker = worker->next. A freed block still holds its old next until the
\* allocator reuses it.
AdvanceCursor ==
  /\ mpc = "advance"
  /\ cursor' = cursor + 1 /\ mpc' = "walk"
  /\ UNCHANGED <<proc, i, workers, waiting_jobs, jobs_mtx, workerVars, finished, spurious>>

\* The marked worker has already freed itself and its block was reused: the
\* next pointer read from it is garbage.
CursorCrash ==
  /\ mpc = "advance"
  /\ wpc[workers[cursor]] = "gone"
  /\ proc' = "down"
  /\ UNCHANGED <<mainVars, workers, waiting_jobs, jobs_mtx, workerVars, finished, spurious>>

\* Mutant of WalkEnds: the walk leaves out the last worker.
WalkEndsEarly ==
  /\ mpc = "walk" /\ cursor >= Len(workers)
  /\ mpc' = "lockstop"
  /\ UNCHANGED <<proc, i, cursor, workers, waiting_jobs, jobs_mtx, workerVars, finished, spurious>>

\* The walk has passed the last worker.
WalkEnds ==
  /\ mpc = "walk" /\ cursor > Len(workers)
  /\ mpc' = "lockstop"
  /\ UNCHANGED <<proc, i, cursor, workers, waiting_jobs, jobs_mtx, workerVars, finished, spurious>>

\* ThreadPoolShutdown with the mutex held: forget workers and jobs, wake all
\* sleepers, unlock.
StopPool ==
  /\ mpc = "stop"
  /\ workers' = <<>> /\ waiting_jobs' = <<>>
  /\ wpc' = [w \in Workers |-> IF w \in Asleep THEN "lock" ELSE wpc[w]]
  /\ jobs_mtx' = Nobody
  /\ mpc' = "return"
  /\ UNCHANGED <<proc, i, cursor, terminate, job, finished, spurious>>

\* main returns: the process ends, with or without its workers.
MainReturn ==
  /\ mpc = "return"
  /\ proc' = "down"
  /\ UNCHANGED <<mainVars, workers, waiting_jobs, jobs_mtx, workerVars, finished, spurious>>

----------------------------------------------------------------------------
(* A worker thread, WorkerThread. *)

\* pthread_mutex_lock at the top of the loop, or inside pthread_cond_wait.
WorkerLock(w) ==
  /\ wpc[w] = "lock" /\ jobs_mtx = Nobody
  /\ jobs_mtx' = w
  /\ wpc' = [wpc EXCEPT ![w] = "test"]
  /\ UNCHANGED <<proc, mainVars, workers, waiting_jobs, terminate, job, finished, spurious>>

\* Mutant of WorkerSleep: terminate is not tested before sleeping.
WorkerSleepAlways(w) ==
  /\ wpc[w] = "test" /\ waiting_jobs = <<>>
  /\ jobs_mtx' = Nobody
  /\ wpc' = [wpc EXCEPT ![w] = "asleep"]
  /\ UNCHANGED <<proc, mainVars, workers, waiting_jobs, terminate, job, finished, spurious>>

\* No job and not told to stop: release the mutex and sleep.
WorkerSleep(w) ==
  /\ wpc[w] = "test" /\ waiting_jobs = <<>> /\ ~terminate[w]
  /\ jobs_mtx' = Nobody
  /\ wpc' = [wpc EXCEPT ![w] = "asleep"]
  /\ UNCHANGED <<proc, mainVars, workers, waiting_jobs, terminate, job, finished, spurious>>

\* The inner loop ends.
WorkerWoken(w) ==
  /\ wpc[w] = "test" /\ (waiting_jobs # <<>> \/ terminate[w])
  /\ wpc' = [wpc EXCEPT ![w] = "check"]
  /\ UNCHANGED <<proc, mainVars, workers, waiting_jobs, jobs_mtx, terminate, job, finished, spurious>>

\* Told to stop: unlock and leave the loop, whatever is still waiting.
WorkerLeave(w) ==
  /\ wpc[w] = "check" /\ terminate[w]
  /\ jobs_mtx' = Nobody
  /\ wpc' = [wpc EXCEPT ![w] = "free"]
  /\ UNCHANGED <<proc, mainVars, workers, waiting_jobs, terminate, job, finished, spurious>>

\* Mutant of WorkerTake: the job stays on the list.
WorkerTakeLeavesJob(w) ==
  /\ wpc[w] = "check" /\ ~terminate[w]
  /\ job' = [job EXCEPT ![w] = IF waiting_jobs = <<>> THEN NoJob ELSE Head(waiting_jobs)]
  /\ jobs_mtx' = Nobody
  /\ wpc' = [wpc EXCEPT ![w] = "run"]
  /\ UNCHANGED <<proc, mainVars, workers, waiting_jobs, terminate, finished, spurious>>

\* Take the head of the list, if there is one, and unlock.
WorkerTake(w) ==
  /\ wpc[w] = "check" /\ ~terminate[w]
  /\ job' = [job EXCEPT ![w] = IF waiting_jobs = <<>> THEN NoJob ELSE Head(waiting_jobs)]
  /\ waiting_jobs' = IF waiting_jobs = <<>> THEN <<>> ELSE Tail(waiting_jobs)
  /\ jobs_mtx' = Nobody
  /\ wpc' = [wpc EXCEPT ![w] = "run"]
  /\ UNCHANGED <<proc, mainVars, workers, terminate, finished, spurious>>

\* job->job_function(job), which frees the job; a null job is skipped.
WorkerRun(w) ==
  /\ wpc[w] = "run"
  /\ finished' = finished \cup ({job[w]} \ {NoJob})
  /\ job' = [job EXCEPT ![w] = NoJob]
  /\ wpc' = [wpc EXCEPT ![w] = "lock"]
  /\ UNCHANGED <<proc, mainVars, workers, waiting_jobs, jobs_mtx, terminate, spurious>>

\* free(worker); pthread_exit(NULL).
WorkerFree(w) ==
  /\ wpc[w] = "free"
  /\ wpc' = [wpc EXCEPT ![w] = "gone"]
  /\ UNCHANGED <<proc, mainVars, workers, waiting_jobs, jobs_mtx, terminate, job, finished, spurious>>

\* pthread_cond_wait may return without a signal.
SpuriousWakeup(w) ==
  /\ wpc[w] = "asleep" /\ spurious < MaxSpurious
  /\ spurious' = spurious + 1
  /\ wpc' = [wpc EXCEPT ![w] = "lock"]
  /\ UNCHANGED <<proc, mainVars, workers, waiting_jobs, jobs_mtx, terminate, job, finished>>

----------------------------------------------------------------------------
MainStep ==
  \/ CreateWorker \/ CreateReturns
  \/ MallocJob \/ MallocJobFails \/ MainLock \/ ThreadPoolQueue
  \/ BeginShutdown \/ MarkWorker \/ AdvanceCursor \/ CursorCrash \/ WalkEnds
  \/ StopPool \/ MainReturn

WorkerThread(w) ==
  \/ WorkerLock(w) \/ WorkerSleep(w) \/ WorkerWoken(w)
  \/ WorkerLeave(w) \/ WorkerTake(w) \/ WorkerRun(w) \/ WorkerFree(w)

Next ==
  \/ proc = "up" /\ MainStep
  \/ \E w \in Workers : proc = "up" /\ (WorkerThread(w) \/ SpuriousWakeup(w))
  \/ proc = "down" /\ UNCHANGED vars

Spec == Init /\ [][Next]_vars

\* Every worker thread is scheduled, and so is main while it holds the mutex.
\* Nothing is assumed of main elsewhere: it may be slow to queue, to shut the
\* pool down or to return.
FairSpec ==
  /\ Spec
  /\ \A w \in Workers : WF_vars(proc = "up" /\ WorkerThread(w))
  /\ WF_vars(proc = "up" /\ (ThreadPoolQueue \/ StopPool))

----------------------------------------------------------------------------
(* Properties. *)

\* Every variable has its type: the worker and main control points, the list
\* of workers and the stack of waiting jobs of threadpool.c.
TypeOK ==
  /\ proc \in {"up", "down"}
  /\ mpc \in {"create", "queue", "lockqueue", "add", "walk", "advance", "lockstop", "stop", "return"}
  /\ i \in 1..(NumJobs + 1)
  /\ cursor \in Nat \ {0}
  /\ workers \in Seq(Workers)
  /\ waiting_jobs \in Seq(Jobs)
  /\ jobs_mtx \in Workers \cup {Main, Nobody}
  /\ wpc \in [Workers -> {"none", "lock", "test", "asleep", "check", "run", "free", "gone"}]
  /\ terminate \in [Workers -> BOOLEAN]
  /\ job \in [Workers -> Jobs \cup {NoJob}]
  /\ finished \in SUBSET Jobs
  /\ spurious \in 0..MaxSpurious

\* No job is in two places: listed twice, listed while a worker runs it, held
\* by two workers, or held or listed after its job_function freed it. A job
\* that was would be run and freed twice.
JobOwnedOnce ==
  /\ IsInjective(waiting_jobs)
  /\ \A w \in Workers : job[w] # NoJob => job[w] \notin Range(waiting_jobs) \cup finished
  /\ \A v, w \in Workers : job[v] = job[w] /\ job[v] # NoJob => v = w
  /\ Range(waiting_jobs) \cap finished = {}

\* Before shutdown no wakeup is lost: as long as a worker sleeps, at least as
\* many workers are awake, and will look at the list, as there are jobs on it.
WorkConserving ==
  (\A w \in Workers : ~terminate[w]) =>
     \/ Asleep = {}
     \/ Len(waiting_jobs) <= Cardinality(Awake)

\* A worker that gets past the terminate test holds a job, after spurious
\* wakeups and with other workers racing for the list too: the null check at
\* line 98 is never taken.
TakeFindsJob == \A w \in Workers : wpc[w] = "run" => job[w] # NoJob

\* The unlocked store worker->terminate = 1 of the shutdown walk hits a block
\* its worker has not freed.
StoreHitsLiveWorker ==
  mpc = "walk" /\ cursor <= Len(workers) => wpc[workers[cursor]] # "gone"

\* Once ThreadPoolShutdown has returned no worker is asleep on jobs_cond: the
\* broadcast reached all of them and none goes back to sleep.
NoSleeperAfterShutdown == mpc = "return" => Asleep = {}

\* After the pool is shut down every worker frees itself and exits, unless
\* the process ends first.
WorkersExit ==
  mpc = "return" ~> (proc = "down" \/ \A w \in Created : wpc[w] = "gone")

\* A queued job leaves the list - taken by a worker, dropped by shutdown, or
\* lost with the process - if the pool has a worker at all and main has not
\* begun to shut down.
JobsTaken ==
  \A j \in Jobs :
    (j \in Range(waiting_jobs) /\ Created # {}) ~>
      (j \notin Range(waiting_jobs) \/ mpc \in {"walk", "advance", "lockstop", "stop"} \/ proc = "down")

\* ThreadPoolShutdown ("terminate the thread pool", line 144) does not bring
\* the process down: main ends the process by returning or by exit(1) only.
ShutdownSurvives ==
  [][proc' = "down" /\ proc = "up" => mpc \in {"queue", "return"}]_vars

----------------------------------------------------------------------------
(* Why the properties hold: the inductive invariant of ThreadPoolProofs. *)

\* The mutex has one owner, and the owner is inside its critical section.
LockInv ==
  /\ \A w \in Workers : wpc[w] \in {"test", "check"} <=> jobs_mtx = w
  /\ mpc \in {"add", "stop"} <=> jobs_mtx = Main

\* Jobs at hand, on the list or freed are among those main has queued, and
\* the list runs from the newest to the oldest.
JobInv ==
  /\ \A m, n \in DOMAIN waiting_jobs : m < n => waiting_jobs[n] < waiting_jobs[m]
  /\ mpc \in {"lockqueue", "add"} => i <= NumJobs
  /\ \A j \in Range(waiting_jobs) \cup finished : j < i
  /\ \A w \in Workers : job[w] < i
  /\ \A w \in Workers : wpc[w] = "run" <=> job[w] # NoJob
  /\ \A w \in Workers : wpc[w] = "check" => waiting_jobs # <<>> \/ terminate[w]

\* The list holds every worker once; a worker leaves only when told to, and
\* the walk has told those up to the cursor.
WalkInv ==
  /\ mpc # "return" => Range(workers) = Created
  /\ IsInjective(workers)
  /\ \A w \in Workers : wpc[w] \in {"free", "gone"} => terminate[w]
  /\ \A w \in Workers : terminate[w] =>
        w \in Created /\ mpc \in {"walk", "advance", "lockstop", "stop", "return"}
  /\ mpc = "walk" => \A k \in DOMAIN workers : terminate[workers[k]] <=> k < cursor
  /\ mpc = "advance" =>
        cursor \in DOMAIN workers /\ \A k \in DOMAIN workers : terminate[workers[k]] <=> k <= cursor
  /\ mpc \in {"lockstop", "stop", "return"} => \A w \in Created : terminate[w]

\* The whole inductive invariant: mutual exclusion on jobs_mtx, where the jobs
\* are, how far the shutdown walk is, and the properties that need them.
IInv ==
  /\ TypeOK /\ LockInv /\ JobInv /\ WalkInv
  /\ JobOwnedOnce /\ WorkConserving /\ NoSleeperAfterShutdown

----------------------------------------------------------------------------
(* The pool implements JobPool. *)

jobStatus ==
  [j \in Jobs |->
     IF j \in finished THEN "done"
     ELSE IF \E w \in Workers : job[w] = j THEN "running"
     ELSE IF j \in Range(waiting_jobs) THEN "waiting"
     ELSE IF j < i THEN "dropped" ELSE "new"]

Pool == INSTANCE JobPool WITH
  Capacity <- Cardinality(Workers),
  status <- jobStatus,
  closed <- mpc = "return"

\* Every behaviour of threadpool.c's program is one a job pool allows.
ImplementsJobPool == Pool!Spec
=============================================================================
