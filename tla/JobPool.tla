------------------------------ MODULE JobPool ------------------------------
(***************************************************************************)
(* What a user of code/threadpool/threadpool.c is promised: a submitted    *)
(* job is run at most once, by one of at most Capacity workers, the newest *)
(* waiting job first; closing the pool drops the jobs that still wait, and *)
(* nothing starts afterwards, though jobs already running may finish.      *)
(***************************************************************************)
EXTENDS Integers, FiniteSets

CONSTANTS NumJobs,  \* jobs are numbered in the order they are submitted
          Capacity  \* number of workers

Jobs == 1..NumJobs

VARIABLES status, \* status[j]: where job j is
          closed  \* the pool has been shut down

jpVars == <<status, closed>>

With(s) == {j \in Jobs : status[j] = s}

Init == status = [j \in Jobs |-> "new"] /\ closed = FALSE

\* Jobs are submitted in order, and none after the pool is closed.
Submit(j) ==
  /\ ~closed
  /\ status[j] = "new"
  /\ \A k \in 1..(j - 1) : status[k] # "new"
  /\ status' = [status EXCEPT ![j] = "waiting"]
  /\ UNCHANGED closed

\* A free worker takes the newest waiting job.
Start(j) ==
  /\ status[j] = "waiting"
  /\ \A k \in With("waiting") : k <= j
  /\ Cardinality(With("running")) < Capacity
  /\ status' = [status EXCEPT ![j] = "running"]
  /\ UNCHANGED closed

Finish(j) ==
  /\ status[j] = "running"
  /\ status' = [status EXCEPT ![j] = "done"]
  /\ UNCHANGED closed

Close ==
  /\ ~closed
  /\ closed' = TRUE
  /\ status' = [j \in Jobs |-> IF status[j] = "waiting" THEN "dropped" ELSE status[j]]

Next == (\E j \in Jobs : Submit(j) \/ Start(j) \/ Finish(j)) \/ Close

Spec == Init /\ [][Next]_jpVars
=============================================================================
