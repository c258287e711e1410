----------------------------- MODULE TimerQueue -----------------------------
(***************************************************************************)
(* The timers of code/timer/sl-timer.c, on a skip list, and of             *)
(* code/timer/rbt-timer.c, on a red-black tree. Both have one thread that  *)
(* adds, deletes and now and then expires timers. Both keep a deadline in  *)
(* 32 bits of milliseconds: here KeySpan values. clock is the true time    *)
(* and due the true deadline of each timer its owner waits for.            *)
(***************************************************************************)
EXTENDS SkipList, NgxRbTree

CONSTANTS Timers,       \* addresses of timers, from 1
          MaxDelay,     \* the longest time a timer is set to
          MaxClock      \* how far time goes

ASSUME TimerAssumption ==
  /\ Timers \subseteq Nat \ {0}
  /\ KeySpan \in Nat /\ MaxDelay \in Nat /\ 2 * MaxDelay < KeySpan
  /\ MaxClock \in Nat

VARIABLES timerKind,    \* "skiplist" or "rbtree"
          timerQueue,   \* the heap of the kind
          clock, due,
          tied,         \* a timer was added with the key of one that waits
          timerFault    \* memory was read after it was freed

timerVars == <<timerKind, timerQueue, clock, due, tied, timerFault>>

NoDeadline == MaxClock + MaxDelay + 1                    \* of a timer nobody waits for
WaitingTimers == {x \in Timers : due[x] # NoDeadline}
now == clock % KeySpan                             \* current_time()
IsSkipListTimer == timerKind = "skiplist"

TimerInit(kinds) ==
  /\ timerKind \in kinds
  /\ timerQueue = IF timerKind = "skiplist" THEN zslCreate(Timers) ELSE rbtree_create(Timers)
  /\ clock = 0 /\ due = [x \in Timers |-> NoDeadline]
  /\ tied = FALSE /\ timerFault = FALSE

AllocatedTimers == IF IsSkipListTimer THEN timerQueue.allocated ELSE timerQueue.used
KeyOf(x) == IF IsSkipListTimer THEN timerQueue.score[x] ELSE timerQueue.key[x]

\* MUTANT KeyAfter: the delay is taken for the deadline.
KeyAfterZero(msec) == msec
KeyAfter(msec) == (msec + clock) % KeySpan

\* add_timer of both programs: the key is the sum modulo 2^32.
AddTimer(msec) ==
  LET key == KeyAfter(msec)
      free == Timers \ AllocatedTimers
      x == CHOOSE y \in free : \A z \in free : y <= z
  IN /\ ~ timerFault /\ free # {}
     /\ due' = [due EXCEPT ![x] = clock + msec]
     /\ tied' = (tied \/ \E y \in WaitingTimers : KeyOf(y) = key)
     /\ \/ /\ IsSkipListTimer
           /\ \E level \in Levels : timerQueue' = zslInsert(timerQueue, x, key, level)
        \/ /\ ~ IsSkipListTimer
           /\ timerQueue' = ngx_rbtree_insert(timerQueue, x, key)
     /\ UNCHANGED <<timerKind, clock, timerFault>>

\* del_timer of sl-timer.c: the owner of a timer that has not fired deletes it.
\* The score is read from memory another deletion may have freed.
DelTimer(x) ==
  /\ IsSkipListTimer /\ ~ timerFault /\ x \in WaitingTimers
  /\ IF x \in AllocatedTimers
     THEN timerQueue' = zslDelete(timerQueue, x) /\ UNCHANGED timerFault
     ELSE timerFault' = TRUE /\ UNCHANGED timerQueue
  /\ due' = [due EXCEPT ![x] = NoDeadline]
  /\ UNCHANGED <<timerKind, clock, tied>>

\* del_timer of rbt-timer.c: the owner unlinks the timer and frees it.
DelTreeTimer(x) ==
  /\ ~ IsSkipListTimer /\ ~ timerFault /\ x \in WaitingTimers
  /\ timerQueue' = ngx_rbtree_delete(timerQueue, x)
  /\ due' = [due EXCEPT ![x] = NoDeadline]
  /\ UNCHANGED <<timerKind, clock, tied, timerFault>>

\* The loop of expire_timer: the queue it leaves and the timers it fires.
RECURSIVE FireList(_, _)
FireList(Z, fired) ==
  LET x == zslMin(Z)
  IN IF x = NULL \/ Z.score[x] > now THEN [queue |-> Z, fired |-> fired]
     ELSE FireList(zslDeleteHead(Z), fired \cup {x})

RECURSIVE FireTree(_, _)
FireTree(T, fired) ==
  LET x == ngx_rbtree_min(T, T.root)
  IN IF T.root = nil \/ T.key[x] > now THEN [queue |-> T, fired |-> fired]
     ELSE FireTree(ngx_rbtree_delete(T, x), fired \cup {x})

Expiry == IF IsSkipListTimer THEN FireList(timerQueue, {}) ELSE FireTree(timerQueue, {})

ExpireTimer ==
  /\ ~ timerFault
  /\ timerQueue' = Expiry.queue
  /\ due' = [x \in Timers |-> IF x \in Expiry.fired THEN NoDeadline ELSE due[x]]
  /\ UNCHANGED <<timerKind, clock, tied, timerFault>>

\* Time passes; expire_timer is called at least once in a unit of time.
TimerTick ==
  /\ ~ timerFault /\ clock < MaxClock /\ Expiry.fired = {}
  /\ clock' = clock + 1
  /\ UNCHANGED <<timerKind, timerQueue, due, tied, timerFault>>

TimerNext ==
  \/ \E msec \in 0..MaxDelay : AddTimer(msec)
  \/ \E x \in Timers : DelTimer(x) \/ DelTreeTimer(x)
  \/ ExpireTimer \/ TimerTick

----------------------------------------------------------------------------
\* Timers that wait and the time now lie in one turn of the 32-bit clock.
OneTurn == \A x \in WaitingTimers : due[x] \div KeySpan = clock \div KeySpan

\* The list stays a skip list, and the tree a red-black tree in which every
\* timer is after those it is due after, whatever the wrap does (skiplist.c:58,
\* rbtree.c:140).
QueueInOrder ==
  IF IsSkipListTimer THEN IsSkipList(timerQueue)
  ELSE LET keys == rbtree_traversal(timerQueue, timerQueue.root)
       IN /\ IsRedBlack(timerQueue) /\ timerQueue.used = WaitingTimers
          /\ \A j, k \in DOMAIN keys : j < k => ~ Before(keys[k], keys[j])

\* An expiry fires the timers whose deadline has come and no others, as long
\* as the clock does not wrap between now and a deadline (sl-timer.c:59,
\* rbt-timer.c:76) and no two timers of a skip list share one.
FiresOnTime ==
  OneTurn /\ (IsSkipListTimer => ~ tied) => Expiry.fired = {x \in WaitingTimers : due[x] <= clock}

\* A timer that was deleted fires no more, one that was not is in the queue,
\* and no freed timer is used, as long as no two of a skip list shared a
\* deadline (skiplist.c:151).
QueueHoldsWaiting ==
  IsSkipListTimer /\ ~ tied =>
    /\ ~ timerFault
    /\ {OnLevel(timerQueue, 1)[k] : k \in 1..timerQueue.length} = WaitingTimers

\* What the owner of the timers relies on, of either queue.
TimersKept == QueueInOrder /\ FiresOnTime /\ QueueHoldsWaiting
=============================================================================
