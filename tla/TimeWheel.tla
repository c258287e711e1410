------------------------------ MODULE TimeWheel ------------------------------
(***************************************************************************)
(* code/timer/test.cc: a wheel of TW_SIZE lists of timer nodes. A node is  *)
(* counted once per list entry; each tick empties one list, and a node     *)
(* whose count reaches zero is deleted. One thread adds and ticks.         *)
(***************************************************************************)
EXTENDS Integers, FiniteSetsExt

CONSTANTS Nodes,   \* CTimerNode objects
          TW_SIZE, EXPIRE,
          Delays,  \* arguments of AddTimeoutDelay
          MaxAdds  \* bound on the timeouts added for one node

\* The mask TW_SIZE - 1 is a remainder because TW_SIZE divides 2^64.
ASSUME SizeAssumption == TW_SIZE \in Nat \ {0} /\ EXPIRE \in 0..(TW_SIZE - 1)
ASSUME DelaysAssumption == Delays \subseteq Nat /\ MaxAdds \in Nat

Slots == 0..(TW_SIZE - 1)

VARIABLES
  iRealTick, \* modulo TW_SIZE, all that is ever used of it
  tw,        \* tw[s][n]: how often node n is in the list of slot s
  ref,       \* CTimerNode::ref
  object,    \* "none", "live" or "deleted"
  offline,   \* nodes Offline() was called for
  adds,      \* timeouts added so far, for the bound
  proc       \* "up", or "down" after a use of a deleted node

vars == <<iRealTick, tw, ref, object, offline, adds, proc>>

Init ==
  /\ iRealTick = 0
  /\ tw = [s \in Slots |-> [n \in Nodes |-> 0]]
  /\ ref = [n \in Nodes |-> 0]
  /\ object = [n \in Nodes |-> "none"]
  /\ offline = {}
  /\ adds = [n \in Nodes |-> 0]
  /\ proc = "up"

\* Mutant of SlotAfter: a tick too late.
SlotTooLate(delay) == (iRealTick + EXPIRE + delay + 1) % TW_SIZE

\* The list a timeout goes to.
SlotAfter(delay) == (iRealTick + EXPIRE + delay) % TW_SIZE

\* Mutant of Add: IncrRef is not called.
AddNoRef(n, delay) ==
  /\ object[n] # "deleted" /\ adds[n] < MaxAdds
  /\ object' = [object EXCEPT ![n] = "live"]
  /\ tw' = [tw EXCEPT ![SlotAfter(delay)][n] = @ + 1]
  /\ adds' = [adds EXCEPT ![n] = @ + 1]
  /\ UNCHANGED <<iRealTick, ref, offline, proc>>

\* new CTimerNode, followed by its first AddTimeout, or a further timeout.
Add(n, delay) ==
  /\ object[n] # "deleted" /\ adds[n] < MaxAdds
  /\ object' = [object EXCEPT ![n] = "live"]
  /\ ref' = [ref EXCEPT ![n] = @ + 1]
  /\ tw' = [tw EXCEPT ![SlotAfter(delay)][n] = @ + 1]
  /\ adds' = [adds EXCEPT ![n] = @ + 1]
  /\ UNCHANGED <<iRealTick, offline, proc>>

AddTimeout(n) == Add(n, 0)
AddTimeoutDelay(n, delay) == object[n] = "live" /\ Add(n, delay)

\* The entries of n in the list being emptied.
Entries(n) == tw[iRealTick][n]

\* Mutant of Killed: the last reference does not count.
KilledLate(n) == object[n] = "live" /\ Entries(n) > 0 /\ ref[n] < Entries(n)

\* TryKill returns true for one of the entries of n.
Killed(n) == object[n] = "live" /\ Entries(n) > 0 /\ ref[n] <= Entries(n)

\* An entry is left when n has been deleted, by this tick or an earlier one.
UsesDeleted(n) ==
  \/ object[n] = "deleted" /\ Entries(n) > 0
  \/ Killed(n) /\ Entries(n) > 1 /\ Entries(n) > ref[n]

\* One tick: every entry of the list gives up its reference, and the list is
\* cleared.
TimerShift ==
  /\ iRealTick' = (iRealTick + 1) % TW_SIZE
  /\ ref' = [n \in Nodes |-> Max({0, ref[n] - Entries(n)})]
  /\ object' = [n \in Nodes |-> IF Killed(n) THEN "deleted" ELSE object[n]]
  /\ tw' = [tw EXCEPT ![iRealTick] = [n \in Nodes |-> 0]]
  /\ proc' \in IF \E n \in Nodes : UsesDeleted(n) THEN {"up", "down"} ELSE {"up"}
  /\ UNCHANGED <<offline, adds>>

Offline(n) ==
  /\ object[n] = "live"
  /\ ref' = [ref EXCEPT ![n] = 0]
  /\ offline' = offline \cup {n}
  /\ UNCHANGED <<iRealTick, tw, object, adds, proc>>

Next ==
  \/ proc = "up" /\ TimerShift
  \/ \E n \in Nodes : proc = "up" /\ (AddTimeout(n) \/ Offline(n) \/ \E d \in Delays : AddTimeoutDelay(n, d))
  \/ proc = "down" /\ UNCHANGED vars

Spec == Init /\ [][Next]_vars

\* The clock goes on: main shifts the wheel once per second that passed.
FairSpec == Spec /\ WF_vars(proc = "up" /\ TimerShift)

----------------------------------------------------------------------------
(* Properties. *)

\* Every variable has its type.
TypeOK ==
  /\ iRealTick \in Slots
  /\ tw \in [Slots -> [Nodes -> 0..MaxAdds]]
  /\ ref \in [Nodes -> 0..MaxAdds] /\ adds \in [Nodes -> 0..MaxAdds]
  /\ object \in [Nodes -> {"none", "live", "deleted"}]
  /\ offline \subseteq Nodes /\ proc \in {"up", "down"}

\* The sum of a number per slot.
SlotSum(count) ==
  LET sum[k \in 0..TW_SIZE] == IF k = 0 THEN 0 ELSE sum[k - 1] + count[k - 1]
  IN sum[TW_SIZE]

\* How often n is in the list of each slot.
EntriesOf(n) == [s \in Slots |-> tw[s][n]]

\* The reference count of a node is the number of its entries in the wheel,
\* so that the last entry, and no other one, finds it zero.
RefCounts ==
  \A n \in Nodes : object[n] = "live" /\ n \notin offline => ref[n] = SlotSum(EntriesOf(n))

\* The wheel holds no pointer to a deleted node, unless Offline was called
\* for it: an offline node dies with its first entry, and the later ones dangle.
NoDanglingEntry ==
  \A n \in Nodes : object[n] = "deleted" /\ n \notin offline => \A s \in Slots : tw[s][n] = 0

\* What holds of wheel and nodes between two ticks: the counts agree with the
\* entries and no entry outlives its node.
WheelInv == TypeOK /\ RefCounts /\ NoDanglingEntry

\* Every node is deleted in the end, when no timeout is added any more.
NodesDie == \A n \in Nodes : object[n] = "live" ~> (object[n] = "deleted" \/ proc = "down")

\* Ticks until the wheel empties the last list that holds n.
TicksLeft(n) == Max({0} \cup {(s - iRealTick) % TW_SIZE : s \in {t \in Slots : tw[t][n] > 0}})

Status(n) ==
  IF n \in offline THEN "offline"
  ELSE IF object[n] = "deleted" THEN "killed" ELSE object[n]

Idle == INSTANCE IdleTimer WITH
  Timeouts <- {EXPIRE + d : d \in Delays \cup {0}},
  status <- [n \in Nodes |-> Status(n)],
  left <- [n \in Nodes |-> IF Status(n) = "live" THEN TicksLeft(n) ELSE 0]

\* Counting references per list entry implements "dies with its latest
\* timeout": a node is killed by the tick that reaches that timeout, not by an
\* earlier entry and not by a later turn of the wheel.
ImplementsIdleTimer == Idle!Spec
=============================================================================
