------------------------------ MODULE IdleTimer ------------------------------
(***************************************************************************)
(* What the time wheel of code/timer/test.cc is for: a node lives until no *)
(* timeout set for it lies ahead any more, and is killed by the very tick  *)
(* that reaches the latest of them.                                        *)
(***************************************************************************)
EXTENDS Integers

CONSTANTS Nodes, Timeouts \* numbers of ticks a timeout can be set ahead

VARIABLES status, \* "none", "live", "killed", or "offline": no promise left
          left    \* ticks until the latest timeout of each live node

idleVars == <<status, left>>

Init == status = [n \in Nodes |-> "none"] /\ left = [n \in Nodes |-> 0]

\* A node comes to life with its first timeout.
Touch(n) ==
  /\ status[n] \in {"none", "live"}
  /\ status' = [status EXCEPT ![n] = "live"]
  /\ \E t \in Timeouts : left' = [left EXCEPT ![n] = IF t > @ THEN t ELSE @]

Tick ==
  /\ status' = [n \in Nodes |-> IF status[n] = "live" /\ left[n] = 0 THEN "killed" ELSE status[n]]
  /\ left' = [n \in Nodes |-> IF left[n] = 0 THEN 0 ELSE left[n] - 1]

Offline(n) ==
  /\ status[n] = "live"
  /\ status' = [status EXCEPT ![n] = "offline"]
  /\ left' = [left EXCEPT ![n] = 0]

Next == Tick \/ \E n \in Nodes : Touch(n) \/ Offline(n)

Spec == Init /\ [][Next]_idleVars
=============================================================================
