-------------------------------- MODULE Fifo --------------------------------
(***************************************************************************)
(* What code/cas/cas.h promises to one pushing and one popping thread: the *)
(* numbers 0..NumPush-1 enter a queue in order and leave it in the same    *)
(* order, each once, until the queue is destroyed with what is left in it. *)
(***************************************************************************)
EXTENDS Integers, Sequences

CONSTANT NumPush

VARIABLES queue,  \* the numbers in the queue, oldest first
          pushed, \* how many have entered
          open    \* the queue is not being destroyed

fifoVars == <<queue, pushed, open>>

Init == queue = <<>> /\ pushed = 0 /\ open = TRUE

Push ==
  /\ open /\ pushed < NumPush
  /\ queue' = Append(queue, pushed)
  /\ pushed' = pushed + 1
  /\ UNCHANGED open

Pop ==
  /\ open /\ queue # <<>>
  /\ queue' = Tail(queue)
  /\ UNCHANGED <<pushed, open>>

Destroy ==
  /\ open /\ open' = FALSE
  /\ queue' = <<>>
  /\ UNCHANGED pushed

Next == Push \/ Pop \/ Destroy

Spec == Init /\ [][Next]_fifoVars
=============================================================================
