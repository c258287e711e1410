----------------------------- MODULE Exceptions -----------------------------
(***************************************************************************)
(* The macros Try, Catch, Finally, EndTry and Throw of                     *)
(* code/exception/trycatch_finally.c. Each thread runs any code made of    *)
(* them: frames[t] are the Try statements it is in, the innermost last,    *)
(* and top[t] is the one the thread-specific ExceptionStack points to, 0   *)
(* for NULL. A frame lives on the stack of its function, so that one whose *)
(* statement was left is dead, and jumping to it is a fault.               *)
(***************************************************************************)
EXTENDS Integers, Sequences, FiniteSets

CONSTANTS ExceptionThreads, ExceptionKinds,
          MaxFrames          \* bound: statements entered at once, in all threads

ASSUME ExceptionAssumption == MaxFrames \in Nat

VARIABLES frames, top,
          swallowed,         \* threads in which an exception found no frame
          left,              \* threads that left a Try block by break, return or goto
          deadJump           \* a thread has jumped to a dead frame

exceptionVars == <<frames, top, swallowed, left, deadJump>>

\* A Try statement: Exception_flag, the exception, what it catches, whether it
\* has a Finally, and the block it is in.
Frame(prev, catches, finally) ==
  [flag |-> "Entered", exception |-> "none", prev |-> prev, catches |-> catches,
   finally |-> finally, block |-> "try"]

ExceptionInit ==
  /\ frames = [t \in ExceptionThreads |-> <<>>] /\ top = [t \in ExceptionThreads |-> 0]
  /\ swallowed = {} /\ left = {} /\ deadJump = FALSE

Depth(t) == Len(frames[t])
Inner(t) == frames[t][Depth(t)]
AllFrames == {f \in ExceptionThreads \X (1..MaxFrames) : f[2] <= Depth(f[1])}

\* The frame t is back in after a throw, and has not chosen a block for it.
Chooses(t) == Depth(t) > 0 /\ Inner(t).flag = "Thrown" /\ Inner(t).block # "finally"
\* What becomes of a frame at the address of a dead one is not followed.
Try(t, catches, finally) ==
  /\ ~ Chooses(t) /\ t \notin left
  /\ Cardinality(AllFrames) < MaxFrames
  /\ frames' = [frames EXCEPT ![t] = Append(@, Frame(top[t], catches, finally))]
  /\ top' = [top EXCEPT ![t] = Depth(t) + 1]
  /\ UNCHANGED <<swallowed, left, deadJump>>

\* MUTANT Thrown: the frame stays on the stack of frames.
ThrownWithoutPop(fs, p, e) ==
  [frames |-> Append(SubSeq(fs, 1, p - 1), [fs[p] EXCEPT !.exception = e, !.flag = "Thrown"]), top |-> p]

\* ntyExceptionThrow with a frame p to jump to: what is inside of it is left.
Thrown(fs, p, e) ==
  [frames |-> Append(SubSeq(fs, 1, p - 1), [fs[p] EXCEPT !.exception = e, !.flag = "Thrown"]), top |-> fs[p].prev]

\* Without a frame it prints and returns; a dead one is not followed.
Throw(t, e) ==
  /\ ~ Chooses(t)
  /\ IF top[t] = 0
     THEN /\ swallowed' = swallowed \cup {t}
          /\ UNCHANGED <<frames, top, deadJump>>
     ELSE IF top[t] > Depth(t)
     THEN deadJump' = TRUE /\ UNCHANGED <<frames, top, swallowed>>
     ELSE LET to == Thrown(frames[t], top[t], e)
          IN /\ frames' = [frames EXCEPT ![t] = to.frames] /\ top' = [top EXCEPT ![t] = to.top]
             /\ UNCHANGED <<swallowed, deadJump>>
  /\ UNCHANGED left

Enter(t, block, flag) ==
  /\ frames' = [frames EXCEPT ![t][Depth(t)] = [@ EXCEPT !.block = block, !.flag = flag]]
  /\ UNCHANGED <<swallowed, left, deadJump>>

Catch(t) ==
  /\ Chooses(t) /\ Inner(t).exception \in Inner(t).catches
  /\ Enter(t, "catch", "Handled")
  /\ UNCHANGED top

\* Finally is the next block for a frame that has one: after a throw that is not
\* caught, after a Catch block, and after a Try block that came to its end,
\* which pops the frame.
Finally(t) ==
  /\ Depth(t) > 0 /\ Inner(t).finally /\ Inner(t).block \in {"try", "catch"}
  /\ ~ (Chooses(t) /\ Inner(t).exception \in Inner(t).catches)
  /\ Enter(t, "finally", IF Inner(t).flag = "Entered" THEN "Finalized" ELSE Inner(t).flag)
  /\ top' = IF Inner(t).flag = "Entered" THEN [top EXCEPT ![t] = Inner(t).prev] ELSE top

Passed(f) == f.finally => f.block = "finally"

\* The end of the statement: the frame is popped if it still has to be, and what
\* was not caught is thrown again from here.
EndTry(t) ==
  LET f == Inner(t)
      rest == SubSeq(frames[t], 1, Depth(t) - 1)
      prev == IF f.flag = "Entered" THEN f.prev ELSE top[t]
  IN /\ Depth(t) > 0
     /\ Passed(f)
     /\ ~ (Chooses(t) /\ f.exception \in f.catches)
     /\ IF f.flag # "Thrown"
        THEN /\ frames' = [frames EXCEPT ![t] = rest] /\ top' = [top EXCEPT ![t] = prev]
             /\ UNCHANGED <<swallowed, deadJump>>
        ELSE IF prev = 0
        THEN /\ frames' = [frames EXCEPT ![t] = rest] /\ swallowed' = swallowed \cup {t}
             /\ UNCHANGED <<top, deadJump>>
        ELSE IF prev > Depth(t)
        THEN deadJump' = TRUE /\ UNCHANGED <<frames, top, swallowed>>
        ELSE LET to == Thrown(frames[t], prev, f.exception)
             IN /\ frames' = [frames EXCEPT ![t] = to.frames] /\ top' = [top EXCEPT ![t] = to.top]
                /\ UNCHANGED <<swallowed, deadJump>>
     /\ UNCHANGED left

\* break, return or goto out of the statement: nothing is popped.
Leave(t) ==
  /\ Depth(t) > 0 /\ ~ Chooses(t)
  /\ frames' = [frames EXCEPT ![t] = SubSeq(@, 1, Depth(t) - 1)]
  /\ left' = IF Inner(t).block = "try" THEN left \cup {t} ELSE left
  /\ UNCHANGED <<top, swallowed, deadJump>>

ExceptionNext ==
  /\ ~ deadJump
  /\ \E t \in ExceptionThreads :
       \/ \E catches \in SUBSET ExceptionKinds, finally \in BOOLEAN : Try(t, catches, finally)
       \/ \E e \in ExceptionKinds : Throw(t, e)
       \/ Catch(t) \/ Finally(t) \/ EndTry(t) \/ Leave(t)

----------------------------------------------------------------------------
\* The Try blocks a thread is in, and the innermost of them below the frame i, 0 for none.
Open(fs) == {i \in DOMAIN fs : fs[i].block = "try" /\ fs[i].flag = "Entered"}
OpenBelow(fs, p, i) == p \in Open(fs) \cup {0} /\ p < i /\ \A j \in Open(fs) : j < i => j <= p

\* The frames a throw can reach, from the top along prev, are those of the Try
\* blocks the thread is in, each once and the innermost first, so that a handler
\* never handles what its own Catch or Finally throws (trycatch_finally.c:42,
\* 126), unless a Try block was left by break, return or goto.
FramesAreTryBlocks ==
  /\ deadJump => left # {}
  /\ \A t \in ExceptionThreads \ left :
    /\ OpenBelow(frames[t], top[t], Depth(t) + 1)
    /\ \A i \in Open(frames[t]) : OpenBelow(frames[t], frames[t][i].prev, i)

\* A statement with a Finally is not over before its Finally was entered, be it
\* after a throw, a Catch or neither; but a throw out of its Catch block, and
\* break, return or goto, pass it by (trycatch_finally.c:76).
FinallyRuns ==
  \A t \in ExceptionThreads : \A i \in 1..Depth(t) :
    Len(frames'[t]) < i /\ frames[t][i].finally /\ frames[t][i].block # "finally"
      => \/ frames[t][i].block = "catch"
         \/ t \in left'

\* Both, after and during every step.
BlocksRun == [][FramesAreTryBlocks' /\ FinallyRuns]_exceptionVars
=============================================================================
