----------------------------- MODULE Exercises -----------------------------
(***************************************************************************)
(* The programs that answer one question and keep nothing: the solutions   *)
(* in leetcode/, sort.c, kmp.c and the answers of user_stack.c. A          *)
(* behaviour is one call: exercise names the function and input is its     *)
(* argument, or several of them.                                           *)
(***************************************************************************)
EXTENDS Integers, Sequences

OnTrees == INSTANCE TreeExercises
OnTexts == INSTANCE TextExercises
OnArrays == INSTANCE ArrayExercises
Searching == INSTANCE SearchExercises
Stack == INSTANCE UserStack

TreeKind == {"tree", "searchtree", "swapped", "complete", "voyage", "maximum"}
TextKind == {"kmp", "palindrome", "match", "window", "ip", "words", "backspace", "buddy", "rpn", "mirror"}
ArrayKind == {"sort", "insert", "range", "three", "four", "spiral", "between", "odd", "chips"}
SearchKind == {"lock", "slide", "queens", "sudoku", "eggs"}

VARIABLES exercise, input, answer, solved

exerciseVars == <<exercise, input, answer, solved>>

NoQuestion == <<"none", 0>>
ExerciseInit(questions) ==
  /\ \E q \in questions : exercise = q[1] /\ input = q[2]
  /\ answer = 0 /\ solved = FALSE

AnswerTo(e, x) ==
  CASE e \in TreeKind -> OnTrees!TreesAnswer(e, x)
    [] e \in TextKind -> OnTexts!TextAnswer(e, x)
    [] e \in ArrayKind -> OnArrays!ArrayAnswer(e, x)
    [] e \in SearchKind -> Searching!SearchAnswer(e, x)
    [] e = "packet" -> Stack!PacketAnswer(x)

Solve ==
  /\ ~solved /\ solved' = TRUE
  /\ answer' = AnswerTo(exercise, input)
  /\ UNCHANGED <<exercise, input>>

----------------------------------------------------------------------------
RightAnswer(e, x, a) ==
  CASE e \in TreeKind -> OnTrees!TreesRight(e, x, a)
    [] e \in TextKind -> OnTexts!TextRight(e, x, a)
    [] e \in ArrayKind -> OnArrays!ArrayRight(e, x, a)
    [] e \in SearchKind -> Searching!SearchRight(e, x, a)
    [] e = "packet" -> Stack!PacketRight(x, a)

\* The clever way (stacks, queues, pointers, tables, checksums computed anew)
\* gives what the plain definition of the question gives.
AnswersRight == solved => RightAnswer(exercise, input, answer)
============================================================================
