--------------------------- MODULE SerialExecutor ---------------------------
(***************************************************************************)
(* What an EventLoop promises to the code that hands it functors: every    *)
(* functor given to queueInLoop is run at most once, one at a time, in the *)
(* order in which the calls took effect.  A functor given to runInLoop on  *)
(* the loop's own thread is run inside the call instead, ahead of whatever *)
(* is waiting.                                                             *)
(***************************************************************************)
EXTENDS Sequences

CONSTANT Functors

VARIABLES
  waiting,   \* functors accepted and not yet run, oldest first
  ran,       \* functors run from the queue, in the order they ran
  inlined    \* functors run inside the call that submitted them

vars == <<waiting, ran, inlined>>

Init == waiting = <<>> /\ ran = <<>> /\ inlined = {}

Submit(f) ==
  /\ waiting' = Append(waiting, f)
  /\ UNCHANGED <<ran, inlined>>

RunNext ==
  /\ waiting # <<>>
  /\ ran' = Append(ran, Head(waiting))
  /\ waiting' = Tail(waiting)
  /\ UNCHANGED inlined

RunAtOnce(f) ==
  /\ inlined' = inlined \cup {f}
  /\ UNCHANGED <<waiting, ran>>

Next == RunNext \/ \E f \in Functors : Submit(f) \/ RunAtOnce(f)

Spec == Init /\ [][Next]_vars
=============================================================================
