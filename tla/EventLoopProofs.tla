--------------------------- MODULE EventLoopProofs ---------------------------
(***************************************************************************)
(* Proofs about EventLoop for any number of threads, functors and          *)
(* channels.  TypeOK is inductive by itself; FifoExactlyOnce needs from it *)
(* that the local vector of doPendingFunctors is empty before the swap;    *)
(* NoLostWakeup needs from it that callingPendingFunctors_ is up exactly   *)
(* while a batch is swapped out and run.  The last section is about the    *)
(* loop of an EventLoopThread, whose steps are steps of EventLoop.         *)
(***************************************************************************)
EXTENDS EventLoopThread, SequenceTheorems, TLAPS

\* The constructor's state satisfies TypeOK.
LEMMA InitTypeOK == Init => TypeOK
<1> SUFFICES ASSUME Init PROVE TypeOK
  OBVIOUS
<1> USE DEF Init
<1>1. /\ pendingFunctors \in Seq(Functors) /\ functors \in Seq(Functors)
      /\ queued \in Seq(Functors) /\ ran \in Seq(Functors)
      /\ inlined \in SUBSET Functors
  OBVIOUS
<1>2. active \in SUBSET (Channels \cup {Wakeup})
  OBVIOUS
<1>3. call \in [Threads -> {"idle", "pushed", "quitting"}]
  OBVIOUS
<1>4. /\ pc \in PcValues
      /\ inUser \in BOOLEAN /\ looping \in BOOLEAN /\ quit \in BOOLEAN
      /\ callingPendingFunctors \in BOOLEAN /\ wakeupFd \in BOOLEAN
  BY DEF PcValues
<1>5. /\ looping <=> pc # "idle"
      /\ callingPendingFunctors <=> pc \in {"swap", "call"}
      /\ inUser => pc \in {"idle", "handle", "call"}
      /\ functors # <<>> => pc = "call"
  OBVIOUS
<1> QED
  BY <1>1, <1>2, <1>3, <1>4, <1>5 DEF TypeOK

\* Every step of the loop thread and of the callers preserves TypeOK: the
\* flags of loop() and doPendingFunctors() stay in step with the program
\* counter, and the local vector is empty outside the batch.
LEMMA NextTypeOK == TypeOK /\ [Next]_vars => TypeOK'
<1> SUFFICES ASSUME TypeOK, [Next]_vars PROVE TypeOK'
  OBVIOUS
<1> USE DEF TypeOK, PcValues, loopVars
<1>1. CASE Loop
  BY <1>1 DEF Loop
<1>2. CASE ResetQuit
  BY <1>2 DEF ResetQuit
<1>3. CASE Exit
  BY <1>3 DEF Exit
<1>4. CASE EnterPoll
  BY <1>4 DEF EnterPoll
<1>5. ASSUME NEW c \in Channels, DispatchIo(c) PROVE TypeOK'
  BY <1>5 DEF DispatchIo
<1>6. CASE HandleRead
  BY <1>6 DEF HandleRead
<1>7. CASE EndHandling
  BY <1>7 DEF EndHandling
<1>8. CASE SwapFunctors
  BY <1>8 DEF SwapFunctors
<1>9. CASE CallFunctor
  <2>1. Head(functors) \in Functors /\ Tail(functors) \in Seq(Functors)
    BY <1>9, HeadTailProperties DEF CallFunctor
  <2>2. ran' \in Seq(Functors)
    BY <1>9, <2>1, AppendProperties DEF CallFunctor
  <2> QED
    BY <1>9, <2>1, <2>2 DEF CallFunctor
<1>10. CASE EndFunctors
  BY <1>10 DEF EndFunctors
<1>11. CASE UserReturns
  BY <1>11 DEF UserReturns
<1>12. ASSUME NEW A \in SUBSET (Channels \cup {Wakeup}), PollReturns(A)
       PROVE  TypeOK'
  BY <1>12 DEF PollReturns
<1>13. CASE QuitSelf
  BY <1>13 DEF QuitSelf
<1>14. ASSUME NEW f \in Functors, QueueInLoopSelf(f) PROVE TypeOK'
  BY <1>14 DEF QueueInLoopSelf, WakesItself
<1>15. ASSUME NEW f \in Functors, RunInLoopSelf(f) PROVE TypeOK'
  BY <1>15 DEF RunInLoopSelf
<1>16. ASSUME NEW t \in Threads, WakeupBy(t) PROVE TypeOK'
  BY <1>16 DEF WakeupBy
<1>17. ASSUME NEW t \in Threads, Quit(t) PROVE TypeOK'
  BY <1>17 DEF Quit
<1>18. ASSUME NEW t \in Threads, NEW f \in Functors, QueueInLoop(t, f)
       PROVE  TypeOK'
  BY <1>18 DEF QueueInLoop
<1>19. CASE UNCHANGED vars
  BY <1>19 DEF vars
<1> QED
  BY <1>1, <1>2, <1>3, <1>4, <1>5, <1>6, <1>7, <1>8, <1>9, <1>10, <1>11,
     <1>12, <1>13, <1>14, <1>15, <1>16, <1>17, <1>18, <1>19
  DEF Next, LoopStep, SelfCall, Remote

\* TypeOK holds of every reachable state of the reactor.
THEOREM TypeCorrect == Spec => []TypeOK
  BY InitTypeOK, NextTypeOK, PTL DEF Spec

-----------------------------------------------------------------------------
\* Appending to a concatenation appends to its second part.
LEMMA AppendToLast ==
  ASSUME NEW S, NEW q \in Seq(S), NEW r \in Seq(S), NEW e \in S
  PROVE  Append(q \o r, e) = q \o Append(r, e)
<1>1. q \o r \in Seq(S) /\ <<e>> \in Seq(S)
  OBVIOUS
<1>2. Append(q \o r, e) = (q \o r) \o <<e>>
  BY <1>1, AppendIsConcat
<1>3. Append(r, e) = r \o <<e>>
  BY AppendIsConcat
<1>4. (q \o r) \o <<e>> = q \o (r \o <<e>>)
  BY <1>1, ConcatAssociative
<1> QED
  BY <1>2, <1>3, <1>4

\* Moving the head of the second sequence to the end of the first.
LEMMA MoveHead ==
  ASSUME NEW S, NEW q \in Seq(S), NEW r \in Seq(S), r # <<>>
  PROVE  Append(q, Head(r)) \o Tail(r) = q \o r
<1>1. Head(r) \in S /\ Tail(r) \in Seq(S) /\ <<Head(r)>> \in Seq(S)
  BY HeadTailProperties
<1>2. r = <<Head(r)>> \o Tail(r)
  OBVIOUS
<1>3. Append(q, Head(r)) = q \o <<Head(r)>>
  BY <1>1, AppendIsConcat
<1>4. (q \o <<Head(r)>>) \o Tail(r) = q \o (<<Head(r)>> \o Tail(r))
  BY <1>1, ConcatAssociative
<1> QED
  BY <1>2, <1>3, <1>4

\* Every step keeps the pushed functors split into those run, those of the
\* current batch and those pending, in that order.
LEMMA NextFifo == TypeOK /\ FifoExactlyOnce /\ [Next]_vars => FifoExactlyOnce'
<1> SUFFICES ASSUME TypeOK, FifoExactlyOnce, [Next]_vars PROVE FifoExactlyOnce'
  OBVIOUS
<1> USE DEF FifoExactlyOnce
<1>T. /\ pendingFunctors \in Seq(Functors) /\ functors \in Seq(Functors)
      /\ ran \in Seq(Functors) /\ queued \in Seq(Functors)
  BY DEF TypeOK
<1>C. ran \o functors \in Seq(Functors)
  BY <1>T
<1>1. CASE SwapFunctors
  <2>1. functors = <<>>
    BY <1>1 DEF SwapFunctors, TypeOK
  <2>2. ran \o <<>> = ran
    BY <1>T, ConcatEmptySeq
  <2>3. (ran \o pendingFunctors) \o <<>> = ran \o pendingFunctors
    BY <1>T, ConcatEmptySeq, ConcatProperties
  <2> QED
    BY <1>1, <2>1, <2>2, <2>3 DEF SwapFunctors
<1>2. CASE CallFunctor
  <2>1. Append(ran, Head(functors)) \o Tail(functors) = ran \o functors
    BY <1>2, <1>T, MoveHead DEF CallFunctor
  <2> QED
    BY <1>2, <2>1 DEF CallFunctor
<1>3. ASSUME NEW f \in Functors, QueueInLoopSelf(f) PROVE FifoExactlyOnce'
  <2>1. Append((ran \o functors) \o pendingFunctors, f)
          = (ran \o functors) \o Append(pendingFunctors, f)
    BY <1>3, <1>T, <1>C, AppendToLast, SMTT(40)
  <2> QED
    BY <1>3, <2>1 DEF QueueInLoopSelf, loopVars
<1>4. ASSUME NEW t \in Threads, NEW f \in Functors, QueueInLoop(t, f)
      PROVE  FifoExactlyOnce'
  <2>1. Append((ran \o functors) \o pendingFunctors, f)
          = (ran \o functors) \o Append(pendingFunctors, f)
    BY <1>4, <1>T, <1>C, AppendToLast, SMTT(40)
  <2> QED
    BY <1>4, <2>1 DEF QueueInLoop, loopVars
<1>5. ASSUME UNCHANGED <<queued, ran, functors, pendingFunctors>>
      PROVE  FifoExactlyOnce'
  BY <1>5
<1> QED
  BY <1>1, <1>2, <1>3, <1>4, <1>5
  DEF Next, LoopStep, SelfCall, Remote, Loop, ResetQuit, Exit, EnterPoll,
      DispatchIo, HandleRead, EndHandling, EndFunctors, UserReturns,
      PollReturns, QuitSelf, RunInLoopSelf, WakeupBy, Quit, vars, loopVars

\* Functors run exactly once and in the order they were pushed, whoever
\* pushed them and whenever.
THEOREM FifoCorrect == Spec => []FifoExactlyOnce
<1>1. Init => FifoExactlyOnce
  BY DEF Init, FifoExactlyOnce
<1> QED
  BY <1>1, NextFifo, TypeCorrect, PTL DEF Spec

-----------------------------------------------------------------------------
\* Every step preserves NoLostWakeup when the loop thread does not call
\* queueInLoop outside loop().
LEMMA NextNoLostWakeup ==
  ASSUME ~QueueBeforeLoop, TypeOK, NoLostWakeup, [Next]_vars
  PROVE  NoLostWakeup'
<1> USE DEF NoLostWakeup, TypeOK, PcValues, loopVars
<1>1. CASE Loop
  BY <1>1 DEF Loop
<1>2. CASE ResetQuit
  BY <1>2 DEF ResetQuit
<1>3. CASE Exit
  BY <1>3 DEF Exit
<1>4. CASE EnterPoll
  BY <1>4 DEF EnterPoll
<1>5. ASSUME NEW c \in Channels, DispatchIo(c) PROVE NoLostWakeup'
  BY <1>5 DEF DispatchIo
<1>6. CASE HandleRead
  BY <1>6 DEF HandleRead
<1>7. CASE EndHandling
  BY <1>7 DEF EndHandling
<1>8. CASE SwapFunctors
  BY <1>8 DEF SwapFunctors
<1>9. CASE CallFunctor
  BY <1>9 DEF CallFunctor
<1>10. CASE EndFunctors
  BY <1>10 DEF EndFunctors
<1>11. CASE UserReturns
  BY <1>11 DEF UserReturns
<1>12. ASSUME NEW A \in SUBSET (Channels \cup {Wakeup}), PollReturns(A)
       PROVE  NoLostWakeup'
  BY <1>12 DEF PollReturns
<1>13. CASE QuitSelf
  BY <1>13 DEF QuitSelf
<1>14. ASSUME NEW f \in Functors, QueueInLoopSelf(f) PROVE NoLostWakeup'
  \* In a batch the flag is up and queueInLoop wakes its own loop; while
  \* channels are being handled the batch is still to be collected.
  <2>1. pc \in {"handle", "call"}
    BY <1>14 DEF QueueInLoopSelf
  <2>2. CASE pc = "handle"
    BY <1>14, <2>2 DEF QueueInLoopSelf
  <2>3. CASE pc = "call"
    <3>1. callingPendingFunctors = TRUE
      BY <2>3
    <3> QED
      BY <1>14, <3>1 DEF QueueInLoopSelf, WakesItself
  <2> QED
    BY <2>1, <2>2, <2>3
<1>15. ASSUME NEW f \in Functors, RunInLoopSelf(f) PROVE NoLostWakeup'
  BY <1>15 DEF RunInLoopSelf
<1>16. ASSUME NEW t \in Threads, WakeupBy(t) PROVE NoLostWakeup'
  BY <1>16 DEF WakeupBy
<1>17. ASSUME NEW t \in Threads, Quit(t) PROVE NoLostWakeup'
  \* The caller of quit was idle, so it is not the thread the wakeup hangs on.
  <2>1. \A u \in Threads : call[u] = "pushed" => call'[u] = "pushed"
    BY <1>17 DEF Quit
  <2> QED
    BY <1>17, <2>1 DEF Quit
<1>18. ASSUME NEW t \in Threads, NEW f \in Functors, QueueInLoop(t, f)
       PROVE  NoLostWakeup'
  <2>1. call'[t] = "pushed"
    BY <1>18 DEF QueueInLoop
  <2> QED
    BY <2>1
<1>19. CASE UNCHANGED vars
  BY <1>19 DEF vars
<1> QED
  BY <1>1, <1>2, <1>3, <1>4, <1>5, <1>6, <1>7, <1>8, <1>9, <1>10, <1>11,
     <1>12, <1>13, <1>14, <1>15, <1>16, <1>17, <1>18, <1>19
  DEF Next, LoopStep, SelfCall, Remote

\* If the loop thread does not call queueInLoop outside loop(), the loop
\* never sleeps on a pending functor without a wakeup written or on its way.
THEOREM WakeupCorrect == ASSUME ~QueueBeforeLoop PROVE Spec => []NoLostWakeup
<1>1. Init => NoLostWakeup
  BY DEF Init, NoLostWakeup
<1>2. TypeOK /\ NoLostWakeup /\ [Next]_vars => NoLostWakeup'
  BY NextNoLostWakeup
<1> QED
  BY <1>1, <1>2, TypeCorrect, PTL DEF Spec

-----------------------------------------------------------------------------
\* The head and the tail of a concatenation whose first part is not empty.
LEMMA HeadTailOfConcat ==
  ASSUME NEW S, NEW q \in Seq(S), NEW r \in Seq(S), q # <<>>
  PROVE  /\ q \o r # <<>>
         /\ Head(q \o r) = Head(q)
         /\ Tail(q \o r) = Tail(q) \o r
<1>1. Len(q) \in Nat /\ Len(q) > 0 /\ Len(r) \in Nat
  OBVIOUS
<1>2. q \o r \in Seq(S) /\ Len(q \o r) = Len(q) + Len(r)
  OBVIOUS
<1>3. q \o r # <<>> /\ Head(q \o r) = Head(q)
  BY <1>1, <1>2
<1>4. Tail(q) \in Seq(S) /\ Len(Tail(q)) = Len(q) - 1
  BY HeadTailProperties
<1>5. Tail(q \o r) \in Seq(S) /\ Len(Tail(q \o r)) = Len(q) + Len(r) - 1
  BY <1>2, <1>3, HeadTailProperties
<1>6. Tail(q) \o r \in Seq(S) /\ Len(Tail(q) \o r) = Len(q) - 1 + Len(r)
  BY <1>4
<1>7. ASSUME NEW i \in 1 .. Len(Tail(q \o r))
      PROVE  Tail(q \o r)[i] = (Tail(q) \o r)[i]
  <2>1. Tail(q \o r)[i] = (q \o r)[i + 1]
    BY <1>2, <1>3, <1>5, <1>7
  <2>2. CASE i <= Len(q) - 1
    BY <1>1, <1>4, <1>7, <2>1, <2>2
  <2>3. CASE i > Len(q) - 1
    BY <1>1, <1>4, <1>5, <1>7, <2>1, <2>3
  <2> QED
    BY <1>1, <1>5, <1>7, <2>2, <2>3
<1> QED
  BY <1>1, <1>3, <1>5, <1>6, <1>7, SeqEqual

\* A step of the reactor is a step of the executor or leaves it unchanged.
LEMMA StepRefines == TypeOK /\ [Next]_vars => [Executor!Next]_(Executor!vars)
<1> SUFFICES ASSUME TypeOK, [Next]_vars PROVE [Executor!Next]_(Executor!vars)
  OBVIOUS
<1> DEFINE waiting == functors \o pendingFunctors
<1>T. pendingFunctors \in Seq(Functors) /\ functors \in Seq(Functors)
  BY DEF TypeOK
<1>A. ASSUME NEW f \in Functors
      PROVE  Append(functors \o pendingFunctors, f)
               = functors \o Append(pendingFunctors, f)
  <2>1. /\ functors \o pendingFunctors \in Seq(Functors)
        /\ <<f>> \in Seq(Functors)
    BY <1>T, <1>A
  <2>2. Append(functors \o pendingFunctors, f)
          = (functors \o pendingFunctors) \o <<f>>
    BY <1>A, <2>1, AppendIsConcat
  <2>3. Append(pendingFunctors, f) = pendingFunctors \o <<f>>
    BY <1>A, <1>T, AppendIsConcat
  <2>4. (functors \o pendingFunctors) \o <<f>>
          = functors \o (pendingFunctors \o <<f>>)
    BY <1>T, <2>1, ConcatAssociative
  <2> QED
    BY <2>2, <2>3, <2>4
<1>1. CASE SwapFunctors
  <2>1. functors = <<>>
    BY <1>1 DEF SwapFunctors, TypeOK
  <2>2. <<>> \o pendingFunctors = pendingFunctors
        /\ pendingFunctors \o <<>> = pendingFunctors
    BY <1>T, ConcatEmptySeq
  <2> QED
    BY <1>1, <2>1, <2>2 DEF SwapFunctors, Executor!vars
<1>2. CASE CallFunctor
  <2>1. /\ waiting # <<>>
        /\ Head(waiting) = Head(functors)
        /\ Tail(waiting) = Tail(functors) \o pendingFunctors
    BY <1>2, <1>T, HeadTailOfConcat DEF CallFunctor
  <2>2. Executor!RunNext
    BY <1>2, <2>1 DEF CallFunctor, Executor!RunNext
  <2> QED
    BY <2>2 DEF Executor!Next
<1>3. ASSUME NEW f \in Functors, QueueInLoopSelf(f)
      PROVE  [Executor!Next]_(Executor!vars)
  <2>1. Append(functors \o pendingFunctors, f)
          = functors \o Append(pendingFunctors, f)
    BY <1>3, <1>A
  <2>2. Executor!Submit(f)
    BY <1>3, <2>1 DEF QueueInLoopSelf, loopVars, Executor!Submit
  <2> QED
    BY <1>3, <2>2 DEF Executor!Next
<1>4. ASSUME NEW t \in Threads, NEW f \in Functors, QueueInLoop(t, f)
      PROVE  [Executor!Next]_(Executor!vars)
  <2>1. Append(functors \o pendingFunctors, f)
          = functors \o Append(pendingFunctors, f)
    BY <1>4, <1>A
  <2>2. Executor!Submit(f)
    BY <1>4, <2>1 DEF QueueInLoop, loopVars, Executor!Submit
  <2> QED
    BY <1>4, <2>2 DEF Executor!Next
<1>5. ASSUME NEW f \in Functors, RunInLoopSelf(f)
      PROVE  [Executor!Next]_(Executor!vars)
  BY <1>5 DEF RunInLoopSelf, loopVars, Executor!Next, Executor!RunAtOnce
<1>6. ASSUME UNCHANGED <<functors, pendingFunctors, ran, inlined>>
      PROVE  [Executor!Next]_(Executor!vars)
  BY <1>6 DEF Executor!vars
<1> QED
  BY <1>1, <1>2, <1>3, <1>4, <1>5, <1>6
  DEF Next, LoopStep, SelfCall, Remote, Loop, ResetQuit, Exit, EnterPoll,
      DispatchIo, HandleRead, EndHandling, EndFunctors, UserReturns,
      PollReturns, QuitSelf, WakeupBy, Quit, vars, loopVars

\* The reactor implements the serial executor it promises to its callers.
THEOREM RefinesSerialExecutor == Spec => ImplementsSerialExecutor
<1>1. Init => Executor!Init
  BY ConcatEmptySeq DEF Init, Executor!Init
<1> QED
  BY <1>1, StepRefines, TypeCorrect, PTL
  DEF Spec, ImplementsSerialExecutor, Executor!Spec
-----------------------------------------------------------------------------
(* EventLoopThread *)

\* Whatever the owner and the I/O thread do is a step of the loop, or leaves it
\* alone.
LEMMA ThreadStepsAreLoopSteps == [TNext]_allVars => [Next]_vars
<1> SUFFICES ASSUME [TNext]_allVars PROVE [Next]_vars
  OBVIOUS
<1>1. CASE RunLoop \/ IoLoopStep
  BY <1>1 DEF RunLoop, IoLoopStep, Next
<1>2. CASE IoUserCall
  BY <1>2 DEF IoUserCall, Next, SelfCall
<1>3. ASSUME NEW A \in SUBSET (Channels \cup {Wakeup}), IoPoll(A) PROVE [Next]_vars
  BY <1>3 DEF IoPoll, Next
<1>4. CASE OwnerQueues \/ DestroyQuit \/ DestroyWakeup
  BY <1>4, OwnerAssumption DEF OwnerQueues, DestroyQuit, DestroyWakeup, Next, Remote
<1>5. CASE UNCHANGED vars
  BY <1>5
<1> QED
  BY <1>1, <1>2, <1>3, <1>4, <1>5
  DEF TNext, IoStep, OwnerStep, StartLoop, StartFails, LatchReturns, CheckLoop,
      SpuriousWakeup, CountDown, Publish, ClearLoop, ThreadExits, DestroyUnstarted,
      Join, allVars

\* How far the two threads are from each other.  loop_ is set exactly while the
\* I/O thread is between its two assignments, the latch is counted down by the
\* new thread, and the loop is not told to quit before the destructor: until
\* then the thread does not leave it.
InStep ==
  /\ latch = IF io \in {"unborn", "born"} THEN 1 ELSE 0
  /\ loopPtr <=> io \in {"loop", "looping", "left"}
  /\ pc # "idle" => io = "looping"
  /\ owner = "fresh" => io = "unborn"
  /\ io = "unborn" => owner \in {"fresh", "check", "waiting", "done"}
  /\ owner \in {"fresh", "latch", "check", "waiting", "started"} =>
       ~quit /\ io \notin {"left", "cleared", "exited"}
  /\ owner = "started" => io \in {"loop", "looping"}
  /\ owner = "done" => io \in {"unborn", "exited"}

ThreadIInv == TTypeOK /\ InStep

\* Every step of the owner or of the I/O thread keeps them in step.
LEMMA NextThreadIInv == ThreadIInv /\ [TNext]_allVars => ThreadIInv'
<1> SUFFICES ASSUME ThreadIInv, [TNext]_allVars PROVE ThreadIInv'
  OBVIOUS
<1>T. TypeOK' /\ TypeOK
  BY NextTypeOK, ThreadStepsAreLoopSteps DEF ThreadIInv, TTypeOK
<1> USE DEF ThreadIInv, TTypeOK, InStep, vars, loopVars, threadVars
<1>1. CASE StartLoop \/ StartFails \/ LatchReturns \/ CheckLoop \/ SpuriousWakeup
  BY <1>1, <1>T DEF StartLoop, StartFails, LatchReturns, CheckLoop, SpuriousWakeup
<1>2. CASE CountDown
  BY <1>2, <1>T DEF CountDown
<1>11. CASE Publish
  BY <1>11, <1>T DEF Publish
<1>12. CASE ClearLoop
  <2>1. ~loopPtr' /\ loopPtr' \in BOOLEAN
    BY <1>12, Zenon DEF ClearLoop
  <2>2. io = "left" /\ io' = "cleared" /\ UNCHANGED <<pc, quit, owner, latch>>
    BY <1>12 DEF ClearLoop
  <2> QED
    BY <1>T, <2>1, <2>2
<1>13. CASE ThreadExits
  BY <1>13, <1>T DEF ThreadExits
<1>3. CASE RunLoop
  BY <1>3, <1>T DEF RunLoop, Loop
<1>4. CASE IoLoopStep
  <2>1. quit' = quit \/ ~quit'
    BY <1>4 DEF IoLoopStep, LoopStep, ResetQuit, Exit, EnterPoll, DispatchIo, HandleRead,
       EndHandling, SwapFunctors, CallFunctor, EndFunctors, UserReturns
  <2>2. pc' = "idle" => quit
    BY <1>4, <1>T DEF IoLoopStep, LoopStep, ResetQuit, Exit, EnterPoll, DispatchIo, HandleRead,
       EndHandling, SwapFunctors, CallFunctor, EndFunctors, UserReturns, TypeOK
  <2> QED
    BY <1>4, <1>T, <2>1, <2>2 DEF IoLoopStep
<1>5. CASE IoUserCall
  BY <1>5, <1>T DEF IoUserCall, QueueInLoopSelf, RunInLoopSelf
<1>6. ASSUME NEW A \in SUBSET (Channels \cup {Wakeup}), IoPoll(A) PROVE ThreadIInv'
  BY <1>6, <1>T DEF IoPoll, PollReturns
<1>7. CASE OwnerQueues
  BY <1>7, <1>T DEF OwnerQueues, WakeupBy, QueueInLoop
<1>8. CASE DestroyQuit \/ DestroyWakeup
  BY <1>8, <1>T DEF DestroyQuit, DestroyWakeup, Quit, WakeupBy
<1>9. CASE DestroyUnstarted \/ Join
  BY <1>9, <1>T DEF DestroyUnstarted, Join
<1>10. CASE UNCHANGED allVars
  BY <1>10, <1>T DEF allVars
<1> QED
  BY <1>1, <1>2, <1>3, <1>4, <1>5, <1>6, <1>7, <1>8, <1>9, <1>10, <1>11, <1>12, <1>13
  DEF TNext, IoStep, OwnerStep

\* startLoop hands out a loop that is initialised and stays alive until the
\* destructor quits it, and the destructor of a started thread returns only when
\* the thread has ended.
THEOREM ThreadCorrect == TSpec => []ThreadInv
<1>1. TInit => ThreadIInv
  <2> SUFFICES ASSUME TInit PROVE ThreadIInv
    OBVIOUS
  <2>1. TypeOK
    BY InitTypeOK DEF TInit
  <2>2. pc = "idle" /\ ~quit /\ ~loopPtr /\ loopPtr \in BOOLEAN
    BY Zenon DEF TInit, Init
  <2> QED
    BY <2>1, <2>2 DEF TInit, ThreadIInv, TTypeOK, InStep
<1>2. ThreadIInv => ThreadInv
  BY DEF ThreadIInv, InStep, ThreadInv, StartedLoopIsAlive, DestroyedAfterThread, LoopAlive
<1> QED
  BY <1>1, <1>2, NextThreadIInv, PTL DEF TSpec

\* The loop of an EventLoopThread behaves as EventLoop says, from its
\* construction before startLoop's init callback to its end, so every functor the
\* owner or the thread queues in it is run at most once and in order.
THEOREM ThreadRunsLoop == TSpec => [](TypeOK /\ FifoExactlyOnce)
<1>1. TSpec => Spec
  BY ThreadStepsAreLoopSteps, PTL DEF TSpec, TInit, Spec
<1> QED
  BY <1>1, TypeCorrect, FifoCorrect, PTL
=============================================================================
