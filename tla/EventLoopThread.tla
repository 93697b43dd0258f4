-------------------------- MODULE EventLoopThread --------------------------
(***************************************************************************)
(* net/eventloopthread.cpp with base/thread.cpp and                        *)
(* base/count_down_latch.cpp: an owner starts an I/O thread that builds an *)
(* EventLoop on its stack and runs it; the owner's destructor quits the    *)
(* loop and joins the thread.  The loop itself is the one of module        *)
(* EventLoop, whose only remote caller here is the owner (any other thread *)
(* of Threads stays idle).                                                 *)
(*                                                                         *)
(* Only the destructor quits the loop: with another quitter the destructor *)
(* races with the end of threadFunc, as its own comment says.  No callback *)
(* throws.                                                                 *)
(***************************************************************************)
EXTENDS EventLoop

CONSTANT Owner
ASSUME OwnerAssumption == Owner \in Threads

VARIABLES
  owner,     \* fresh latch check waiting started wakeup join done
  io,        \* unborn born callback loop looping left cleared exited
  latch,     \* count_ of Thread::latch_
  loopPtr    \* loop_ # NULL

threadVars == <<owner, io, latch, loopPtr>>
allVars == <<vars, threadVars>>

TInit ==
  /\ Init
  /\ owner = "fresh" /\ io = "unborn" /\ latch = 1 /\ loopPtr = FALSE

-----------------------------------------------------------------------------
(* startLoop, on the owner *)

\* thread_.start(): pthread_create, then latch_.wait().
StartLoop ==
  /\ owner = "fresh"
  /\ owner' = "latch" /\ io' = "born"
  /\ UNCHANGED <<vars, latch, loopPtr>>

\* pthread_create fails: started_ is reset, start() returns without a thread
\* and startLoop goes on to wait for a loop that nobody will publish.
StartFails ==
  /\ owner = "fresh"
  /\ owner' = "check"
  /\ UNCHANGED <<vars, io, latch, loopPtr>>

\* latch_.wait() returns.
LatchReturns ==
  /\ owner = "latch" /\ latch = 0
  /\ owner' = "check"
  /\ UNCHANGED <<vars, io, latch, loopPtr>>

\* while (loop_ == NULL) cond_.wait(), each test under the lock.
CheckLoop ==
  /\ owner = "check"
  /\ owner' = IF loopPtr THEN "started" ELSE "waiting"
  /\ UNCHANGED <<vars, io, latch, loopPtr>>

\* pthread_cond_wait may return without a signal.
SpuriousWakeup ==
  /\ owner = "waiting"
  /\ owner' = "check"
  /\ UNCHANGED <<vars, io, latch, loopPtr>>

-----------------------------------------------------------------------------
(* The I/O thread *)

\* ThreadData::runInThread counts the latch down, threadFunc builds the loop.
CountDown ==
  /\ io = "born"
  /\ latch' = latch - 1
  /\ io' = "callback"
  /\ UNCHANGED <<vars, owner, loopPtr>>

\* MUTANT of Publish: loop_ is set and the owner is not notified.
PublishSilently ==
  /\ io = "callback"
  /\ loopPtr' = TRUE
  /\ io' = "loop"
  /\ UNCHANGED <<vars, owner, latch>>

\* After callback_: loop_ = &loop and cond_.notify(), under the lock.
Publish ==
  /\ io = "callback"
  /\ loopPtr' = TRUE
  /\ owner' = IF owner = "waiting" THEN "check" ELSE owner
  /\ io' = "loop"
  /\ UNCHANGED <<vars, latch>>

\* loop.loop() is entered ...
RunLoop ==
  /\ io = "loop" /\ Loop
  /\ io' = "looping"
  /\ UNCHANGED <<owner, latch, loopPtr>>

\* ... takes its own steps ...
IoLoopStep ==
  /\ io = "looping" /\ LoopStep
  /\ io' = IF pc' = "idle" THEN "left" ELSE io
  /\ UNCHANGED <<owner, latch, loopPtr>>

IoPoll(A) == io = "looping" /\ PollReturns(A) /\ UNCHANGED threadVars

\* ... and runs user code, as callback_ did before it.
IoUserCall ==
  /\ io \in {"callback", "looping"}
  /\ \E f \in Functors : QueueInLoopSelf(f) \/ RunInLoopSelf(f)
  /\ UNCHANGED threadVars

\* loop_ = NULL
ClearLoop ==
  /\ io = "left"
  /\ loopPtr' = FALSE
  /\ io' = "cleared"
  /\ UNCHANGED <<vars, owner, latch>>

\* The loop on the stack is destroyed and the thread ends.
ThreadExits ==
  /\ io = "cleared"
  /\ io' = "exited"
  /\ UNCHANGED <<vars, owner, latch, loopPtr>>

-----------------------------------------------------------------------------
(* The owner uses the loop it got from startLoop, then destroys the object *)

OwnerQueues ==
  /\ owner = "started"
  /\ WakeupBy(Owner) \/ \E f \in Functors : QueueInLoop(Owner, f)
  /\ UNCHANGED threadVars

\* ~EventLoopThread: quit_ = true if loop_ is there, nothing otherwise.
DestroyQuit ==
  /\ owner \in {"fresh", "started"} /\ loopPtr
  /\ Quit(Owner)
  /\ owner' = "wakeup"
  /\ UNCHANGED <<io, latch, loopPtr>>

DestroyUnstarted ==
  /\ owner \in {"fresh", "started"} /\ call[Owner] = "idle" /\ ~loopPtr
  /\ owner' = "done"
  /\ UNCHANGED <<vars, io, latch, loopPtr>>

\* MUTANT of DestroyWakeup: loop_->quit() does not write the eventfd.
DestroyNoWakeup ==
  /\ owner = "wakeup"
  /\ call' = [call EXCEPT ![Owner] = "idle"]
  /\ owner' = "join"
  /\ UNCHANGED <<loopVars, quit, pendingFunctors, wakeupFd, queued, ran, inlined,
                 io, latch, loopPtr>>

\* The second half of loop_->quit().
DestroyWakeup ==
  /\ owner = "wakeup"
  /\ WakeupBy(Owner)
  /\ owner' = "join"
  /\ UNCHANGED <<io, latch, loopPtr>>

\* MUTANT of Join: it waits for loop_ to become NULL, not for the thread's end.
JoinOnNull ==
  /\ owner = "join" /\ ~loopPtr
  /\ owner' = "done"
  /\ UNCHANGED <<vars, io, latch, loopPtr>>

\* thread_.join()
Join ==
  /\ owner = "join" /\ io = "exited"
  /\ owner' = "done"
  /\ UNCHANGED <<vars, io, latch, loopPtr>>

-----------------------------------------------------------------------------
IoStep == CountDown \/ Publish \/ RunLoop \/ IoLoopStep \/ ClearLoop \/ ThreadExits

OwnerStep == LatchReturns \/ CheckLoop \/ DestroyWakeup \/ Join

TNext ==
  \/ StartLoop \/ StartFails \/ SpuriousWakeup \/ OwnerStep \/ OwnerQueues
  \/ DestroyQuit \/ DestroyUnstarted
  \/ IoStep \/ IoUserCall
  \/ \E A \in SUBSET (Channels \cup {Wakeup}) : IoPoll(A)

\* Both threads keep running, callbacks return, a readable eventfd is reported;
\* no fairness for spurious wakeups, for poll timeouts or for the destructor.
TFairness ==
  /\ WF_allVars(IoStep)
  /\ WF_allVars(OwnerStep)
  /\ WF_allVars(owner = "started" /\ WakeupBy(Owner) /\ UNCHANGED threadVars)
  /\ SF_allVars(\E A \in SUBSET Channels : IoPoll(A \cup {Wakeup}))

TSpec == TInit /\ [][TNext]_allVars /\ TFairness

-----------------------------------------------------------------------------
(* Properties *)

\* Types, with the loop's own invariant.
TTypeOK ==
  /\ TypeOK
  /\ owner \in {"fresh", "latch", "check", "waiting", "started", "wakeup", "join", "done"}
  /\ io \in {"unborn", "born", "callback", "loop", "looping", "left", "cleared", "exited"}
  /\ latch \in 0..1 /\ loopPtr \in BOOLEAN

LoopAlive == io \in {"callback", "loop", "looping", "left", "cleared"}

\* startLoop returns only when the loop exists and its init callback has run,
\* and the loop stays alive until the destructor quits it.
StartedLoopIsAlive == owner = "started" => loopPtr /\ LoopAlive /\ io # "callback"

\* When the destructor of a started object is done, the thread has ended: it
\* no longer touches the members of EventLoopThread.
DestroyedAfterThread == owner = "done" => io \in {"unborn", "exited"}

\* The types, what startLoop promises, and what the destructor does.
ThreadInv == TTypeOK /\ StartedLoopIsAlive /\ DestroyedAfterThread

\* Once the thread is created startLoop returns, without any help from spurious
\* wakeups.
StartLoopReturns == (owner = "latch") ~> (owner = "started")

\* Once the loop is past its reset of quit_, the destructor terminates.
DestructorReturnsFromLoop ==
  (owner = "wakeup" /\ quit /\ pc \notin {"idle", "enter"}) ~> (owner = "done")

\* "quit the I/O thread: make its loop end, and so the thread": the destructor
\* of a started object terminates.
DestructorReturns == (owner = "wakeup") ~> (owner = "done")
=============================================================================
