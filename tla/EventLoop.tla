----------------------------- MODULE EventLoop -----------------------------
(***************************************************************************)
(* The reactor of net/eventloop.{h,cpp}: one thread (the loop thread)      *)
(* executes loop(), any thread may call queueInLoop, runInLoop and quit.   *)
(*                                                                         *)
(* The loop thread's program counter:                                      *)
(*   idle    outside loop()           enter  between lines 106 and 107     *)
(*   test    at while (!quit_)        poll   inside poller_->poll          *)
(*   handle  dispatching channels     swap   doPendingFunctors before swap *)
(*   call    doPendingFunctors, running the swapped-out functors           *)
(*                                                                         *)
(* A critical section on mutex_ is one step.  A step of another thread     *)
(* ends at each shared effect: the push and the eventfd write are two      *)
(* steps, and so are the store to quit_ and the write.  quit_ is a plain   *)
(* bool; it is reread after every poll() and no compiler may cache it      *)
(* across that call, so it is modelled as an atomic variable.              *)
(*                                                                         *)
(* The eventfd counter is abstracted to "readable": one read takes the     *)
(* whole counter (no EFD_SEMAPHORE).                                       *)
(***************************************************************************)
EXTENDS Sequences, Naturals

CONSTANTS
  Threads,          \* threads other than the loop thread
  Functors,         \* each functor is submitted at most once
  Channels,         \* I/O channels registered with the poller
  Wakeup,           \* wakeupChannel_
  QueueBeforeLoop   \* may the loop thread call queueInLoop outside loop()?

ASSUME WakeupAssumption == Wakeup \notin Channels
ASSUME QueueBeforeLoopAssumption == QueueBeforeLoop \in BOOLEAN

VARIABLES
  pc,                      \* where the loop thread is
  inUser,                  \* the loop thread is executing user code
  looping,                 \* looping_
  quit,                    \* quit_
  callingPendingFunctors,  \* callingPendingFunctors_
  pendingFunctors,         \* pendingFunctors_, guarded by mutex_
  functors,                \* the local vector of doPendingFunctors, not yet run
  active,                  \* activeChannels_ not yet dispatched
  wakeupFd,                \* wakeupFd_ is readable
  call,                    \* where each other thread is
  queued,                  \* history: functors in the order of their push
  ran,                     \* history: functors run by doPendingFunctors
  inlined                  \* history: functors run inside runInLoop

loopVars == <<pc, inUser, looping, callingPendingFunctors, functors, active>>
vars == <<loopVars, quit, pendingFunctors, wakeupFd, call, queued, ran, inlined>>

Elements(s) == {s[i] : i \in DOMAIN s}

Fresh(f) == f \notin Elements(queued) \cup inlined

\* The EventLoop constructor: nothing pending, the wakeup channel enabled.
Init ==
  /\ pc = "idle" /\ inUser = TRUE
  /\ looping = FALSE /\ quit = FALSE /\ callingPendingFunctors = FALSE
  /\ pendingFunctors = <<>> /\ functors = <<>>
  /\ active = {}
  /\ wakeupFd = FALSE
  /\ call = [t \in Threads |-> "idle"]
  /\ queued = <<>> /\ ran = <<>> /\ inlined = {}

-----------------------------------------------------------------------------
(* The loop thread inside loop() *)

\* loop(), up to looping_ = true.
Loop ==
  /\ pc = "idle" /\ ~looping
  /\ looping' = TRUE
  /\ pc' = "enter" /\ inUser' = FALSE
  /\ UNCHANGED <<quit, callingPendingFunctors, pendingFunctors, functors,
                 active, wakeupFd, call, queued, ran, inlined>>

\* quit_ = false
ResetQuit ==
  /\ pc = "enter"
  /\ quit' = FALSE
  /\ pc' = "test"
  /\ UNCHANGED <<inUser, looping, callingPendingFunctors, pendingFunctors,
                 functors, active, wakeupFd, call, queued, ran, inlined>>

\* while (!quit_) fails: loop() returns to its caller.
Exit ==
  /\ pc = "test" /\ quit
  /\ looping' = FALSE
  /\ pc' = "idle" /\ inUser' = TRUE
  /\ UNCHANGED <<quit, callingPendingFunctors, pendingFunctors, functors,
                 active, wakeupFd, call, queued, ran, inlined>>

\* while (!quit_) holds: clear the list of active channels and poll.
EnterPoll ==
  /\ pc = "test" /\ ~quit
  /\ active' = {}
  /\ pc' = "poll"
  /\ UNCHANGED <<inUser, looping, quit, callingPendingFunctors, pendingFunctors,
                 functors, wakeupFd, call, queued, ran, inlined>>

\* poll() returns with the channels A: any I/O channels, and the wakeup
\* channel only if its descriptor is readable.  A full event list may leave
\* ready channels for the next call; a timeout or EINTR leaves A empty.
PollReturns(A) ==
  /\ pc = "poll"
  /\ Wakeup \in A => wakeupFd
  /\ active' = A
  /\ pc' = "handle"
  /\ UNCHANGED <<inUser, looping, quit, callingPendingFunctors, pendingFunctors,
                 functors, wakeupFd, call, queued, ran, inlined>>

\* handleEvent on an I/O channel enters user code.
DispatchIo(c) ==
  /\ pc = "handle" /\ ~inUser /\ c \in active \cap Channels
  /\ active' = active \ {c}
  /\ inUser' = TRUE
  /\ UNCHANGED <<pc, looping, quit, callingPendingFunctors, pendingFunctors,
                 functors, wakeupFd, call, queued, ran, inlined>>

\* handleEvent on the wakeup channel: handleRead empties the eventfd.
HandleRead ==
  /\ pc = "handle" /\ ~inUser /\ Wakeup \in active
  /\ active' = active \ {Wakeup}
  /\ wakeupFd' = FALSE
  /\ UNCHANGED <<pc, inUser, looping, quit, callingPendingFunctors,
                 pendingFunctors, functors, call, queued, ran, inlined>>

\* All channels handled: doPendingFunctors is entered and raises its flag.
EndHandling ==
  /\ pc = "handle" /\ ~inUser /\ active = {}
  /\ callingPendingFunctors' = TRUE
  /\ pc' = "swap"
  /\ UNCHANGED <<inUser, looping, quit, pendingFunctors, functors, active,
                 wakeupFd, call, queued, ran, inlined>>

\* MUTANT of SwapFunctors: the batch is copied, not swapped out.
SwapKeepsPending ==
  /\ pc = "swap"
  /\ functors' = pendingFunctors
  /\ pc' = "call"
  /\ UNCHANGED <<inUser, looping, quit, callingPendingFunctors, pendingFunctors,
                 active, wakeupFd, call, queued, ran, inlined>>

\* functors.swap(pendingFunctors_) under the lock.
SwapFunctors ==
  /\ pc = "swap"
  /\ functors' = pendingFunctors
  /\ pendingFunctors' = <<>>
  /\ pc' = "call"
  /\ UNCHANGED <<inUser, looping, quit, callingPendingFunctors, active,
                 wakeupFd, call, queued, ran, inlined>>

\* MUTANT of CallFunctor: the batch is run from its end.
CallLastFunctor ==
  /\ pc = "call" /\ ~inUser /\ functors # <<>>
  /\ ran' = Append(ran, functors[Len(functors)])
  /\ functors' = SubSeq(functors, 1, Len(functors) - 1)
  /\ inUser' = TRUE
  /\ UNCHANGED <<pc, looping, quit, callingPendingFunctors, pendingFunctors,
                 active, wakeupFd, call, queued, inlined>>

\* functors[i]()
CallFunctor ==
  /\ pc = "call" /\ ~inUser /\ functors # <<>>
  /\ ran' = Append(ran, Head(functors))
  /\ functors' = Tail(functors)
  /\ inUser' = TRUE
  /\ UNCHANGED <<pc, looping, quit, callingPendingFunctors, pendingFunctors,
                 active, wakeupFd, call, queued, inlined>>

\* MUTANT of EndFunctors: the flag is left up.
EndFunctorsKeepsFlag ==
  /\ pc = "call" /\ ~inUser /\ functors = <<>>
  /\ pc' = "test"
  /\ UNCHANGED <<inUser, looping, quit, callingPendingFunctors, pendingFunctors,
                 functors, active, wakeupFd, call, queued, ran, inlined>>

\* The batch is done: lower the flag and go round the loop.
EndFunctors ==
  /\ pc = "call" /\ ~inUser /\ functors = <<>>
  /\ callingPendingFunctors' = FALSE
  /\ pc' = "test"
  /\ UNCHANGED <<inUser, looping, quit, pendingFunctors, functors, active,
                 wakeupFd, call, queued, ran, inlined>>

\* The callback returns to loop() or doPendingFunctors().
UserReturns ==
  /\ inUser /\ pc \in {"handle", "call"}
  /\ inUser' = FALSE
  /\ UNCHANGED <<pc, looping, quit, callingPendingFunctors, pendingFunctors,
                 functors, active, wakeupFd, call, queued, ran, inlined>>

-----------------------------------------------------------------------------
(* Calls that user code makes on the loop thread *)

\* MUTANT of WakesItself: queueInLoop without "|| callingPendingFunctors_".
NeverWakesItself == FALSE

\* !isInLoopThread() || callingPendingFunctors_, on the loop thread.
WakesItself == callingPendingFunctors

\* queueInLoop on the loop thread.
QueueInLoopSelf(f) ==
  /\ inUser /\ Fresh(f)
  /\ pc = "idle" => QueueBeforeLoop
  /\ pendingFunctors' = Append(pendingFunctors, f)
  /\ queued' = Append(queued, f)
  /\ wakeupFd' = (wakeupFd \/ WakesItself)
  /\ UNCHANGED <<loopVars, quit, call, ran, inlined>>

\* runInLoop on the loop thread runs the functor at once.
RunInLoopSelf(f) ==
  /\ inUser /\ Fresh(f)
  /\ inlined' = inlined \cup {f}
  /\ UNCHANGED <<loopVars, quit, pendingFunctors, wakeupFd, call, queued, ran>>

\* quit on the loop thread: no wakeup is needed.
QuitSelf ==
  /\ inUser
  /\ quit' = TRUE
  /\ UNCHANGED <<loopVars, pendingFunctors, wakeupFd, call, queued, ran, inlined>>

-----------------------------------------------------------------------------
(* Calls that other threads make *)

\* MUTANT of QueueInLoop: the push is not followed by a wakeup.
QueueInLoopNoWakeup(t, f) ==
  /\ call[t] = "idle" /\ Fresh(f)
  /\ pendingFunctors' = Append(pendingFunctors, f)
  /\ queued' = Append(queued, f)
  /\ UNCHANGED <<loopVars, quit, wakeupFd, call, ran, inlined>>

\* queueInLoop, or runInLoop which forwards to it: the push under the lock.
QueueInLoop(t, f) ==
  /\ call[t] = "idle" /\ Fresh(f)
  /\ pendingFunctors' = Append(pendingFunctors, f)
  /\ queued' = Append(queued, f)
  /\ call' = [call EXCEPT ![t] = "pushed"]
  /\ UNCHANGED <<loopVars, quit, wakeupFd, ran, inlined>>

\* MUTANT of Quit: quit_ is set and nobody is woken.
QuitWithoutWakeup(t) ==
  /\ call[t] = "idle"
  /\ quit' = TRUE
  /\ UNCHANGED <<loopVars, pendingFunctors, wakeupFd, call, queued, ran, inlined>>

\* quit_ = true
Quit(t) ==
  /\ call[t] = "idle"
  /\ quit' = TRUE
  /\ call' = [call EXCEPT ![t] = "quitting"]
  /\ UNCHANGED <<loopVars, pendingFunctors, wakeupFd, queued, ran, inlined>>

\* wakeup(), the second half of queueInLoop and of quit.
WakeupBy(t) ==
  /\ call[t] # "idle"
  /\ wakeupFd' = TRUE
  /\ call' = [call EXCEPT ![t] = "idle"]
  /\ UNCHANGED <<loopVars, quit, pendingFunctors, queued, ran, inlined>>

-----------------------------------------------------------------------------
\* Steps the loop thread takes on its own account once it is inside loop().
LoopStep ==
  \/ ResetQuit \/ Exit \/ EnterPoll
  \/ (\E c \in Channels : DispatchIo(c)) \/ HandleRead \/ EndHandling
  \/ SwapFunctors \/ CallFunctor \/ EndFunctors \/ UserReturns

SelfCall == QuitSelf \/ \E f \in Functors : QueueInLoopSelf(f) \/ RunInLoopSelf(f)

Remote(t) == WakeupBy(t) \/ Quit(t) \/ \E f \in Functors : QueueInLoop(t, f)

Next ==
  \/ Loop
  \/ LoopStep
  \/ \E A \in SUBSET (Channels \cup {Wakeup}) : PollReturns(A)
  \/ SelfCall
  \/ \E t \in Threads : Remote(t)

Spec == Init /\ [][Next]_vars

\* The loop thread keeps running and callbacks return; a started call reaches
\* its eventfd write; and a readable eventfd is not passed over for ever (the
\* kernel rotates its ready list).  Nothing is assumed about the 10 s timeout
\* of poll() or about I/O events: the loop may sleep for ever unless woken.
Fairness ==
  /\ WF_vars(LoopStep)
  /\ SF_vars(\E A \in SUBSET Channels : PollReturns(A \cup {Wakeup}))
  /\ \A t \in Threads : WF_vars(WakeupBy(t))

FairSpec == Spec /\ Fairness

-----------------------------------------------------------------------------
(* Properties *)

PcValues == {"idle", "enter", "test", "poll", "handle", "swap", "call"}

\* Types, and what loop()'s flags say about where the loop thread is.
TypeOK ==
  /\ pc \in PcValues
  /\ inUser \in BOOLEAN /\ looping \in BOOLEAN /\ quit \in BOOLEAN
  /\ callingPendingFunctors \in BOOLEAN /\ wakeupFd \in BOOLEAN
  /\ pendingFunctors \in Seq(Functors) /\ functors \in Seq(Functors)
  /\ queued \in Seq(Functors) /\ ran \in Seq(Functors) /\ inlined \in SUBSET Functors
  /\ active \in SUBSET (Channels \cup {Wakeup})
  /\ call \in [Threads -> {"idle", "pushed", "quitting"}]
  /\ looping <=> pc # "idle"
  /\ callingPendingFunctors <=> pc \in {"swap", "call"}
  /\ inUser => pc \in {"idle", "handle", "call"}
  /\ functors # <<>> => pc = "call"

\* Every functor pushed by queueInLoop is run at most once, in the order of
\* the pushes, whatever thread pushed it and whether it was pushed during a
\* batch, during I/O handling or while the loop slept; none is dropped.
FifoExactlyOnce == queued = ran \o functors \o pendingFunctors

\* No lost wakeup: while the loop is about to sleep or asleep in poll() with a
\* functor pending, its eventfd is readable or a thread that pushed is on its
\* way to write it.  (In handle and swap the batch will still be collected.)
NoLostWakeup ==
  pendingFunctors # <<>> /\ pc \notin {"handle", "swap"} =>
    wakeupFd \/ \E t \in Threads : call[t] = "pushed"

\* The loop implements the executor it promises to its callers.
Executor == INSTANCE SerialExecutor WITH waiting <- functors \o pendingFunctors
ImplementsSerialExecutor == Executor!Spec

\* A pending functor of a running loop is run, unless somebody quits the loop,
\* even if no I/O happens and poll() has no timeout.
PendingIsRun ==
  \A f \in Functors :
    (f \in Elements(queued) /\ pc # "idle") ~> (f \in Elements(ran) \/ pc = "idle")

\* quit() on a loop that has got past its own reset of quit_ ends loop().
QuitEndsLoop == (quit /\ pc \notin {"idle", "enter"}) ~> (pc = "idle")
=============================================================================
