----------------------------- MODULE TimerQueue -----------------------------
(***************************************************************************)
(* net/timerqueue.{h,cpp} with net/timer.{h,cpp} and net/timerid.h: the    *)
(* timers of one EventLoop, kept twice (timers_ by expiration,             *)
(* activeTimers_ by address) behind one timerfd.                           *)
(*                                                                         *)
(* Timers live in a heap whose addresses are reused after delete; a        *)
(* TimerId is the pair <<address, sequence>>.  Calls on the loop thread    *)
(* take effect at once (runInLoop), calls of other threads go through the  *)
(* loop's FIFO of functors, ops.                                           *)
(*                                                                         *)
(* Time is a discrete clock; the 100 us floor of howMuchTimeFromNow is one *)
(* tick.  A positive interval may still be zero ticks (addTime truncates   *)
(* to microseconds), hence repeat and delta are separate fields.  A failed *)
(* assert in getExpired ends the process: phase "aborted".  The queue goes *)
(* with its EventLoop, after loop() has returned: phase "gone".            *)
(*                                                                         *)
(* Bounds: MaxClock, MaxTimers, MaxOps.                                    *)
(***************************************************************************)
EXTENDS Naturals, Sequences

CONSTANTS
  Addrs,       \* addresses operator new may return (naturals above 0)
  Sentry,      \* the pointer of getExpired's sentry, "UINTPTR_MAX"
  Whens,       \* expirations users ask for
  Deltas,      \* intervals of periodic timers, in ticks
  MaxClock, MaxTimers, MaxOps

\* No timer is at the sentry's address 2^32 - 1, which is odd.
ASSUME TimerConstants ==
  /\ Addrs \subseteq Nat \ {0} /\ Whens \subseteq Nat /\ Deltas \subseteq Nat
  /\ Sentry \in Nat \ Addrs
  /\ MaxClock \in Nat \ {0} /\ MaxTimers \in Nat \ {0} /\ MaxOps \in Nat \ {0}

VARIABLES
  heap,             \* heap[a].seq = 0 when a is not allocated
  created,          \* Timer::s_numCreated_
  timers,           \* timers_: pairs <<expiration, address>>
  activeTimers,     \* activeTimers_: pairs <<address, sequence>>
  cancelingTimers,  \* cancelingTimers_
  phase,            \* idle, reported (timerfd in activeChannels_), calling, aborted, gone
  expired,          \* the batch of handleRead, as timers_ entries
  toRun,            \* the part of the batch whose callbacks have not started
  now,              \* handleRead's time stamp
  clock, armed,     \* the time, and when timerfd_ expires (0: disarmed)
  ops,              \* functors other threads queued: adds and cancels
  returning,        \* addTimer calls of other threads that have not returned
  ids,              \* TimerIds the users hold
  doomed            \* history: ids cancelled after their insertion

queueVars == <<timers, activeTimers, cancelingTimers>>
batchVars == <<phase, expired, toRun, now>>
userVars == <<ops, returning, ids>>
vars == <<heap, created, queueVars, batchVars, clock, armed, userVars, doomed>>

\* The process runs and the queue exists.
Alive == phase \notin {"aborted", "gone"}

Free == [seq |-> 0, exp |-> 0, repeat |-> FALSE, delta |-> 0]

\* What the users can ask addTimer for: one-shot or periodic.
Kinds == {[repeat |-> FALSE, delta |-> 0]} \cup [repeat : {TRUE}, delta : Deltas]

\* Timer's constructor.
NewTimer(when, k) ==
  [seq |-> created + 1, exp |-> when, repeat |-> k.repeat, delta |-> k.delta]

Id(a) == <<a, heap[a].seq>>
Addresses(entries) == {e[2] : e \in entries}
MinExp(entries) == CHOOSE w \in {e[1] : e \in entries} : \A e \in entries : w <= e[1]
Before(d, e) == d[1] < e[1] \/ (d[1] = e[1] /\ d[2] < e[2])

Init ==
  /\ heap = [a \in Addrs |-> Free] /\ created = 0
  /\ timers = {} /\ activeTimers = {} /\ cancelingTimers = {}
  /\ phase = "idle" /\ expired = {} /\ toRun = {} /\ now = 1
  /\ clock = 1 /\ armed = 0
  /\ ops = <<>> /\ returning = {} /\ ids = {} /\ doomed = {}

-----------------------------------------------------------------------------
(* timerfd_ *)

\* howMuchTimeFromNow and resetTimerfd: never less than one tick ahead.
ResetTimerfd(exp) == IF exp < clock + 1 THEN clock + 1 ELSE exp

\* At the horizon MaxClock the clock stands for all later times.
Readable == armed # 0 /\ (armed <= clock \/ clock = MaxClock)

Tick ==
  /\ Alive /\ clock < MaxClock
  /\ clock' = clock + 1
  /\ UNCHANGED <<heap, created, queueVars, batchVars, armed, userVars, doomed>>

\* The poller puts timerfdChannel_ on the list of active channels.
PollTimerfd ==
  /\ phase = "idle" /\ Readable
  /\ phase' = "reported"
  /\ UNCHANGED <<heap, created, queueVars, expired, toRun, now, clock, armed,
                 userVars, doomed>>

-----------------------------------------------------------------------------
(* The functors of addTimer and cancel *)

\* MUTANT of EarliestChanged: only the first timer arms the timerfd.
OnlyFirstArms(when) == timers = {}

\* insert's verdict: the timer is the earliest.
EarliestChanged(when) == timers = {} \/ when < MinExp(timers)

\* addTimerInLoop with insert, for the timer t at address a.
AddTimerInLoop(a, t) ==
  /\ timers' = timers \cup {<<t.exp, a>>}
  /\ activeTimers' = activeTimers \cup {<<a, t.seq>>}
  /\ armed' = IF EarliestChanged(t.exp) THEN ResetTimerfd(t.exp) ELSE armed

\* MUTANT of CancelInLoop: a timer is looked up by its address alone.
CancelInLoopByAddress(id) ==
  IF \E n \in 1..MaxTimers : <<id[1], n>> \in activeTimers
    THEN /\ timers' = timers \ {<<heap[id[1]].exp, id[1]>>}
         /\ activeTimers' = activeTimers \ {Id(id[1])}
         /\ heap' = [heap EXCEPT ![id[1]] = Free]
         /\ doomed' = doomed \cup {id}
         /\ UNCHANGED cancelingTimers
    ELSE /\ cancelingTimers' =
              IF phase = "calling" THEN cancelingTimers \cup {id} ELSE cancelingTimers
         /\ doomed' = IF id[1] \in Addresses(expired) THEN doomed \cup {id} ELSE doomed
         /\ UNCHANGED <<timers, activeTimers, heap>>

\* cancelInLoop: an active timer is deleted; a timer that may be in the batch
\* being run is remembered for reset.
CancelInLoop(id) ==
  IF id \in activeTimers
    THEN /\ timers' = timers \ {<<heap[id[1]].exp, id[1]>>}
         /\ activeTimers' = activeTimers \ {id}
         /\ heap' = [heap EXCEPT ![id[1]] = Free]
         /\ doomed' = doomed \cup {id}
         /\ UNCHANGED cancelingTimers
    ELSE /\ cancelingTimers' =
              IF phase = "calling" THEN cancelingTimers \cup {id} ELSE cancelingTimers
         /\ doomed' = IF id \in {Id(a) : a \in Addresses(expired)}
                        THEN doomed \cup {id} ELSE doomed
         /\ UNCHANGED <<timers, activeTimers, heap>>

-----------------------------------------------------------------------------
(* Calls on the loop thread: from functors, from callbacks of channels        *)
(* dispatched before timerfdChannel_, and from timer callbacks.               *)

InUser == phase \in {"idle", "reported"} \/ (phase = "calling" /\ toRun # expired)

AddTimer(a, when, k) ==
  /\ InUser /\ created < MaxTimers /\ heap[a] = Free
  /\ LET t == NewTimer(when, k) IN
       /\ heap' = [heap EXCEPT ![a] = t]
       /\ AddTimerInLoop(a, t)
       /\ ids' = ids \cup {<<a, t.seq>>}
  /\ created' = created + 1
  /\ UNCHANGED <<cancelingTimers, batchVars, clock, ops, returning, doomed>>

Cancel(id) ==
  /\ InUser
  /\ CancelInLoop(id)
  /\ UNCHANGED <<created, batchVars, clock, armed, userVars>>

-----------------------------------------------------------------------------
(* Calls of other threads *)

\* addTimer up to runInLoop: the functor is queued.
RemoteAddTimer(a, when, k) ==
  /\ Alive /\ created < MaxTimers /\ heap[a] = Free /\ Len(ops) < MaxOps
  /\ LET t == NewTimer(when, k) IN
       /\ heap' = [heap EXCEPT ![a] = t]
       /\ returning' = returning \cup {<<a, t.seq>>}
  /\ created' = created + 1
  /\ ops' = Append(ops, [op |-> "add", addr |-> a, seq |-> created + 1])
  /\ UNCHANGED <<queueVars, batchVars, clock, armed, ids, doomed>>

\* return TimerId(timer, timer->sequence()): a read through the pointer after
\* the timer was handed over; freed memory yields anything.
RemoteAddReturns(r) ==
  /\ phase # "aborted" /\ r \in returning
  /\ returning' = returning \ {r}
  /\ \E n \in IF heap[r[1]] = Free THEN 0..MaxTimers ELSE {heap[r[1]].seq} :
       ids' = ids \cup {<<r[1], n>>}
  /\ UNCHANGED <<heap, created, queueVars, batchVars, clock, armed, ops, doomed>>

RemoteCancel(id) ==
  /\ Alive /\ Len(ops) < MaxOps
  /\ ops' = Append(ops, [op |-> "cancel", addr |-> id[1], seq |-> id[2]])
  /\ UNCHANGED <<heap, created, queueVars, batchVars, clock, armed, returning, ids, doomed>>

\* doPendingFunctors runs the oldest functor.
RunOp ==
  /\ phase = "idle" /\ ops # <<>>
  /\ LET o == Head(ops) IN
       \/ /\ o.op = "add"
          /\ AddTimerInLoop(o.addr, heap[o.addr])
          /\ UNCHANGED <<heap, cancelingTimers, doomed>>
       \/ /\ o.op = "cancel"
          /\ CancelInLoop(<<o.addr, o.seq>>)
          /\ UNCHANGED armed
  /\ ops' = Tail(ops)
  /\ UNCHANGED <<created, batchVars, clock, returning, ids>>

-----------------------------------------------------------------------------
(* handleRead *)

\* timers_.begin() .. timers_.lower_bound(Entry(t, Sentry))
GetExpired(t) == {e \in timers : Before(e, <<t, Sentry>>)}

\* readTimerfd and getExpired; the assert says nothing due was left behind.
HandleRead ==
  /\ phase = "reported"
  /\ now' = clock
  /\ armed' = IF Readable THEN 0 ELSE armed
  /\ LET due == GetExpired(clock) IN
       \/ /\ \E e \in timers \ due : e[1] <= clock
          /\ phase' = "aborted"
          /\ UNCHANGED <<queueVars, expired, toRun>>
       \/ /\ \A e \in timers \ due : e[1] > clock
          /\ phase' = "calling"
          /\ expired' = due /\ toRun' = due
          /\ timers' = timers \ due
          /\ activeTimers' = activeTimers \ {Id(a) : a \in Addresses(due)}
          /\ cancelingTimers' = {}
  /\ UNCHANGED <<heap, created, clock, userVars, doomed>>

\* it->second->run(), in the order of the set.
RunTimer ==
  /\ phase = "calling"
  /\ \E e \in toRun :
       /\ \A d \in toRun : d = e \/ Before(e, d)
       /\ toRun' = toRun \ {e}
  /\ UNCHANGED <<heap, created, queueVars, phase, expired, now, clock, armed,
                 userVars, doomed>>

\* reset keeps a periodic timer unless it was cancelled during the batch.
Restarts(a) == heap[a].repeat /\ Id(a) \notin cancelingTimers

\* Timer::restart, for a periodic timer.
Restart(t) == [t EXCEPT !.exp = now + t.delta]

\* MUTANT of Reinserted: insert comes before restart.
ReinsertedUnchanged(again) == {<<heap[a].exp, a>> : a \in again}

\* insert after restart.
Reinserted(again) == {<<Restart(heap[a]).exp, a>> : a \in again}

\* MUTANT of NextExpire: the timerfd is left as it is.
NextExpireUnset(entries) == armed

\* The end of reset: the timerfd is set to the earliest entry, if that is valid.
NextExpire(entries) ==
  IF entries # {} /\ MinExp(entries) > 0 THEN ResetTimerfd(MinExp(entries)) ELSE armed

\* reset: restart or delete every timer of the batch, then set the timerfd.
Reset ==
  /\ phase = "calling" /\ toRun = {}
  /\ LET batch == Addresses(expired)
         again == {a \in batch : Restarts(a)}
     IN /\ heap' = [a \in Addrs |-> IF a \in again THEN Restart(heap[a])
                                    ELSE IF a \in batch THEN Free ELSE heap[a]]
        /\ timers' = timers \cup Reinserted(again)
        /\ activeTimers' = activeTimers \cup {Id(a) : a \in again}
        /\ armed' = NextExpire(timers \cup Reinserted(again))
  /\ phase' = "idle" /\ expired' = {}
  /\ UNCHANGED <<created, cancelingTimers, toRun, now, clock, userVars, doomed>>

\* ~TimerQueue, from ~EventLoop on the loop thread: the timerfd is closed and
\* the timers of timers_ are deleted; those of queued functors are not.  Nobody
\* destroys a loop while another thread is inside one of its calls.
Destroy ==
  /\ phase = "idle" /\ returning = {}
  /\ phase' = "gone"
  /\ heap' = [a \in Addrs |-> IF a \in Addresses(timers) THEN Free ELSE heap[a]]
  /\ timers' = {} /\ activeTimers' = {} /\ cancelingTimers' = {} /\ armed' = 0
  /\ UNCHANGED <<created, expired, toRun, now, clock, userVars, doomed>>

-----------------------------------------------------------------------------
Next ==
  \/ Tick \/ PollTimerfd \/ RunOp \/ HandleRead \/ RunTimer \/ Reset \/ Destroy
  \/ \E a \in Addrs, w \in Whens, k \in Kinds : AddTimer(a, w, k) \/ RemoteAddTimer(a, w, k)
  \/ \E r \in returning : RemoteAddReturns(r)
  \/ \E id \in ids : Cancel(id) \/ RemoteCancel(id)

Spec == Init /\ [][Next]_vars

\* Time passes, the loop polls in every iteration and callbacks return.
FairSpec ==
  /\ Spec
  /\ WF_vars(Tick) /\ SF_vars(PollTimerfd)
  /\ WF_vars(HandleRead) /\ WF_vars(RunTimer) /\ WF_vars(Reset)

-----------------------------------------------------------------------------
(* Properties *)

TimerIds == Addrs \X (0..MaxTimers)

\* Types; the sequence numbers of timers are drawn from one counter.
TypeOK ==
  /\ heap \in [Addrs -> [seq : 0..MaxTimers, exp : Nat, repeat : BOOLEAN, delta : Nat]]
  /\ created \in 0..MaxTimers
  /\ timers \subseteq Nat \X Addrs /\ expired \subseteq Nat \X Addrs /\ toRun \subseteq expired
  /\ activeTimers \subseteq TimerIds /\ cancelingTimers \subseteq TimerIds
  /\ returning \subseteq TimerIds /\ ids \subseteq TimerIds /\ doomed \subseteq TimerIds
  /\ phase \in {"idle", "reported", "calling", "aborted", "gone"}
  /\ clock \in 1..MaxClock /\ now \in 1..MaxClock /\ armed \in Nat
  /\ ops \in Seq([op : {"add", "cancel"}, addr : Addrs, seq : 0..MaxTimers])

\* The two sets hold the same timers, each filed under its own expiration and
\* sequence: every size and uniqueness assert of timerqueue.cpp holds.
SetsAgree ==
  /\ activeTimers = {Id(a) : a \in Addresses(timers)}
  /\ \A e \in timers : heap[e[2]] # Free /\ e[1] = heap[e[2]].exp
  /\ \A d, e \in timers : d[2] = e[2] => d = e

QueuedAdds == {i \in DOMAIN ops : ops[i].op = "add"}

\* Every allocated timer has exactly one owner: a queued addTimerInLoop,
\* timers_, or the batch of handleRead.  So nothing is leaked, freed twice, or
\* reached through a dangling pointer by the loop thread, and the destructor
\* leaves behind only the timers of functors that never ran.
OneOwner ==
  LET added == {ops[i].addr : i \in QueuedAdds}
      listed == Addresses(timers)
      batch == Addresses(expired)
  IN /\ {a \in Addrs : heap[a] # Free} = added \cup listed \cup batch
     /\ added \cap listed = {} /\ added \cap batch = {} /\ listed \cap batch = {}
     /\ \A i, j \in QueuedAdds : ops[i].addr = ops[j].addr => i = j

\* A timer cancelled after its insertion, even from a callback of the batch it
\* is in, is never scheduled again; nor is a later timer at its address hit.
CancelIsFinal == doomed \cap activeTimers = {}

\* The assert of getExpired fails only for a timer that expires exactly now and
\* lies above the sentry's address.
AbortsOnTieOnly == phase = "aborted" => \E e \in timers : e[1] = now /\ e[2] > Sentry

\* The asserts of timerqueue.cpp on its two sets, the life of the timers in
\* them and the effect of cancel, whatever the order of adds, cancels,
\* expirations and restarts.
TimerInv == TypeOK /\ SetsAgree /\ OneOwner /\ CancelIsFinal /\ AbortsOnTieOnly

\* Outside handleRead the timerfd is set to go off no later than the earliest
\* timer, or at the next tick if that timer is overdue.
ArmedInTime ==
  phase \in {"idle", "reported"} /\ timers # {} =>
    armed # 0 /\ (armed <= MinExp(timers) \/ armed <= clock + 1)

\* What the users' TimerIds can reach: no cancel removes a timer other than
\* the one its id names, though addresses are reused.
CancelHitsItsTimer ==
  [][\A id \in activeTimers \ activeTimers' :
       id \in doomed' \/ (\E e \in expired' : e[2] = id[1]) \/ phase' = "gone"]_vars

\* A timer that is due is taken off the list to be run (or the process died, or the
\* queue was destroyed).
DueTimerRuns ==
  \A id \in TimerIds :
    (id \in activeTimers /\ heap[id[1]].exp <= MaxClock) ~>
      (id \notin activeTimers \/ phase = "aborted")

\* "Must be thread safe.  Usually be called from other threads": addTimer
\* returns the id of the timer it created.
AddTimerThreadSafe == \A r \in returning : heap[r[1]].seq = r[2]
=============================================================================
