# A TLA+ model of kaycc

kaycc is a C++ network library in the style of muduo: one event loop (reactor)
per thread, functors posted between threads, timers, TCP servers and clients,
and a thread pool. This directory holds TLA+ modules of its parts, the TLC
configurations that check them on small instances, and TLAPS proofs about all
of them. `PROJECT.json` lists the runs, the code lines behind every
definition, mutants for every checked property, the findings, the hazards and
the theorems.

    tlc -workers 2 -config MCEventLoop.cfg EventLoop     # one run
    tlapm EventLoopProofs.tla                            # the proofs

## 1. Inventory

| Part | State it keeps | Operations | What is hard about it |
|---|---|---|---|
| `EventLoop` | `looping_`, `quit_`, `callingPendingFunctors_`, `pendingFunctors_` (mutex), eventfd, `activeChannels_` | `loop`, `quit`, `runInLoop`, `queueInLoop`, `wakeup`, `doPendingFunctors` | callers in any thread, functors queued while functors run, wakeups |
| `EventLoopThread`, `Thread`, `CountDownLatch` | `loop_`, condition, latch | `startLoop`, `threadFunc`, destructor | publication of a loop that lives on another thread's stack; quit before the loop runs |
| `TimerQueue`, `Timer`, `TimerId` | `timers_`, `activeTimers_`, `cancelingTimers_`, timerfd | `addTimer`, `cancel`, `handleRead`, `reset`, destructor | two sets to keep equal, cancels from inside the running batch, reuse of addresses, calls from other threads |
| `Buffer` | a vector and two indices | append, retrieve, prepend, `ensureWritableBytes`, `shrink`, `readFd`, `find*`, numbers in network order | arithmetic on indices, moving and growing |
| `Channel`, `Poller`, `EPollPoller`, `PollPoller` | `events_`, `index_`, `channels_`, `pollfds_`, the kernel's interest list | update, remove, poll, dispatch | three tables that must agree; removal while events are being dispatched |
| `TcpConnection` | `state_`, output buffer, channel | send, shutdown, forceClose, startRead, stopRead, handlers, destruction | `state_` is read and written without a lock; close can come from four sides; two loops |
| `TcpServer`, `Acceptor`, `EventLoopThreadPool` | the map of connections, `nextConnId_`; the listening socket, `idleFd_`; `loops_`, `next_` | setThreadNum, start, newConnection, removeConnection, destructor; listen, handleRead; getNextLoop | functors that go from loop to loop, a full descriptor table, a destructor that quits loops with functors in them |
| `Connector`, `TcpClient` | `connect_` (two of them), `state_`, `retryDelayMs_`, `channel_`, `connection_` | connect, stop, disconnect, retry, restart, destruction | retry timers, a channel reset by a deferred functor, stop from another thread |
| `ThreadPool` | `queue_`, `running_`, two conditions | start, stop, run, takeTask | bounded queue, notify versus notifyAll, spurious wakeups |
| sockets, addresses, timestamps, atomics, logging | none that matters | wrappers | not modelled |

Components meet in the loop: everything that is not a plain function call is a
functor in `pendingFunctors_`, a channel callback or a timer callback, all run
by the loop thread one after the other. The FIFO of functors is therefore the
backbone, and it was proved first. The other modules use it in its abstract
form, a queue whose elements are run one at a time and, where it matters
(`TcpClient`, the I/O loops of `TcpServer`), in batches.

What makes each part correct, and is stated as a property:

* loop: functors once and in order, no sleep on a pending functor, quit works;
* loop thread: `startLoop` returns a live loop, the destructor outlives the thread;
* timers: both sets agree, one owner per timer, a cancel is final and precise,
  the timerfd is armed in time, due timers run;
* buffer: the readable bytes are a queue of bytes, numbers read back as written;
* pollers: tables agree, the kernel is asked for what the channels ask for, no
  dangling channel is dispatched;
* connection: the byte stream is intact, FIN after data, closed once, told once,
  removed in the end;
* server: one owner per descriptor, loops taken in turn, clients answered, closed
  connections freed, the destructor returns, asserts fail in four known ways only;
* client: one attempt at a time, no socket lost, stop is final, a wanted client
  keeps trying;
* pool: bound kept, tasks in order, none forgotten, `stop` returns.

## 2. Modules

| Module | Models | Abstract specification |
|---|---|---|
| `EventLoop` | `net/eventloop.*` | `SerialExecutor` |
| `EventLoopThread` (extends `EventLoop`) | `net/eventloopthread.*`, `base/thread.*`, `base/count_down_latch.*` | |
| `TimerQueue` | `net/timerqueue.*`, `net/timer.*`, `net/timerid.h` | |
| `Buffer` | `net/buffer.*`, `net/endian.h` | `ByteQueue` |
| `Channel`, `EPollPoller`, `PollPoller` | `net/channel.*`, `net/poller*` | `Poller` |
| `TcpConnection` | `net/tcpconnection.*`, parts of `net/tcpserver.cpp` and `Channel` | |
| `TcpServer` | `net/tcpserver.*`, `net/acceptor.*`, `net/eventloopthreadpool.*`, with the stages of connections and the ends of the I/O loops | |
| `TcpClient` | `net/tcpclient.*`, `net/connector.*` | |
| `ThreadPool` | `base/threadpool.*`, `base/condition.h` | |
| `EventLoopProofs`, `TimerQueueProofs`, `BufferProofs`, `PollerProofs`, `TcpConnectionProofs`, `TcpServerProofs`, `TcpClientProofs`, `ThreadPoolProofs` | theorems about the module each is named for; `EventLoopProofs` is about `EventLoopThread` too, `PollerProofs` about both pollers | |
| `MCEPollPoller`, `MCPollPoller`, `MCTcpConnection` | constants of these runs | |

Conventions. An action is a whole handler or functor of the loop thread; a call
from another thread is cut at each access to shared state. Variables have the
names of the members without the underscore; the comments after the
declarations give the correspondence where the name differs. History variables
(`queued`, `ran`, `accepted`, `submitted`, `taken`, `doomed`, ...) are marked.
asserts are live in the library's build, so a failing assert ends the process:
the model records it in `failed` (or the phase `aborted`) and stops. A
definition introduced by a `MUTANT of` comment is a plausible bug, used to show
that a property can fail; it is not part of any specification.

**EventLoop.** The loop thread has a program counter (`pc`) and may be executing
user code (`inUser`): in a functor, in an I/O callback, or before `loop()`. From
there it may queue, run and quit. `QueueInLoop(t, f)` and `Quit(t)` of another
thread have two steps, the push or the store and then the write of the eventfd
(`WakeupBy`). `ResetQuit` is the line `quit_ = false` of `loop()`. Poll may
return with any set of channels; the wakeup channel only if the eventfd is
readable. Functors are submitted once each.

**EventLoopThread.** The owner and the I/O thread, with the latch, the condition
and the pointer `loop_`; once `io = "looping"`, the I/O thread takes the steps of
`EventLoop`. `pthread_create` may fail (`StartFails`): `startLoop` then waits for
ever. Only the destructor quits the loop, and callbacks do not throw.

**TimerQueue.** Timers are heap cells at addresses that are reused; entries are
pairs of time and address in the order of `std::pair`; the sentry of `getExpired`
is a constant, above or between the addresses. The clock ticks up to `MaxClock`.
Calls of another thread go through the FIFO `ops`, and reading the returned
timer is a step of its own. The queue may be destroyed between two callbacks, by
the destructor of the loop, but not while another thread is inside `addTimer`.

**Buffer.** The record of the vector and the indices, with one operator per
method and one action per call. The preconditions are the method's asserts.
In the run numbers have 1, 2 or 3 bytes (for the code's 1, 2, 4 and 8) of two
values each; `Values[n]` is the number of values that n bytes have. They are signed; `peekInt16` has no `return`, so that its result is any number.
Buffers are built with the default size: for any other the constructor's second
assert, which compares with `kInitialSize`, fails.

**Pollers.** `Channel` is the shared part: events, registration, dispatch with
`activeChannels_` and `currentActiveChannel_`, and the assert of
`EventLoop::removeChannel`. `EPollPoller` and `PollPoller` add their tables and
are shown to implement `Poller`; what both have is prefixed with `EPoll` in the
former, so that one module can reason about both.

**TcpConnection.** One connection of a server, on the server's loop or another
one (`sharedLoop`, chosen initially), with the default poller. Bytes carry the number of their
message. Writes take any prefix, or fail once the write side is shut or the peer
has reset. The variable `use`, chosen initially, says which calls the program
makes of other threads, whether the server may die and whether reading is
switched on and off; `Exposed(a)` says which uses can run into the assert `a`.

**TcpServer.** Several connections, of which only the stages that the server
and its asserts tell apart are kept: connecting, up (`kConnected`), half
(`kDisconnecting`), down or relisted (`kDisconnected`), destroyed (after
`connectDestroyed`), dead. `Disconnect` is a `shutdown` or `forceClose` that user
code calls in a callback of the connection's own loop, `ForceCloseInLoop` the
functor that may follow. Relisted is a connection that had no events after
`stopRead` and that `disableAll` has put back into the kernel's list, so that a
hangup closes it again (`HangUp`). Loop 0 belongs to the server and runs `Acceptor` and
the map; the loops of the pool have a phase, a batch and `quit_`, as a functor
that comes after the last batch of a quit loop is dropped with the loop. A
connection that no functor and no map entry points to any more is destroyed at
once (`Settle`), with the asserts of its destructor. The kernel's part is the set
of open descriptors, the lowest free one being handed out, and the backlog; other
code of the process opens and closes descriptors at any time, also between the
four calls of `handleRead`'s EMFILE branch (`AcceptEmfile`, `Refuse`, `Reopen`).

**TcpClient.** The connector and the client over a loop with batches of
functors. `connect(2)` has its three classes of results. A pending timer may fire
at any time, except that the loop is taken to reach the functors it has itself
queued within half a second, the shortest retry delay. `CallsIn` says from where
the user calls.

**ThreadPool.** Mutex, conditions with wait sets, spurious wakeups. Tasks end and
do not submit tasks.

## 3. Runs

Where a module has both, safety and liveness are checked by one run under the
fair specification. An invariant whose name ends in `Inv` is the conjunction of
the named parts that belong together (and of the type invariant).

| Run | Bounds, and why they are enough | Properties |
|---|---|---|
| `loop` | two threads, three functors, one I/O channel: a push during a batch, a push racing with the sleep, two callers at once | `TypeOK`, `FifoExactlyOnce`, `NoLostWakeup`, `ImplementsSerialExecutor`, `PendingIsRun`, `QuitEndsLoop` |
| `loop_thread` | one start and one destruction, two functors, all interleavings of owner and I/O thread | `ThreadInv` (`StartedLoopIsAlive`, `DestroyedAfterThread`), `StartLoopReturns`, `DestructorReturnsFromLoop` |
| `timers` | two addresses (one on each side of the sentry) and two timers, so that an address is reused; times before, at and after the current one; repeated timers of zero and one tick; two queued calls of another thread | `TimerInv` (`SetsAgree`, `OneOwner`, `CancelIsFinal`, `AbortsOnTieOnly`), `ArmedInTime`, `CancelHitsItsTimer`, `DueTimerRuns` |
| `buffer` | arrays of at most 6 bytes with a reserve of 2 and an `extrabuf` of 2: every branch of `makeSpace` and `readFd`; numbers of up to 3 bytes, so that byte order and sign show | `BufferInv` (`SpaceIsMade`, `IntsReadBack`, `LineEnds`), `ImplementsByteQueue`, `MethodContracts` |
| `epoll` | three channels, two of them for one descriptor in turn | `EPollInv` (`TablesAgree`, `KernelPointsToOwner`, `NoDanglingChannel`), `EPollImplementsPoller` |
| `poll` | four channels, descriptor 0 included, so that a removal moves a hidden place | `PollInv` (`PlacesAgree`, `NoDanglingChannel`, `RemoveAssertHolds`), `ImplementsPoller` |
| `conn` | five uses: closes in the connection's loop only; a `shutdown` of another thread; a `forceClose` of one; a server that dies; reads switched on and off. Two messages of two bytes, so that a write can be partial; one or two loops | `OutputInv` (`WritingIffPending`, `FinAfterData`), `StreamIntact`, `AssertsHold`, `DownOnce`, `ShutdownCompletes`, `ClosedIsRemoved` |
| `server` | three clients on no, one or two I/O threads, so that the round robin wraps; four descriptors, of which other code may hold one (descriptor 0 at first), so that the table runs full | `ServerInv` (`OneOwner`, `StagesInTurn`), `RoundRobin`, `ServerAssertsHold`, `ClientsAreAnswered`, `ClosedIsFreed`, `ServerDestructorReturns` |
| `client` | one `connect()`, at most one `stop`, `disconnect`, `forceClose` and destruction, three descriptors, delays 2, 4, 7 (the cap is no power of two times the first delay, as in the code) | `ClientInv` (`SocketsOwned`, `AttemptAssertsHold`), `OneAttempt`, `StopIsFinal`, `KeepsTrying` |
| `pool` | two workers, two producers, four tasks, a queue of two: both sides wait at once | `PoolInv` (`QueueBounded`, `TakenInOrder`, `StoppedIsQuiet`, `NoForgottenTask`), `TaskIsTaken`, `ProducerGetsRoom`, `StopReturns` |

Two runs find a violation, each with a finding in `PROJECT.json` that quotes the
source.

| Run | The code |
|---|---|
| `loop_thread_quit` | `quit()` between the publication of the loop and its `quit_ = false` is lost; the destructor hangs in `join` |
| `timers_thread_safe` | `addTimer` in another thread reads a timer the loop may have deleted |

### Limits of the passing runs

Some properties hold only if certain calls are left out. A constant of the module
switches them, and these are the sequences that TLC finds when it is
switched on:

| Constant | What then fails |
|---|---|
| `EventLoop`: `QueueBeforeLoop = TRUE` | `NoLostWakeup`: a functor queued in the loop thread before `loop()` does not wake the first `poll()` (the comment at `eventloop.cpp:171` says it does) |
| `PollPoller`: `DisableFirst = TRUE` | `PollInv` (`RemoveAssertHolds` is stated for `FALSE`): a channel whose first call is `disableAll()` is not hidden (`pollpoller.cpp:108`) |
| `TcpClient`: `Connects = 2`, `Retry = FALSE` | `ClientInv` (`AttemptAssertsHold`): `connect()` after the connection is gone finds `kConnected` (`connector.cpp:42`); `connect()` after `stop()` meets the old channel (`connector.cpp:131`) |

Other failures are in the passing runs, and the properties say exactly when they
can happen:

| Property | The exception it names |
|---|---|
| `TimerInv` | phase `aborted`: a timer at an address above the 32-bit sentry that expires exactly now fails the assert at `timerqueue.cpp:204` |
| `AssertsHold` | a `shutdown` or `forceClose` of another thread overwrites `kDisconnected`, and the connection is closed and removed twice (`tcpconnection.cpp:407`, `tcpserver.cpp:133`); the end of the server in `kDisconnecting` removes a channel with events (`channel.cpp:53`), or is met by a later close callback ("FIXME: unsafe", `tcpserver.cpp:110`); after `stopRead`, `disableAll` puts the descriptor back into epoll, and a hangup closes the connection twice |
| `ServerAssertsHold` | four failures, see below |
| `ServerInv` | descriptor 0, which `connfd > 0` (`acceptor.cpp:73`) takes for a failure, is leaked |
| `ClientsAreAnswered` | another thread takes the reserved descriptor while the table is full: the loop then spins on a client it can neither accept nor refuse |
| `ClientInv` | `failed = "dtor"` (destroyed before the connector's channel is reset) and `failed = "freed"` (a functor of a connector that is gone), both only after the client's destructor |
| `StopIsFinal` | stops whose store falls between `removeConnection`'s test and `restart()`, and those that overlap a `connect()` |

The four of `ServerAssertsHold` are defects of the code. The property says what each
one takes, and that nothing else fails; it does not exclude them. TLC shows a trace
of each if `failed` is not allowed to have that value:

* `failed = "destructor"`. `~TcpServer` queues `connectDestroyed` and then quits the
  I/O loops; one that is past its last batch drops the functor. The connection is
  destroyed while it is up, its assert fails, and the user is never told. This
  contradicts the comment at `tcpserver.cpp:39`, 断开每一个连接 (disconnect each
  connection). No use of the library avoids it: a server with I/O threads and a
  connection is enough.
* `failed = "half closed"`. `connectDestroyed` (`tcpconnection.cpp:335`) disables the
  channel in `kConnected` only. After a `shutdown()` in a callback, as in
  `echoserver_unittest.cpp:55-63`, the end of the server removes a channel that
  still reads (`channel.cpp:53`), or, if it does not read, the destructor finds
  `kDisconnecting`.
* `failed = "double close"`, also while the server lives: `stopRead()`, `forceClose()`
  and then a hangup before `connectDestroyed` (`tcpconnection.cpp:407`).
* `failed = "server gone"`: a removal queued by an I/O loop is run after the server
  ("FIXME: unsafe", `tcpserver.cpp:110`).

Two more limits. `AssertsHold` shows that closes from four sides in any order are
safe in careful use; the uses that `Exposed` lists keep their failures, which
the hazards of `tcpconnection.cpp` and `tcpserver.cpp` describe. `ThreadInv` does not
cover the race that the comment at `eventloopthread.cpp:23-25` declares, as only the
destructor quits the loop there.

`CHECK_DEADLOCK FALSE` is set where the system may stop: a destroyed connection
or client, a server that is gone, a stopped pool, an ended thread, a failed assert, used-up bounds of
the callers. `EventLoop` itself and `Buffer` are checked for deadlock.

## 4. Fairness

* A thread that is not blocked runs: weak fairness of the loop's steps, of the
  steps of a call that was begun, of workers and producers that hold no wait.
  User callbacks, tasks and timers' callbacks return.
* A descriptor that stays readable is reported in the end: strong fairness of
  `poll` with the eventfd (and of the timerfd, and of pending retry timers),
  because poll may return again and again for other channels. The kernel reports
  a ready descriptor, and its ready list is rotated.
* Nothing is assumed of the users, of the peer, of I/O, of the poll timeout or of
  spurious wakeups.
* `TcpServer`: the listening socket is level triggered, so that a backlog is
  reported until it is empty (weak fairness of `Accept`), and in each iteration
  the loop also comes to its functors (strong fairness of `RunFunctor(Base)`,
  which the steps of a refusal interrupt). Clients need not give up.
* `TcpConnection`: a socket whose peer keeps the connection open becomes writable
  again.

## 5. Proofs

The theorems hold for any values of the constants: any number of threads,
channels, timers, clients and so on. Each component has an inductive
invariant, which TLC checked before it was proved; the safety properties follow
from it. A proof has one lemma per action, and in it one step per part of the
invariant that the action can disturb. All theorems are about `Spec`, without
fairness, so they hold of the fair specifications as well.

**EventLoop** (`EventLoopProofs`)

* `TypeCorrect`: `Spec => []TypeOK`. `TypeOK` ties the flags to the program
  counter and says that the local vector of `doPendingFunctors` is empty outside
  a batch; it is inductive as it stands.
* `FifoCorrect`: `Spec => []FifoExactlyOnce`. Inductive relative to `TypeOK`: the
  swap would lose a batch that was not finished, and `functors = <<>>` before the
  swap is what excludes that.
* `WakeupCorrect`: `Spec => []NoLostWakeup`, assuming `~QueueBeforeLoop`. Inductive
  relative to `TypeOK`: a self-push while a batch runs sees
  `callingPendingFunctors_` up and writes the eventfd; a self-push during I/O
  handling is collected by the swap that follows; `handleRead` takes the wakeup
  only in `handle`, before that swap. The assumption is needed: without it
  a functor queued before `loop()` is a counterexample.
* `RefinesSerialExecutor`: `Spec => Executor!Spec` under the mapping of
  `functors \o pendingFunctors` to the abstract queue. The initial state maps to
  the initial state; a push is `Submit`, a call `RunNext`, an inlined call
  `RunAtOnce`; the swap is a stutter since the local vector is empty.

**EventLoopThread** (also in `EventLoopProofs`)

* `ThreadCorrect`: `TSpec => []ThreadInv`. The inductive part is `InStep`: `loop_` is
  set exactly while the I/O thread is between its two assignments, the latch is
  counted down by the new thread before the owner goes on, and nobody sets `quit_`
  before the destructor does, so that a loop that was handed out has not ended.
* `ThreadRunsLoop`: `TSpec => [](TypeOK /\ FifoExactlyOnce)`. Every step of the two
  threads is a step of `EventLoop` or leaves its variables alone
  (`ThreadStepsAreLoopSteps`), so the invariants of the loop carry over.

**Buffer** (`BufferProofs`), for any size of the array, any `kCheapPrepend`, any
size of `extrabuf`, numbers of any width and bytes of any even number of values

* `BufferLayout`: `[]TypeOK`, `BufferCorrect`: `[]BufferInv`. The layout of the
  indices is inductive by itself, and whatever else `BufferInv` says follows from
  it in each state. For every method there is a lemma on any buffer with that
  layout: the method keeps the layout, and the readable bytes afterwards are those
  before with some added or dropped (`AppendIs`, `RetrieveIs`, `PrependIs`, ...). The
  one on `ensureWritableBytes` (`EnsureIs`) shows that its two tests fit: room is
  short behind the writer but not in all only if the reader has moved past
  `kCheapPrepend`, so that the assert of `makeSpace` holds and the move gains
  exactly the bytes in front of the reader.
* `BufferImplementsByteQueue`: `Spec => ImplementsByteQueue`, `MethodsKeepContracts`:
  `Spec => MethodContracts`, from the same lemmas. A move, a growth, a shrink
  is a stutter; `readFd` is one `PutBack` whether or not the bytes went through
  `extrabuf`.
* That numbers read back (`ReadsBack`) and that a search finds the first place
  (`SearchIs`) needs induction over data. The library's induction theorems take a
  predicate as a parameter, which the provers cannot instantiate; `SetInduction`
  and `SmallestExists` say the same of sets of naturals and follow from `WFMin`,
  which has none. The recursive functions `Values` and `value` are
  choices of a function that solves a recurrence; `Recurrence` shows that there is
  one, by induction over the length of finite solutions. With it, the value of the
  first i bytes is the number divided by the weight of the others, for every i.

**Pollers** (`PollerProofs`)

* `EPollCorrect`: `[]EPollInv`, `PollCorrect`: `[]PollInv`. What the asserts compare
  is not inductive. `EPollIInv` adds that `index_` follows the life of a channel,
  that `channels_` holds exactly the registered channels, each at its descriptor,
  and that the kernel's entry of a descriptor is a function of both; `PollIInv`
  that the place of each registered channel is its own, asks for its events and is
  hidden only without events, and that no place is spare, which is what makes the
  swap with the last place in `removeChannel` correct. `DispatchInStep` (module
  `Channel`) ties `activeChannels_` to how far the loop has come.
* `EPollRefinesPoller`, `PollImplementsPoller`: both implement `Poller`, from the
  same invariants. An update or a removal is the abstract one; poll and dispatch
  stutter.

**ThreadPool** (`ThreadPoolProofs`)

* `PoolCorrect`: `[]PoolInv`. `PoolInv` is inductive once it is known that workers
  are created by `start()` and `stop()` comes after it. `NoForgottenTask` is the
  part that leans on `notify` (not `notifyAll`) being sent with every push.

**TimerQueue** (`TimerQueueProofs`)

* `TimerCorrect`: `[]TimerInv`. `SetsAgree` and `OneOwner` lean on each other: an
  address that `new` returns is in neither set because every timer on the heap has
  an owner, and a timer leaves its owner when it is deleted because it is filed
  under its own time and sequence number. `TimerIInv` adds the owners as disjoint
  sets of addresses, the bounds on sequence numbers, and `DoomedIsDead`: the timer
  of a cancelled id is gone or waits in the batch for `reset` to find it in
  `cancelingTimers_`.
* `AlwaysArmedInTime`: `[]ArmedInTime`, on top of `TimerIInv`.
* `CancelHitsOnlyItsTimer`: the action property `CancelHitsItsTimer`.

**TcpConnection** (`TcpConnectionProofs`), for every use, server loop or not

* `OutputCorrect`: `[]OutputInv`, `StreamStaysIntact`: `[]StreamIntact`. They are
  inductive together: `sendInLoop` may write past the buffer only because POLLOUT
  is asked for exactly while bytes wait.
* `GoesDownOnce`: `[]DownOnce`. Every down is counted with the state, or with a
  close that another thread's store has undone (`DownsAndState`).
* `AssertsAlwaysHold`: `[]AssertsHold`. The invariant says what is left to do for a
  connection that is out of the map or out of the poller, what functors may still
  be queued, and when a channel is back in the kernel's list after `disableAll`.
  Looking for it showed that `Exposed` had been too coarse; it is now stated per
  assert, and TLC over all 64 uses found exactly the failures it names.

**TcpServer** (`TcpServerProofs`)

* `ServerCorrect`: `[]ServerInv`, `ServerAsserts`: `[]ServerAssertsHold`.
  `StagesInTurn` speaks of a server that is there, but the asserts must hold
  through `~TcpServer` too. `ServerIInv` therefore says, for each connection and at
  any time, which of its three functors are queued (`StageOf`), in which loop's queue
  (`Placed`), and that none is there twice and `connectEstablished` comes before
  `connectDestroyed` (`InOrder`). That a connection that is alive is pointed to
  follows, so that `Settle` destroys only connections that were destroyed in order.
  `EndInTurn` says that threads are quit after the map is empty, are joined in turn
  and leave an empty queue, from which `DisconnectedAtEnd` follows. An assert that
  fails ends the run, so that `FailsAsNamed` needs what held just before
  (`AbortKeeps`). Each step of
  one connection is shown to leave all others alone by one lemma (`OneConnection`).
* `RoundRobinHolds`: `[]RoundRobin`. The invariant `Rounds` says which loops have been
  given a connection in the current round.

**TcpClient** (`TcpClientProofs`)

* `ClientCorrect`: `[]ClientInv`, `OneAttemptAtATime`: `[]OneAttempt`, both for
  `Connects \in 0..1`: a second `connect()` can run into the asserts (section 3).
  In such a client one token is handed around: the `connect()` still to come, or
  under way in the other thread, or queued as `startInLoop`; then a retry timer, a
  socket being connected, a connection, or the restart that `removeConnection` has
  decided on. `ClientIInv` says that at most one place holds it, that
  `resetChannel` is queued, once, exactly while `channel_` outlives its registration,
  that an open socket is the connecting one, the connection's or that of one queued
  `connectDestroyed`, and that a queued `forceClose` comes after the `resetChannel`
  of its socket and before its `connectDestroyed`. From that it follows that
  the channel of the last attempt is gone when the next one starts, although
  the reset is only queued, and that a socket is closed by its last owner.
* `StopAlwaysFinal`: `[]StopIsFinal`, for every client, also one that is connected
  many times. `StopIInv` adds that after a stop that is not marked as lost both
  `connect_` flags are down and no restart is on its way.

The assumptions are the named ASSUMEs of the modules: the types of the constants
and
* `EventLoop`: the wakeup channel is not one of the I/O channels;
* `Buffer`: a byte has an even number of values, CR and LF are different bytes, and
  numbers have at least one byte;
* `Channel`: `None` is no channel (it stands for a missing entry of the map);
* `ThreadPool`: there is a worker (without one, `run()` calls the task itself and
  nothing is queued), and `NoTask` is no task (an empty `std::function`);
* `TimerQueue`: the sentry of `getExpired` is not the address of a timer (timers are
  aligned, the sentry is all ones), and no timer is at address 0;
* `TcpServer`: there are at least two descriptors, 0 and the acceptor's `idleFd_`;
* `TcpClient`: descriptors are naturals and `None` is none of them; the first retry
  delay is positive and not above the longest one (500 and 30000 in the code);
* `EventLoopThread`: the owner is one of the threads that may use the loop.

Only model-checked:

* liveness, all of it (`PendingIsRun`, `ClosedIsFreed`, `KeepsTrying`, ...): it needs
  fairness and ENABLED, which TLAPS 1.4.5 does not handle.

Every safety property of the passing runs is a theorem, and so is every
refinement.

## 6. Not modelled

* `getLoopForHash` and `getAllLoops` of `EventLoopThreadPool`, which change nothing
  and have no callers; the destructors of `EventLoop` and the pollers, of which
  only the end of the queues is seen (`LoopEnds`, `TimerQueue`'s `Destroy`).
* Sockets beyond accept and close, addresses (formatting and parsing), timestamps,
  logging, singleton, atomics.
* Failing system calls other than those of accept, connect, write, read, open and
  `pthread_create`; lack of memory; callbacks that throw.
* A server whose pool is used by other code (`threadPool()`), and user code that
  keeps connections beyond their end, in `TcpServer`; a cancel that reaches the
  loop before the queued `addTimer` it names, which finds nothing.
* Raw pointers in functors of `TcpConnection` (`send`, `shutdown`, `startRead`,
  `stopRead` bind `this`): the callers are taken to keep their pointer.
* A `TcpClient` destroyed by another thread, which its own comment calls not safe.
* The difference between the monotonic clock of the timerfd and the real-time
  clock of timestamps.

## 7. Further work

An abstract specification of a connection (up once, down once, bytes in order) and
the refinement by `TcpConnection`; an abstract timer service and the refinement by
`TimerQueue`.
