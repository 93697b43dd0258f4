----------------------------- MODULE TcpClient -----------------------------
(***************************************************************************)
(* net/tcpclient.cpp and net/connector.cpp: a client connects, retries     *)
(* with growing delays, and, if enableRetry() was called, connects again   *)
(* when its connection is closed.                                          *)
(*                                                                         *)
(* The loop runs handlers of ready events, then the functors that were     *)
(* queued before (EventLoop).  Another thread calls connect, stop and      *)
(* disconnect, whose accesses to the two connect_ flags interleave with    *)
(* the loop; so may functors of the user in the loop, which also may       *)
(* destroy the client.  Each handler touches a flag once, so it is one     *)
(* step, except removeConnection, which reads TcpClient::connect_ before   *)
(* restart writes Connector::connect_.                                     *)
(*                                                                         *)
(* Time is not modelled: a pending timer may fire at any time, except that *)
(* the loop is taken to get to the functors it has queued itself within    *)
(* the shortest delay, half a second.  The connection itself is in module  *)
(* TcpConnection; here it is up or closed.                                 *)
(***************************************************************************)
EXTENDS Naturals, Sequences, FiniteSetsExt

CONSTANTS
  Fds, None,
  kInitRetryDelayMs, kMaxRetryDelayMs,
  Retry,            \* retry_: enableRetry() was called
  CallsIn,          \* where the user calls from: "loop", "other"
  Connects, Stops, Disconnects, ForceCloses, Destroys   \* bounds on the user's calls

ASSUME ClientConstants ==
  /\ Fds \subseteq Nat /\ None \notin Fds /\ Retry \in BOOLEAN
  /\ kInitRetryDelayMs \in Nat \ {0} /\ kMaxRetryDelayMs \in Nat
  /\ kInitRetryDelayMs <= kMaxRetryDelayMs
  /\ CallsIn \subseteq {"loop", "other"}

VARIABLES
  clientConnect,    \* TcpClient::connect_
  connect,          \* Connector::connect_
  state,            \* Connector::state_
  delay,            \* retryDelayMs_
  channel,          \* the descriptor of channel_, or None
  registered,       \* channel_ is in the poller
  timers,           \* timers pending for startInLoop
  connection,       \* the descriptor of connection_, or None
  open,             \* open descriptors
  life,             \* the client: alive, held (only the connector, for a second), gone
  pending, batch,   \* functors queued, and being run
  phase,            \* poll, handle, functors
  active,           \* what poll reported and is not yet handled
  restarting,       \* removeConnection has decided to call restart
  other,            \* what the other thread is about to do: idle, connect, stop (to set
                    \* Connector::connect_), startInLoop, stopInLoop (to queue it)
  calls,            \* calls made by the user
  gaveUp,           \* connect(2) failed with an error that is not retried
  stopped,          \* history: no, called (and connect not called since), done (stopInLoop was
                    \* run), or lost (called between removeConnection's test and restart, or
                    \* overlapping a connect)
  failed            \* the assert that failed, or none

conVars == <<state, delay, channel, registered, timers, open, gaveUp>>
loopVars == <<pending, batch, phase, active, restarting>>
userVars == <<other, calls>>
vars == <<clientConnect, connect, conVars, connection, life, loopVars, userVars,
          stopped, failed>>

Functor(op, fd) == [op |-> op, fd |-> fd]
Nothing == [timer |-> 0, connector |-> FALSE, conn |-> FALSE]

Ops == {"connect", "stop", "disconnect", "forceClose", "destroy"}
Limit(op) ==
  CASE op = "connect" -> Connects [] op = "stop" -> Stops
    [] op = "disconnect" -> Disconnects [] op = "forceClose" -> ForceCloses
    [] op = "destroy" -> Destroys

Init ==
  /\ clientConnect = TRUE /\ connect = FALSE
  /\ state = "kDisconnected" /\ delay = kInitRetryDelayMs
  /\ channel = None /\ registered = FALSE /\ timers = 0
  /\ connection = None /\ open = {} /\ life = "alive"
  /\ pending = <<>> /\ batch = <<>> /\ phase = "poll" /\ active = Nothing
  /\ restarting = FALSE
  /\ other = "idle" /\ calls = [op \in Ops |-> 0]
  /\ gaveUp = FALSE /\ stopped = "no" /\ failed = "none"

-----------------------------------------------------------------------------
(* Connector *)

NextDelay(d) == Min({d * 2, kMaxRetryDelayMs})

\* MUTANT of RetryWith: the socket is not closed.
RetryWithoutClose(fd, fds, c, d, t) ==
  /\ open' = fds /\ state' = "kDisconnected"
  /\ timers' = (IF c THEN t + 1 ELSE t) /\ delay' = (IF c THEN NextDelay(d) ELSE d)

\* MUTANT of RetryWith: no timer is set.
RetryWithoutTimer(fd, fds, c, d, t) ==
  /\ open' = fds \ {fd} /\ state' = "kDisconnected"
  /\ timers' = t /\ delay' = (IF c THEN NextDelay(d) ELSE d)

\* retry, with the values of connect_ and retryDelayMs_ at its call.
RetryWith(fd, fds, c, d, t) ==
  /\ open' = fds \ {fd} /\ state' = "kDisconnected"
  /\ timers' = (IF c THEN t + 1 ELSE t) /\ delay' = (IF c THEN NextDelay(d) ELSE d)

\* connecting: assert(!channel_).
Connecting(fd, d, t) ==
  /\ state' = "kConnecting"
  /\ open' = open \cup {fd} /\ delay' = d /\ timers' = t
  /\ IF channel # None
       THEN failed' = "connecting" /\ UNCHANGED <<channel, registered>>
       ELSE channel' = fd /\ registered' = TRUE /\ UNCHANGED failed
  /\ UNCHANGED gaveUp

\* connect: the three classes of results of connect(2).  The kernel gives the
\* lowest free descriptor.
DoConnect(c, d, t) ==
  /\ open # Fds
  /\ LET fd == Min(Fds \ open) IN
     \/ Connecting(fd, d, t)
     \/ /\ RetryWith(fd, open \cup {fd}, c, d, t)
        /\ UNCHANGED <<channel, registered, gaveUp, failed>>
     \/ /\ gaveUp' = TRUE /\ state' = "kDisconnected" /\ delay' = d /\ timers' = t
        /\ UNCHANGED <<open, channel, registered, failed>>

\* startInLoop: assert(state_ == kDisconnected).
StartInLoop(s, c, d, t) ==
  \/ /\ s # "kDisconnected"
     /\ failed' = "startInLoop" /\ timers' = t
     /\ UNCHANGED <<state, delay, channel, registered, open, gaveUp>>
  \/ /\ s = "kDisconnected" /\ c
     /\ DoConnect(c, d, t)
  \/ /\ s = "kDisconnected" /\ ~c
     /\ state' = s /\ delay' = d /\ timers' = t
     /\ UNCHANGED <<channel, registered, open, gaveUp, failed>>

\* MUTANT of RemoveAndResetChannel: resetChannel is not queued.
RemoveChannelOnly ==
  /\ registered' = FALSE
  /\ UNCHANGED <<pending, channel, gaveUp, failed>>

\* removeAndResetChannel: the channel object lives on until resetChannel.
RemoveAndResetChannel ==
  /\ registered' = FALSE
  /\ pending' = Append(pending, Functor("resetChannel", None))
  /\ UNCHANGED <<channel, gaveUp, failed>>

\* MUTANT of HandleError: handleWrite, called next for the same event, does not
\* look at state_ and retries as well.
HandleErrorThenWrite(out) ==
  /\ RemoveAndResetChannel
  /\ RetryWith(channel, open, connect, delay,
               IF out /\ connect THEN timers + 1 ELSE timers)
  /\ UNCHANGED connection

\* handleError; handleWrite, if the event says "writable" as well, then finds
\* the state kDisconnected.
HandleError(out) ==
  /\ RemoveAndResetChannel
  /\ RetryWith(channel, open, connect, delay, timers)
  /\ UNCHANGED connection

\* TcpClient::newConnection
NewConnection(fd) == connection' = fd

\* handleWrite: ok unless SO_ERROR is set or the socket is connected to itself.
\* The callback makes the connection, if connect_ still says so.
HandleWrite(ok) ==
  /\ RemoveAndResetChannel
  /\ \/ /\ ~ok
        /\ RetryWith(channel, open, connect, delay, timers)
        /\ UNCHANGED connection
     \/ /\ ok
        /\ state' = "kConnected"
        /\ IF connect THEN NewConnection(channel) /\ UNCHANGED open
                      ELSE open' = open \ {channel} /\ UNCHANGED connection
        /\ UNCHANGED <<timers, delay>>

\* stopInLoop
StopInLoop ==
  \/ /\ state = "kConnecting"
     /\ RemoveAndResetChannel
     /\ RetryWith(channel, open, connect, delay, timers)
  \/ /\ state # "kConnecting"
     /\ UNCHANGED <<conVars, pending, failed>>

-----------------------------------------------------------------------------
(* TcpClient *)

\* MUTANT of Restarts: removeConnection does not look at connect_.
RestartsAlways == Retry

\* The test at the end of removeConnection.
Restarts == Retry /\ clientConnect

\* TcpConnection::handleClose calls removeConnection, or after ~TcpClient
\* detail::removeConnection: both queue connectDestroyed.
CloseConnection ==
  /\ connection' = None
  /\ pending' = Append(pending, Functor("connectDestroyed", connection))
  /\ restarting' = (life = "alive" /\ Restarts)

LoopRuns == failed = "none" /\ ~restarting

\* Connector::restart, called by removeConnection.
Restart ==
  /\ failed = "none" /\ restarting
  /\ restarting' = FALSE /\ connect' = TRUE
  /\ StartInLoop("kDisconnected", TRUE, kInitRetryDelayMs, timers)
  /\ UNCHANGED <<clientConnect, connection, life, pending, batch, phase, active, userVars, stopped>>

-----------------------------------------------------------------------------
(* EventLoop *)

\* The loop has run the functors the connector has queued in it.
Settled == \A i \in DOMAIN pending : pending[i].op \notin {"resetChannel", "stopInLoop"}

\* poll returns with any part of what may be ready.
Poll ==
  /\ LoopRuns /\ phase = "poll"
  /\ \E n \in (IF Settled THEN 0..timers ELSE {0}), r \in {FALSE, registered}, k \in {FALSE, connection # None} :
       active' = [timer |-> n, connector |-> r, conn |-> k]
  /\ phase' = "handle"
  /\ UNCHANGED <<clientConnect, connect, conVars, connection, life, pending, batch, restarting,
                 userVars, stopped, failed>>

TimerEvent ==
  /\ LoopRuns /\ phase = "handle" /\ active.timer > 0
  /\ active' = [active EXCEPT !.timer = @ - 1]
  /\ StartInLoop(state, connect, delay, timers - 1)
  /\ UNCHANGED <<clientConnect, connect, connection, life, pending, batch, phase, restarting,
                 userVars, stopped>>

\* The socket is reported with an error, with or without "writable", or with
\* "writable" alone.
ConnectorEvent ==
  /\ LoopRuns /\ phase = "handle" /\ active.connector
  /\ active' = [active EXCEPT !.connector = FALSE]
  /\ (\E out \in BOOLEAN : HandleError(out)) \/ (\E ok \in BOOLEAN : HandleWrite(ok))
  /\ UNCHANGED <<clientConnect, connect, life, batch, phase, restarting, userVars, stopped>>

\* The peer has closed the connection.
CloseEvent ==
  /\ LoopRuns /\ phase = "handle" /\ active.conn
  /\ active' = [active EXCEPT !.conn = FALSE]
  /\ CloseConnection
  /\ UNCHANGED <<clientConnect, connect, conVars, life, batch, phase, userVars, stopped, failed>>

BeginFunctors ==
  /\ LoopRuns /\ phase = "handle" /\ active = Nothing
  /\ phase' = "functors" /\ batch' = pending /\ pending' = <<>>
  /\ UNCHANGED <<clientConnect, connect, conVars, connection, life, active, restarting,
                 userVars, stopped, failed>>

EndFunctors ==
  /\ LoopRuns /\ phase = "functors" /\ batch = <<>>
  /\ phase' = "poll"
  /\ UNCHANGED <<clientConnect, connect, conVars, connection, life, pending, batch, active,
                 restarting, userVars, stopped, failed>>

IsNext(op) == LoopRuns /\ phase = "functors" /\ batch # <<>> /\ Head(batch).op = op

\* The functors of the Connector hold a plain pointer to it.
RunConnectorFunctor ==
  /\ \E op \in {"startInLoop", "stopInLoop", "resetChannel"} : IsNext(op)
  /\ batch' = Tail(batch)
  /\ \/ /\ life = "gone"
        /\ failed' = "freed" /\ UNCHANGED <<conVars, pending, stopped>>
     \/ /\ life # "gone" /\ IsNext("startInLoop")
        /\ StartInLoop(state, connect, delay, timers) /\ UNCHANGED <<pending, stopped>>
     \/ /\ life # "gone" /\ IsNext("stopInLoop")
        /\ StopInLoop /\ stopped' = (IF stopped = "called" THEN "done" ELSE stopped)
     \/ /\ life # "gone" /\ IsNext("resetChannel")
        /\ channel' = None
        /\ UNCHANGED <<state, delay, registered, timers, open, gaveUp, pending, stopped, failed>>
  /\ UNCHANGED <<clientConnect, connect, connection, life, phase, active, restarting, userVars>>

\* forceCloseInLoop closes a connection that is still up.
RunForceClose ==
  /\ IsNext("forceClose")
  /\ batch' = Tail(batch)
  /\ IF connection = Head(batch).fd THEN CloseConnection
                                    ELSE UNCHANGED <<connection, pending, restarting>>
  /\ UNCHANGED <<clientConnect, connect, conVars, life, phase, active, userVars, stopped, failed>>

\* connectDestroyed drops the last pointer to the connection.
RunConnectDestroyed ==
  /\ IsNext("connectDestroyed")
  /\ batch' = Tail(batch) /\ open' = open \ {Head(batch).fd}
  /\ UNCHANGED <<clientConnect, connect, state, delay, channel, registered, timers, gaveUp,
                 connection, life, pending, phase, active, restarting, userVars, stopped, failed>>

\* The timer of ~TcpClient drops the connector, and ~Connector asserts
\* !channel_.
ReleaseConnector ==
  /\ LoopRuns /\ phase = "handle" /\ life = "held" /\ timers = 0 /\ Settled
  /\ life' = "gone"
  /\ failed' = IF channel # None THEN "dtor" ELSE failed
  /\ UNCHANGED <<clientConnect, connect, conVars, connection, loopVars, userVars, stopped>>

-----------------------------------------------------------------------------
(* The user *)

\* A user calls connect() once, after a stop(), or after the connection is gone.
MayCall(op) ==
  /\ life = "alive" /\ failed = "none" /\ calls[op] < Limit(op)
  /\ op = "connect" => ~connect \/ (state = "kConnected" /\ connection = None)
Called(op) == calls' = [calls EXCEPT ![op] = @ + 1]
InLoop == "loop" \in CallsIn /\ LoopRuns /\ phase = "functors"

\* Calls made by a functor of the user in the loop thread.
ConnectInLoop ==
  /\ InLoop /\ MayCall("connect") /\ Called("connect")
  /\ clientConnect' = TRUE /\ connect' = TRUE /\ stopped' = "no"
  /\ StartInLoop(state, TRUE, delay, timers)
  /\ UNCHANGED <<connection, life, loopVars, other>>

StopCallInLoop ==
  /\ InLoop /\ MayCall("stop") /\ Called("stop")
  /\ clientConnect' = FALSE /\ connect' = FALSE /\ stopped' = "called"
  /\ pending' = Append(pending, Functor("stopInLoop", None))
  /\ UNCHANGED <<conVars, connection, life, batch, phase, active, restarting, other, failed>>

\* ~TcpClient.  With a connection, the connector dies with the client (unless a
\* timer holds it), and ~Connector asserts !channel_.  unique: nobody else holds
\* the connection.
Destroy ==
  /\ InLoop /\ MayCall("destroy") /\ Called("destroy") /\ other = "idle"
  /\ \/ /\ connection # None
        /\ \E unique \in BOOLEAN :
             pending' = IF unique THEN Append(pending, Functor("forceClose", connection)) ELSE pending
        /\ life' = (IF timers = 0 THEN "gone" ELSE "held")
        /\ failed' = (IF timers = 0 /\ channel # None THEN "dtor" ELSE failed)
        /\ UNCHANGED connect
     \/ /\ connection = None
        /\ connect' = FALSE
        /\ pending' = Append(pending, Functor("stopInLoop", None))
        /\ life' = "held"
        /\ UNCHANGED failed
  /\ UNCHANGED <<clientConnect, conVars, connection, batch, phase, active, restarting, other, stopped>>

\* connection()->forceClose(), from either thread.
ForceClose ==
  /\ MayCall("forceClose") /\ Called("forceClose") /\ connection # None
  /\ pending' = Append(pending, Functor("forceClose", connection))
  /\ UNCHANGED <<clientConnect, connect, conVars, connection, life, batch, phase, active, restarting,
                 other, stopped, failed>>

\* disconnect clears the flag, and shuts the connection down (TcpConnection).
Disconnect ==
  /\ MayCall("disconnect") /\ Called("disconnect")
  /\ clientConnect' = FALSE
  /\ UNCHANGED <<connect, conVars, connection, life, loopVars, other, stopped, failed>>

\* connect and stop in another thread: each access is a step.
BeginOther(op) ==
  /\ "other" \in CallsIn /\ other = "idle" /\ MayCall(op) /\ Called(op)
  /\ clientConnect' = (op = "connect") /\ other' = op
  /\ stopped' = (IF op = "connect" THEN "no" ELSE stopped)
  /\ UNCHANGED <<connect, conVars, connection, life, loopVars, failed>>

\* The functor that a call of the other thread queues last.
InLoopOf(op) == IF op = "connect" THEN "startInLoop" ELSE "stopInLoop"

SetConnect(op) ==
  /\ failed = "none" /\ other = op
  /\ connect' = (op = "connect") /\ other' = InLoopOf(op)
  /\ stopped' = (IF op = "connect" THEN "no" ELSE IF restarting \/ clientConnect THEN "lost" ELSE "called")
  /\ UNCHANGED <<clientConnect, conVars, connection, life, loopVars, calls, failed>>

QueueOther(op) ==
  /\ failed = "none" /\ other = InLoopOf(op)
  /\ pending' = Append(pending, Functor(InLoopOf(op), None))
  /\ other' = "idle"
  /\ UNCHANGED <<clientConnect, connect, conVars, connection, life, batch, phase, active, restarting,
                 calls, stopped, failed>>

-----------------------------------------------------------------------------
LoopStep ==
  \/ Poll \/ TimerEvent \/ ConnectorEvent \/ CloseEvent \/ ReleaseConnector
  \/ BeginFunctors \/ EndFunctors \/ Restart
  \/ RunConnectorFunctor \/ RunForceClose \/ RunConnectDestroyed

OtherStep == \E op \in {"connect", "stop"} : SetConnect(op) \/ QueueOther(op)

UserStep ==
  \/ ConnectInLoop \/ StopCallInLoop \/ Destroy \/ ForceClose \/ Disconnect
  \/ \E op \in {"connect", "stop"} : BeginOther(op)

Next == LoopStep \/ OtherStep \/ UserStep

Spec == Init /\ [][Next]_vars

PollTimers == Poll /\ active'.timer > 0

\* The loop runs, a pending timer is reported, and a call that was begun is
\* finished.  Nobody has to call anything.
FairSpec == Spec /\ WF_vars(LoopStep) /\ SF_vars(PollTimers) /\ WF_vars(OtherStep)

-----------------------------------------------------------------------------
(* Properties *)

\* The retry delay stays between its two limits.
TypeOK ==
  /\ clientConnect \in BOOLEAN /\ connect \in BOOLEAN
  /\ state \in {"kDisconnected", "kConnecting", "kConnected"}
  /\ delay \in kInitRetryDelayMs..kMaxRetryDelayMs
  /\ channel \in Fds \cup {None} /\ registered \in BOOLEAN /\ timers \in Nat
  /\ connection \in Fds \cup {None} /\ open \subseteq Fds
  /\ life \in {"alive", "held", "gone"} /\ restarting \in BOOLEAN
  /\ phase \in {"poll", "handle", "functors"}
  /\ gaveUp \in BOOLEAN /\ stopped \in {"no", "called", "done", "lost"}
  /\ failed \in {"none", "startInLoop", "connecting", "dtor", "freed"}

\* The sockets that somebody will close: the one the connector waits for, the
\* one of the connection, and those of connections waiting for connectDestroyed.
Queued == {pending[i] : i \in DOMAIN pending} \cup {batch[i] : i \in DOMAIN batch}
Owned ==
  (IF registered THEN {channel} ELSE {}) \cup ({connection} \ {None})
    \cup {f.fd : f \in {q \in Queued : q.op = "connectDestroyed"}}

\* Every open socket has an owner and every owner an open socket: none leaks and
\* none is closed under its owner, whichever of error, retry, stop, close and
\* destruction comes first.
SocketsOwned == failed = "none" => open = Owned

\* A client connected once never has two attempts or connections side by side:
\* a start that is queued, a retry timer, a socket being connected and a
\* connection exclude each other.
OneAttempt ==
  LET queued == {i \in DOMAIN pending : pending[i].op = "startInLoop"}
      running == {i \in DOMAIN batch : batch[i].op = "startInLoop"}
  IN failed = "none" =>
       Cardinality(queued) + Cardinality(running) + timers
         + (IF registered THEN 1 ELSE 0) + (IF connection # None THEN 1 ELSE 0) <= 1

\* The assert of startInLoop, whoever calls it: state_ is kDisconnected; and the
\* assert of connecting: the channel of the last attempt is gone.  Only the end
\* of the client can run into others: a channel_ that is reset too late, or a
\* stopInLoop that comes after the connector.
AttemptAssertsHold ==
  /\ failed \notin {"startInLoop", "connecting"}
  /\ failed # "none" => life # "alive"

\* The bounds on the retry delay, the ownership of the sockets and the asserts.
ClientInv == TypeOK /\ SocketsOwned /\ AttemptAssertsHold

\* stop(): once stopInLoop was run the connector makes no more attempts, until
\* the user calls connect() again.  The exception is a stop() of another thread
\* whose connect_ = false falls between removeConnection's test of
\* TcpClient::connect_ and the connect_ = true of restart(): that one is lost
\* (as may be one that overlaps a connect()).
StopIsFinal == stopped = "done" => ~connect /\ state # "kConnecting"

\* As long as the user wants it, the client lives and connect(2) does not fail
\* for good, there is an attempt or a connection again and again: retry timers
\* keep firing, or the socket is being connected, or there is a connection.
Wanted == clientConnect /\ connect /\ ~gaveUp /\ life = "alive" /\ failed = "none"
KeepsTrying ==
  []<>(state = "kConnecting" \/ connection # None \/ ~Wanted) \/ []<><<TimerEvent>>_vars
=============================================================================
