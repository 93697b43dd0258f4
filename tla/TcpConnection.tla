--------------------------- MODULE TcpConnection ---------------------------
(***************************************************************************)
(* One connection of a TcpServer (net/tcpconnection.cpp and the parts of   *)
(* net/tcpserver.cpp, net/channel.{h,cpp} that it lives by), from          *)
(* newConnection to its destructor.                                        *)
(*                                                                         *)
(* The connection's loop runs handlers and functors one after the other;   *)
(* a handler is one step (the loop thread's other accesses to state_ can   *)
(* be moved to the ends of the handler).  Calls of other threads take one  *)
(* step per access to shared state.  functors is the FIFO of the           *)
(* connection's loop, removals counts the removeConnectionInLoop functors  *)
(* in the FIFO of the server's loop.                                       *)
(*                                                                         *)
(* A failed assert ends the process and is named in failed.  A byte is     *)
(* represented by the number of the message it belongs to.                 *)
(*                                                                         *)
(* Whoever makes a call keeps its TcpConnectionPtr until the functor of    *)
(* the call has run (send, shutdown, startRead and stopRead bind a raw     *)
(* this).  Bounds: MaxSends sends, one forceCloseWithDelay, one pending     *)
(* forceClose of the loop thread, one shutdown or forceClose per thread.   *)
(***************************************************************************)
EXTENDS Naturals, Sequences, FiniteSets

CONSTANTS
  Threads,        \* threads other than the connection's loop
  Uses,           \* the uses a program may make of the connection, see Use
  MaxSends, Lens, \* number of send calls, possible message lengths
  HighWaterMark

\* What other threads call, whether the server may be destroyed while the
\* connection is there, and whether the user calls startRead and stopRead.
Use == [remote : SUBSET {"send", "shutdown", "forceClose"},
        dies : BOOLEAN, reads : SUBSET {"up", "down"}]

ASSUME ConnConstants ==
  /\ Uses \subseteq Use
  /\ MaxSends \in Nat /\ Lens \subseteq Nat /\ HighWaterMark \in Nat

VARIABLES
  state, reading,     \* state_, reading_
  events, index,      \* the channel's events_ and index_ (of EPollPoller)
  output,             \* outputBuffer_
  wire, fin,          \* what the kernel took, and whether the write side is shut
  peer,               \* "open", "closed" (sent FIN) or "reset"
  functors, removals, \* the two FIFOs
  inMap, serverUp,    \* is the connection in connections_, is the server alive
  sharedLoop,         \* getNextLoop gave the connection the server's own loop
  use,                \* the program's use, chosen once
  delayed,            \* the forceCloseWithDelay timer: "no", "pending", "done"
  rc,                 \* where each other thread is in its call
  failed,             \* the assert that failed, or "none"
  sends, accepted, dropped, downs, dead   \* history

sock == <<wire, fin, peer>>
chan == <<reading, events, index>>
setup == <<sharedLoop, use>>
srv == <<inMap, serverUp, setup, removals>>
hist == <<accepted, dropped, downs, dead>>
vars == <<state, chan, output, sock, functors, srv, delayed, rc, failed, sends, hist>>

kConnecting == "kConnecting"
kConnected == "kConnected"
kDisconnecting == "kDisconnecting"
kDisconnected == "kDisconnected"
Up == state \in {kConnected, kDisconnecting}

\* A thread that is not in a call of this connection.
NoCall == [call |-> "none", at |-> "idle", msg |-> 0]

Running == failed = "none" /\ ~dead
isWriting == "W" \in events
isReading == "R" \in events

kNew == "kNew"
kAdded == "kAdded"
kDeleted == "kDeleted"

\* addedToLoop_ of the channel: update() sets it, remove() clears it.
addedToLoop == index # kNew

\* Channel::update with EPollPoller::updateChannel: an interest in nothing is
\* deleted from the kernel's list only if the channel was on it; otherwise the
\* channel is added, even without events (the kernel then still reports POLLHUP).
Update(ev) ==
  /\ events' = ev
  /\ index' = IF index = kAdded /\ ev = {} THEN kDeleted ELSE kAdded

\* TcpConnection::TcpConnection
Constructed ==
  /\ state = kConnecting /\ reading = TRUE /\ events = {} /\ index = kNew
  /\ output = <<>> /\ wire = <<>> /\ fin = FALSE /\ peer = "open" /\ delayed = "no"

\* EventLoopThreadPool::getNextLoop: the base loop if the pool has no threads,
\* otherwise the loop of one of them.
GetNextLoop == sharedLoop \in BOOLEAN

\* TcpServer::newConnection: the constructor, the map entry and the functor (or
\* the direct call, which is then the first step) of connectEstablished.
NewConnection ==
  /\ Constructed
  /\ functors = <<[op |-> "established"]>> /\ removals = 0
  /\ inMap = TRUE /\ serverUp = TRUE /\ GetNextLoop

Init ==
  /\ NewConnection
  /\ use \in Uses
  /\ rc = [t \in Threads |-> NoCall]
  /\ failed = "none"
  /\ sends = 0 /\ accepted = <<>> /\ dropped = FALSE /\ downs = 0 /\ dead = FALSE

\* An assert fails; the second form is for steps that do not set srv.
Abort(what) ==
  /\ failed' = what
  /\ UNCHANGED <<state, chan, output, sock, functors, delayed, rc, sends, hist>>

Fail(what) == Abort(what) /\ UNCHANGED srv

-----------------------------------------------------------------------------
(* Closing: handleClose, TcpServer::removeConnection, connectDestroyed.      *)
(* q is what remains of the functor queue when the handler starts.           *)

\* handleClose: down callback, then closeCallback_ = TcpServer::removeConnection,
\* which erases the connection at once or in the server's own loop.
HandleClose(q) ==
  \/ ~Up /\ Fail("handleClose")
  \/ Up /\ ~serverUp /\ Fail("server gone")
  \/ Up /\ serverUp /\ sharedLoop /\ ~inMap /\ Fail("erase")
  \/ /\ Up /\ serverUp /\ (sharedLoop => inMap)
     /\ state' = kDisconnected
     /\ Update({})
     /\ downs' = downs + 1
     /\ \/ /\ sharedLoop
           /\ inMap' = FALSE /\ functors' = Append(q, [op |-> "destroyed"])
           /\ UNCHANGED removals
        \/ /\ ~sharedLoop
           /\ removals' = removals + 1 /\ functors' = q
           /\ UNCHANGED inMap
     /\ UNCHANGED <<reading, output, sock, serverUp, setup, delayed, rc, failed,
                    sends, accepted, dropped, dead>>

\* removeConnectionInLoop, run by the server's loop when that is another one.
RemoveConnectionInLoop ==
  /\ Running /\ removals > 0 /\ serverUp
  /\ \/ ~inMap /\ Fail("erase")
     \/ /\ inMap
        /\ inMap' = FALSE /\ removals' = removals - 1
        /\ functors' = Append(functors, [op |-> "destroyed"])
        /\ UNCHANGED <<state, chan, output, sock, serverUp, setup, delayed, rc, failed, sends, hist>>

\* MUTANT of ConnectDestroyed: the channel is not removed from the loop.
ConnectDestroyedNoRemove(q) ==
  /\ state' = IF state = kConnected THEN kDisconnected ELSE state
  /\ events' = {}
  /\ downs' = IF state = kConnected THEN downs + 1 ELSE downs
  /\ functors' = q
  /\ UNCHANGED <<reading, index, output, sock, delayed, rc, failed,
                 sends, accepted, dropped, dead>>

\* MUTANT of ConnectDestroyed: the down callback is made whatever the state.
ConnectDestroyedAlwaysDown(q) ==
  /\ state' = kDisconnected
  /\ events' = {} /\ index' = kNew
  /\ downs' = downs + 1
  /\ functors' = q
  /\ UNCHANGED <<reading, output, sock, delayed, rc, failed,
                 sends, accepted, dropped, dead>>

\* connectDestroyed; Channel::remove asserts isNoneEvent().  Says nothing of srv.
ConnectDestroyed(q) ==
  \/ state # kConnected /\ events # {} /\ Abort("remove")
  \/ /\ state = kConnected \/ events = {}
     /\ state' = IF state = kConnected THEN kDisconnected ELSE state
     /\ events' = {} /\ index' = kNew
     /\ downs' = IF state = kConnected THEN downs + 1 ELSE downs
     /\ functors' = q
     /\ UNCHANGED <<reading, output, sock, delayed, rc, failed,
                    sends, accepted, dropped, dead>>

-----------------------------------------------------------------------------
(* Sending and shutting down *)

Message(m, n) == [i \in 1..n |-> m]

\* A write takes between 0 bytes (EWOULDBLOCK) and all of them; EPIPE or
\* ECONNRESET once the write side is shut or the peer is gone.
Broken == fin \/ peer = "reset"
CanTake(n) == IF Broken THEN {0} ELSE 0..n

\* MUTANT of Direct: sendInLoop writes past what is waiting in outputBuffer_.
DirectAlways == TRUE

\* "if no thing in output queue, try writing directly"
Direct == ~isWriting /\ output = <<>>

Callback(cond, name) == IF cond THEN <<[op |-> name]>> ELSE <<>>

\* sendInLoop of the bytes d.  Says nothing of sends.
SendInLoop(d, q) ==
  \/ /\ state = kDisconnected
     /\ functors' = q
     /\ UNCHANGED <<state, chan, output, sock, srv, delayed, rc, failed, hist>>
  \/ /\ state # kDisconnected
     /\ accepted' = accepted \o d
     /\ \E k \in IF Direct THEN CanTake(Len(d)) ELSE {0} :
          LET rest == SubSeq(d, k + 1, Len(d))
              fault == Direct /\ Broken
              keep == ~fault /\ rest # <<>>
              newLen == Len(output) + Len(rest)
              crossed == keep /\ newLen >= HighWaterMark /\ Len(output) < HighWaterMark
          IN /\ wire' = wire \o SubSeq(d, 1, k)
             /\ dropped' = (dropped \/ fault)
             /\ output' = IF keep THEN output \o rest ELSE output
             /\ IF keep /\ ~isWriting THEN Update(events \cup {"W"})
                                     ELSE UNCHANGED <<events, index>>
             /\ functors' = q \o Callback(Direct /\ ~fault /\ rest = <<>>, "complete")
                              \o Callback(crossed, "highWater")
     /\ UNCHANGED <<state, reading, fin, peer, srv, delayed, rc, failed,
                    downs, dead>>

\* MUTANT of ShutdownNow: shutdownInLoop does not look at isWriting().
ShutdownAlways == TRUE

\* shutdownInLoop shuts the write side, unless output is still to be written.
ShutdownNow == ~isWriting

ShutdownInLoop(q) ==
  /\ fin' = (fin \/ ShutdownNow)
  /\ functors' = q
  /\ UNCHANGED <<state, chan, output, wire, peer, srv, delayed, rc, failed, sends, hist>>

\* MUTANT of ShutdownAfterWrite: handleWrite forgets the pending shutdown.
NeverShutdownAfterWrite == FALSE

\* handleWrite finishes a shutdown() that found output waiting.
ShutdownAfterWrite == state = kDisconnecting

\* handleWrite, with the socket writable (or broken: the write fails, is logged).
HandleWrite ==
  /\ Running /\ index = kAdded /\ isWriting
  /\ \E k \in CanTake(Len(output)) \ {0} :
       LET done == k = Len(output) IN
       /\ wire' = wire \o SubSeq(output, 1, k)
       /\ output' = SubSeq(output, k + 1, Len(output))
       /\ IF done THEN Update(events \ {"W"}) ELSE UNCHANGED <<events, index>>
       /\ fin' = (fin \/ (done /\ ShutdownAfterWrite))
       /\ functors' = functors \o Callback(done, "complete")
  /\ UNCHANGED <<state, reading, peer, srv, delayed, rc, failed, sends, hist>>

-----------------------------------------------------------------------------
(* Events of the channel, and the peer *)

\* A channel that is on the kernel's list gets what it asked for, and POLLHUP
\* unasked: handleRead reads 0 bytes, or handleEvent sees POLLHUP without POLLIN.
HandleReadEof ==
  /\ Running /\ index = kAdded
  /\ \/ isReading /\ peer # "open"
     \/ ~isReading /\ (peer = "reset" \/ (fin /\ peer = "closed"))
  /\ HandleClose(functors)

PeerCloses ==
  /\ Running /\ peer = "open"
  /\ peer' \in {"closed", "reset"}
  /\ UNCHANGED <<state, chan, output, wire, fin, functors, srv, delayed, rc, failed, sends, hist>>

-----------------------------------------------------------------------------
(* Functors of the connection's loop *)

\* connectEstablished: kConnected, enableReading and the up callback.
ConnectEstablished(q) ==
  \/ state # kConnecting /\ Fail("established")
  \/ /\ state = kConnecting
     /\ state' = kConnected
     /\ Update({"R"})
     /\ functors' = q
     /\ UNCHANGED <<reading, output, sock, srv, delayed, rc, failed, sends, hist>>

\* MUTANT of ForceCloseInLoop: the state is not looked at again.
ForceCloseInLoopBlindly(q) == HandleClose(q)

ForceCloseInLoop(q) ==
  \/ Up /\ HandleClose(q)
  \/ /\ ~Up /\ functors' = q
     /\ UNCHANGED <<state, chan, output, sock, srv, delayed, rc, failed, sends, hist>>

\* A write-complete or high-water callback: user code.
UserCallback(q) ==
  /\ functors' = q
  /\ UNCHANGED <<state, chan, output, sock, srv, delayed, rc, failed, sends, hist>>

RunFunctor ==
  /\ Running /\ functors # <<>>
  /\ LET f == Head(functors)
         q == Tail(functors)
     IN \/ f.op = "established" /\ ConnectEstablished(q)
        \/ f.op = "send" /\ SendInLoop(f.data, q) /\ UNCHANGED sends
        \/ f.op = "shutdown" /\ ShutdownInLoop(q)
        \/ f.op = "forceClose" /\ ForceCloseInLoop(q)
        \/ f.op = "destroyed" /\ ConnectDestroyed(q) /\ UNCHANGED srv
        \/ f.op \in {"complete", "highWater"} /\ UserCallback(q)

-----------------------------------------------------------------------------
(* Calls of user code on the connection's loop *)

Established == Running /\ state # kConnecting

Send(n) ==
  /\ Running /\ sends < MaxSends /\ state = kConnected
  /\ SendInLoop(Message(sends + 1, n), functors)
  /\ sends' = sends + 1

Shutdown ==
  /\ Running /\ state = kConnected
  /\ state' = kDisconnecting
  /\ fin' = (fin \/ ShutdownNow)
  /\ UNCHANGED <<chan, output, wire, peer, functors, srv, delayed, rc, failed, sends, hist>>

\* At most one forceCloseInLoop of the loop thread is queued at a time (bound).
Queued(name) == \E i \in DOMAIN functors : functors[i].op = name

ForceClose ==
  /\ Running /\ Up /\ ~Queued("forceClose")
  /\ state' = kDisconnecting
  /\ functors' = Append(functors, [op |-> "forceClose"])
  /\ UNCHANGED <<chan, output, sock, srv, delayed, rc, failed, sends, hist>>

\* Used at most once per connection (bound).
ForceCloseWithDelay ==
  /\ Running /\ Up /\ delayed = "no"
  /\ state' = kDisconnecting
  /\ delayed' = "pending"
  /\ UNCHANGED <<chan, output, sock, functors, srv, rc, failed, sends, hist>>

\* The timer calls forceClose through a weak pointer.
DelayExpires ==
  /\ failed = "none" /\ delayed = "pending"
  /\ delayed' = "done"
  /\ state' = IF ~dead /\ Up THEN kDisconnecting ELSE state
  /\ functors' = IF ~dead /\ Up THEN Append(functors, [op |-> "forceClose"]) ELSE functors
  /\ UNCHANGED <<chan, output, sock, srv, rc, failed, sends, hist>>

MayCallRead == (IF state = kDisconnected THEN "down" ELSE "up") \in use.reads

StartRead ==
  /\ Established /\ MayCallRead
  /\ ~reading \/ ~isReading
  /\ Update(events \cup {"R"}) /\ reading' = TRUE
  /\ UNCHANGED <<state, output, sock, functors, srv, delayed, rc, failed, sends, hist>>

StopRead ==
  /\ Established /\ MayCallRead
  /\ reading \/ isReading
  /\ Update(events \ {"R"}) /\ reading' = FALSE
  /\ UNCHANGED <<state, output, sock, functors, srv, delayed, rc, failed, sends, hist>>

-----------------------------------------------------------------------------
(* Calls of other threads: test of state_, store to it, push of the functor *)

RemoteTest(t, c) ==
  /\ Running /\ rc[t] = NoCall
  /\ state = kConnected \/ (c = "forceClose" /\ state = kDisconnecting)
  /\ c = "send" => sends < MaxSends
  /\ rc' = [rc EXCEPT ![t] =
       [call |-> c, at |-> IF c = "send" THEN "push" ELSE "store", msg |-> sends + 1]]
  /\ sends' = IF c = "send" THEN sends + 1 ELSE sends
  /\ UNCHANGED <<state, chan, output, sock, functors, srv, delayed, failed,
                 accepted, dropped, downs, dead>>

RemoteStore(t) ==
  /\ Running /\ rc[t].at = "store"
  /\ state' = kDisconnecting
  /\ rc' = [rc EXCEPT ![t].at = "push"]
  /\ UNCHANGED <<chan, output, sock, functors, srv, delayed, failed, sends, hist>>

RemotePush(t, n) ==
  /\ Running /\ rc[t].at = "push"
  /\ functors' = Append(functors,
       [op |-> rc[t].call,
        data |-> IF rc[t].call = "send" THEN Message(rc[t].msg, n) ELSE <<>>])
  /\ rc' = [rc EXCEPT ![t] = IF rc[t].call = "send" THEN NoCall ELSE [@ EXCEPT !.at = "done"]]
  /\ UNCHANGED <<state, chan, output, sock, srv, delayed, failed, sends, hist>>

-----------------------------------------------------------------------------
(* The end *)

\* ~TcpServer on the server's loop: connectDestroyed at once, or queued.
ServerDestroyed ==
  /\ Running /\ use.dies /\ serverUp
  /\ sharedLoop => state # kConnecting
  /\ serverUp' = FALSE /\ inMap' = FALSE
  /\ \/ /\ ~inMap
        /\ UNCHANGED <<state, chan, output, sock, functors, delayed, rc, failed, sends, hist>>
     \/ inMap /\ sharedLoop /\ ConnectDestroyed(functors)
     \/ /\ inMap /\ ~sharedLoop
        /\ functors' = Append(functors, [op |-> "destroyed"])
        /\ UNCHANGED <<state, chan, output, sock, delayed, rc, failed, sends, hist>>
  /\ UNCHANGED <<removals, setup>>

\* The last TcpConnectionPtr goes away: the asserts of the two destructors.
Destroy ==
  /\ Running /\ ~inMap /\ functors = <<>> /\ removals = 0
  /\ \A t \in Threads : rc[t].at \in {"idle", "done"}
  /\ \/ (state # kDisconnected \/ addedToLoop) /\ Fail("destructor")
     \/ /\ state = kDisconnected /\ ~addedToLoop
        /\ dead' = TRUE
        /\ UNCHANGED <<state, chan, output, sock, functors, srv, delayed, rc, failed,
                       sends, accepted, dropped, downs>>

-----------------------------------------------------------------------------
LoopStep == RunFunctor \/ HandleReadEof

UserStep ==
  \/ \E n \in Lens : Send(n)
  \/ Shutdown \/ ForceClose \/ ForceCloseWithDelay \/ StartRead \/ StopRead

RemoteGoesOn(t) == RemoteStore(t) \/ \E n \in Lens : RemotePush(t, n)

RemoteStep(t) == (\E c \in use.remote : RemoteTest(t, c)) \/ RemoteGoesOn(t)

Next ==
  \/ LoopStep \/ HandleWrite \/ RemoveConnectionInLoop \/ UserStep
  \/ DelayExpires \/ PeerCloses \/ ServerDestroyed \/ Destroy
  \/ \E t \in Threads : RemoteStep(t)

Spec == Init /\ [][Next]_vars

\* Both loops run, timers expire, calls of other threads return; a socket whose
\* peer is up becomes writable in the end.  Nothing is assumed of when the user
\* calls or of what the peer does.
FairSpec ==
  /\ Spec
  /\ WF_vars(LoopStep) /\ WF_vars(HandleWrite) /\ WF_vars(RemoveConnectionInLoop)
  /\ WF_vars(DelayExpires) /\ \A t \in Threads : WF_vars(RemoteGoesOn(t))

-----------------------------------------------------------------------------
(* Properties *)

Ops == {"established", "send", "shutdown", "forceClose", "destroyed", "complete", "highWater"}

\* Types; a channel that asks for events is on the list of the kernel.
TypeOK ==
  /\ state \in {kConnecting, kConnected, kDisconnecting, kDisconnected}
  /\ reading \in BOOLEAN /\ events \subseteq {"R", "W"}
  /\ index \in {kNew, kAdded, kDeleted} /\ (events # {} => index = kAdded)
  /\ fin \in BOOLEAN /\ peer \in {"open", "closed", "reset"}
  /\ \A i \in DOMAIN functors : functors[i].op \in Ops
  /\ removals \in Nat /\ inMap \in BOOLEAN /\ serverUp \in BOOLEAN
  /\ sharedLoop \in BOOLEAN /\ delayed \in {"no", "pending", "done"}
  /\ \A t \in Threads : rc[t].at \in {"idle", "store", "push", "done"}
  /\ sends \in 0..MaxSends /\ downs \in Nat /\ dropped \in BOOLEAN /\ dead \in BOOLEAN

\* The output buffer and the subscription to POLLOUT agree until the connection
\* goes down: pending bytes are never forgotten, and the loop does not spin on a
\* writable socket with nothing to write.
WritingIffPending == Up /\ downs = 0 => (isWriting <=> output # <<>>)

\* Until a write fails, what the kernel took followed by what waits in
\* outputBuffer_ is every message accepted by sendInLoop, in order, whole.
StreamIntact == ~dropped => wire \o output = accepted

\* shutdown() never cuts off bytes that were waiting: while the connection is
\* up, the write side is shut only once they are out.
FinAfterData == fin /\ downs = 0 => output = <<>>

\* The output side of a connection that is up: nothing waits unwatched, nothing
\* is cut off.
OutputInv == TypeOK /\ WritingIffPending /\ FinAfterData

\* Another thread closes the connection: it tests state_ before it stores to it,
\* and may undo the kDisconnected of a handleClose in between.
RemoteCloses == use.remote \cap {"shutdown", "forceClose"} # {}

\* The asserts a use can run into.  An undone kDisconnected lets handleClose run
\* twice, and a send or startRead subscribe a channel that is to be removed; only
\* after a shutdown does no forceClose follow that sets it right.  The end of the
\* server finds a half-closed connection with its channel still reading (or, after
\* a stopRead, silent but not down), or a connection that calls it afterwards.  A
\* channel emptied by stopRead is put back on the kernel's list by disableAll and
\* reports POLLHUP again; a startRead after the end subscribes it for good.
Exposed(a) ==
  \/ a = "handleClose" /\ (RemoteCloses \/ use.reads # {})
  \/ a = "erase" /\ RemoteCloses
  \/ a = "server gone" /\ use.dies
  \/ /\ a = "remove"
     /\ \/ use.dies \/ "down" \in use.reads
        \/ RemoteCloses /\ ("send" \in use.remote \/ use.reads # {})
  \/ /\ a = "destructor"
     /\ \/ "shutdown" \in use.remote \/ "down" \in use.reads
        \/ use.dies /\ use.reads # {}

\* The asserts on this path (handleClose's and the destructor's on state_,
\* TcpServer's on the map, Channel::remove's on events_) hold for a program that
\* closes connections in their loop and leaves reading and the server alone, and
\* every other use fails no more of them than it is exposed to.
AssertsHold == failed = "none" \/ Exposed(failed)

\* The user sees at most one "down" per connection, and sees it before the
\* object is destroyed, unless another thread closes the connection.
DownOnce == use.remote \subseteq {"send"} => downs <= 1 /\ (dead => downs = 1)

\* shutdown() completes even if it found the output buffer full.
ShutdownCompletes ==
  (state = kDisconnecting /\ peer = "open") ~>
    (fin \/ downs > 0 \/ peer # "open" \/ failed # "none")

\* A connection that is down leaves the server's map and the poller.
ClosedIsRemoved ==
  (state = kDisconnected) ~> ((~inMap /\ ~addedToLoop) \/ failed # "none")
=============================================================================
