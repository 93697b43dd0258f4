----------------------------- MODULE TcpServer -----------------------------
(***************************************************************************)
(* A TcpServer with its Acceptor and its EventLoopThreadPool               *)
(* (net/tcpserver.cpp, net/acceptor.cpp, net/eventloopthreadpool.cpp):     *)
(* several connections on several loops, the descriptor table of the       *)
(* process, and the destructor that quits and joins the I/O threads.       *)
(*                                                                         *)
(* Loop 0 is the server's own loop, loops 1.. are those of the pool, which *)
(* handle events in phase "poll" and functors in phase "run"; batch counts *)
(* what doPendingFunctors has swapped out and not yet run.  Loop 0 is not  *)
(* quit, so that it is a plain FIFO of functors (module EventLoop); a      *)
(* program that ends it before it destroys the server is one in which it   *)
(* takes no more steps.  That the quit of ~EventLoopThread comes after     *)
(* loop()'s own reset of quit_ is what module EventLoopThread examines.    *)
(*                                                                         *)
(* Of a connection this module keeps state_, and of its channel what the   *)
(* asserts at its end depend on; the rest is module TcpConnection.  User   *)
(* code calls shutdown, forceClose and stopRead from callbacks of the      *)
(* connection's own loop; it keeps no TcpConnectionPtr and no threadPool() *)
(* pointer.  The descriptors of the loops and of the listening socket are  *)
(* not among Fds.  Bounds: MaxClients clients, MaxThreads threads,         *)
(* MaxOthers descriptors in other hands.                                   *)
(***************************************************************************)
EXTENDS Integers, Sequences, FiniteSets

CONSTANTS
  MaxClients, MaxThreads, MaxOthers,
  LastFd                      \* RLIMIT_NOFILE: descriptors are 0..LastFd

ASSUME ServerConstants ==
  /\ MaxClients \in Nat /\ MaxThreads \in Nat /\ MaxOthers \in Nat
  /\ LastFd \in Nat \ {0}

Base == 0
IoLoops == 1..MaxThreads
Loops == {Base} \cup IoLoops
Conns == 1..MaxClients        \* the numbers in the connections' names
Fds == 0..LastFd
NoFd == -1

VARIABLES
  \* TcpServer, Acceptor and EventLoopThreadPool, all used by loop 0 only
  pc,                         \* where the thread of loop 0 is, see PCs
  started, numThreads, next,  \* started_, numThreads_, next_
  loopsSize,                  \* loops_.size()
  listenning, idleFd,
  nextConnId, connections,    \* nextConnId_, the keys of connections_
  joining,                    \* the thread ~EventLoopThreadPool is destroying
  \* the loops
  phase, batch, functors, quit,
  \* the connections: stage, loop and descriptor
  stage, loopOf, fdOf,
  \* the kernel, and the rest of the process
  open, backlog, arrived, others,
  \* the assert that failed, and connections in functors no loop will run
  failed, dropped

poolVars == <<started, numThreads, next, loopsSize>>
acceptVars == <<listenning, idleFd>>
srvVars == <<poolVars, acceptVars, nextConnId, joining>>
loopVars == <<phase, batch, quit>>
kernelVars == <<backlog, arrived, others>>
connVars == <<connections, functors, stage, open, failed>>
vars == <<pc, srvVars, loopVars, connVars, loopOf, fdOf, kernelVars, dropped>>

PCs == {"loop", "refuse", "reopen", "dtor", "quit", "join", "gone"}
\* kConnecting, kConnected ("up"), kDisconnecting ("half"), kDisconnected: "down"
\* or "relisted", see ForceCloseInLoop, and "destroyed" after connectDestroyed.
Stages == {"none", "connecting", "up", "half", "down", "relisted", "destroyed", "dead"}
Alive == {"connecting", "up", "half", "down", "relisted", "destroyed"}
Up == {"up", "half"}
Down == {"down", "relisted"}

Running == failed = "none"
Least(S) == CHOOSE x \in S : \A y \in S : x <= y
Free == Fds \ open

\* The constructors of Acceptor (idleFd_ is opened), EventLoopThreadPool and
\* TcpServer.  Descriptor 0 is the standard input.
Init ==
  /\ pc = "loop" /\ started = FALSE /\ numThreads = 0 /\ next = 0 /\ loopsSize = 0
  /\ listenning = FALSE /\ idleFd = 1
  /\ nextConnId = 1 /\ connections = {} /\ joining = 0
  /\ phase = [l \in IoLoops |-> "none"] /\ batch = [l \in IoLoops |-> 0]
  /\ quit = [l \in IoLoops |-> FALSE] /\ functors = [l \in Loops |-> <<>>]
  /\ stage = [c \in Conns |-> "none"]
  /\ loopOf = [c \in Conns |-> Base] /\ fdOf = [c \in Conns |-> NoFd]
  /\ open = {0, 1} /\ backlog = 0 /\ arrived = 0 /\ others = {0}
  /\ failed = "none" /\ dropped = {}

-----------------------------------------------------------------------------
(* References *)

Holds(q, c) == \E i \in DOMAIN q : q[i].c = c
Referenced(c, map, q) == c \in map \/ \E l \in Loops : Holds(q[l], c)

\* The end of a step that leaves the stages st, the keys map and the queues q.
\* A connection nobody points to is destroyed and its descriptor closed; its
\* destructor and that of its channel assert that connectDestroyed was run.
Settle(st, map, q) ==
  LET last == {c \in Conns : st[c] \in Alive /\ ~Referenced(c, map, q)}
  IN /\ stage' = [c \in Conns |-> IF c \in last THEN "dead" ELSE st[c]]
     /\ connections' = map /\ functors' = q
     /\ open' = open \ {fdOf[c] : c \in last}
     /\ failed' = IF \A c \in last : st[c] = "destroyed" THEN failed ELSE "destructor"

Abort(what) == failed' = what /\ UNCHANGED <<connections, functors, stage, open>>

Push(q, l, op, c) == [q EXCEPT ![l] = Append(@, [op |-> op, c |-> c])]

-----------------------------------------------------------------------------
(* Starting *)

SetThreadNum(n) ==
  /\ Running /\ pc = "loop" /\ ~started /\ numThreads # n
  /\ numThreads' = n
  /\ UNCHANGED <<pc, started, next, loopsSize, acceptVars, nextConnId, joining,
                 loopVars, connVars, loopOf, fdOf, kernelVars, dropped>>

\* TcpServer::start, EventLoopThreadPool::start and Acceptor::listen.  A second
\* call finds started_ set and does nothing.
Start ==
  /\ Running /\ pc = "loop" /\ ~started
  /\ started' = TRUE /\ loopsSize' = numThreads /\ listenning' = TRUE
  /\ phase' = [l \in IoLoops |-> IF l <= numThreads THEN "poll" ELSE "none"]
  /\ UNCHANGED <<pc, numThreads, next, idleFd, nextConnId, joining, batch, quit,
                 connVars, loopOf, fdOf, kernelVars, dropped>>

-----------------------------------------------------------------------------
(* Accepting *)

ClientArrives ==
  /\ Running /\ listenning /\ arrived < MaxClients
  /\ arrived' = arrived + 1 /\ backlog' = backlog + 1
  /\ UNCHANGED <<pc, srvVars, loopVars, connVars, loopOf, fdOf, others, dropped>>

\* EventLoopThreadPool::getNextLoop: round robin over loops_, which is indexed
\* from 0, or the base loop.
NextLoop == IF loopsSize = 0 THEN Base ELSE next + 1

\* MUTANT of NextAfter: next_ goes back to 0 one place too early.
NextAfterEarly == IF loopsSize = 0 \/ next + 2 >= loopsSize THEN 0 ELSE next + 1

NextAfter == IF loopsSize = 0 \/ next + 1 >= loopsSize THEN 0 ELSE next + 1

\* TcpServer::newConnection: connectEstablished is run at once if the loop is
\* the server's own, and queued otherwise.
NewConnection(connfd) ==
  LET c == nextConnId
      shared == NextLoop = Base
  IN /\ next' = NextAfter /\ nextConnId' = nextConnId + 1
     /\ loopOf' = [loopOf EXCEPT ![c] = NextLoop]
     /\ fdOf' = [fdOf EXCEPT ![c] = connfd]
     /\ connections' = connections \cup {c}
     /\ stage' = [stage EXCEPT ![c] = IF shared THEN "up" ELSE "connecting"]
     /\ functors' = IF shared THEN functors ELSE Push(functors, NextLoop, "established", c)

Readable == Running /\ pc = "loop" /\ listenning /\ backlog > 0

\* handleRead gets a descriptor that it takes for one: "if (connfd > 0)".
AcceptConnection ==
  /\ Readable /\ Free # {} /\ Least(Free) > 0
  /\ open' = open \cup {Least(Free)} /\ backlog' = backlog - 1
  /\ NewConnection(Least(Free))
  /\ UNCHANGED <<pc, started, numThreads, loopsSize, acceptVars, joining, loopVars,
                 arrived, others, failed, dropped>>

\* handleRead's EMFILE branch begins: the reserved descriptor is closed.
CloseIdle(o) == pc' = "refuse" /\ idleFd' = NoFd /\ open' = o \ {idleFd}

\* accept returns 0, which handleRead takes for a failure; errno is what an
\* earlier call left in it.
AcceptZero ==
  /\ Readable /\ 0 \in Free
  /\ backlog' = backlog - 1
  /\ \/ open' = open \cup {0} /\ UNCHANGED <<pc, idleFd>>
     \/ CloseIdle(open \cup {0})
  /\ UNCHANGED <<poolVars, listenning, nextConnId, joining, loopVars, connections,
                 functors, stage, failed, loopOf, fdOf, arrived, others, dropped>>

\* MUTANT of AcceptEmfile: the error is logged and nothing is done about it.
AcceptEmfileLogged == Readable /\ Free = {} /\ UNCHANGED vars

AcceptEmfile ==
  /\ Readable /\ Free = {}
  /\ CloseIdle(open)
  /\ UNCHANGED <<poolVars, listenning, nextConnId, joining, loopVars, connections,
                 functors, stage, failed, loopOf, fdOf, kernelVars, dropped>>

\* accept fails for another reason, such as ECONNABORTED: nothing is done.
AcceptAborted ==
  /\ Readable
  /\ backlog' = backlog - 1
  /\ UNCHANGED <<pc, srvVars, loopVars, connVars, loopOf, fdOf, arrived, others, dropped>>

Accept == AcceptConnection \/ AcceptZero \/ AcceptEmfile
HandleRead == Accept \/ AcceptAborted

\* MUTANT of Refuse: the connection that was accepted is not closed.
RefuseKeepsOpen ==
  /\ Running /\ pc = "refuse" /\ pc' = "reopen"
  /\ IF Free # {} /\ backlog > 0
       THEN backlog' = backlog - 1 /\ open' = open \cup {Least(Free)}
       ELSE UNCHANGED <<backlog, open>>
  /\ UNCHANGED <<srvVars, loopVars, connections, functors, stage, failed,
                 loopOf, fdOf, arrived, others, dropped>>

\* accept into idleFd_ and close it at once.  Another thread may have taken the
\* descriptor, or nobody is waiting: accept then fails, and so does close(-1).
Refuse ==
  /\ Running /\ pc = "refuse" /\ pc' = "reopen"
  /\ backlog' = IF Free # {} /\ backlog > 0 THEN backlog - 1 ELSE backlog
  /\ UNCHANGED <<srvVars, loopVars, connVars, loopOf, fdOf, arrived, others, dropped>>

\* "/dev/null" is opened again, if there is a descriptor for it.
Reopen ==
  /\ Running /\ pc = "reopen" /\ pc' = "loop"
  /\ idleFd' = IF Free = {} THEN NoFd ELSE Least(Free)
  /\ open' = (open \cup {idleFd'}) \ {NoFd}
  /\ UNCHANGED <<poolVars, listenning, nextConnId, joining, loopVars, connections,
                 functors, stage, failed, loopOf, fdOf, kernelVars, dropped>>

\* Code elsewhere in the process opens and closes descriptors.
OtherOpens ==
  /\ Running /\ Free # {} /\ Cardinality(others) < MaxOthers
  /\ others' = others \cup {Least(Free)} /\ open' = open \cup {Least(Free)}
  /\ UNCHANGED <<pc, srvVars, loopVars, connections, functors, stage, failed,
                 loopOf, fdOf, backlog, arrived, dropped>>

OtherCloses(f) ==
  /\ Running /\ f \in others
  /\ others' = others \ {f} /\ open' = open \ {f}
  /\ UNCHANGED <<pc, srvVars, loopVars, connections, functors, stage, failed,
                 loopOf, fdOf, backlog, arrived, dropped>>

-----------------------------------------------------------------------------
(* The loops *)

\* Is the thread of loop l handling events, or at its next functor?
Handling(l) == Running /\ IF l = Base THEN pc \in {"loop", "gone"} ELSE phase[l] = "poll"
Calling(l) ==
  Running /\ IF l = Base THEN pc \in {"loop", "gone"} ELSE phase[l] \in {"poll", "run"}
AtFunctor(l) ==
  /\ Running /\ functors[l] # <<>>
  /\ IF l = Base THEN pc \in {"loop", "gone"} ELSE phase[l] = "run" /\ batch[l] > 0

\* A callback of a connection calls shutdown, forceClose or its delayed form.
Disconnect(c) ==
  /\ Calling(loopOf[c]) /\ stage[c] = "up"
  /\ stage' = [stage EXCEPT ![c] = "half"]
  /\ UNCHANGED <<pc, srvVars, loopVars, connections, functors, open, failed,
                 loopOf, fdOf, kernelVars, dropped>>

\* TcpConnection::handleClose and TcpServer::removeConnection, which erases at
\* once in the server's own loop; disableAll() leaves the connection in stage s.
Close(c, s) ==
  LET l == loopOf[c]
      st == [stage EXCEPT ![c] = s]
  IN /\ \/ l = Base /\ c \notin connections /\ Abort("erase")
        \/ /\ l = Base /\ c \in connections
           /\ Settle(st, connections \ {c}, Push(functors, Base, "destroyed", c))
        \/ l # Base /\ Settle(st, connections, Push(functors, Base, "removal", c))
     /\ UNCHANGED <<pc, srvVars, loopVars, loopOf, fdOf, kernelVars, dropped>>

\* The loop of a connection sees its end.  A channel that has an event is in the
\* kernel's list, and disableAll() takes it out.
HandleClose(c) == Handling(loopOf[c]) /\ stage[c] \in Up /\ Close(c, "down")

\* forceClose, after Disconnect, queues forceCloseInLoop.  If stopRead() had left
\* the channel no events, disableAll() puts it back into the list, with none.
ForceCloseInLoop(c) ==
  /\ Calling(loopOf[c]) /\ (loopOf[c] # Base => phase[loopOf[c]] = "run")
  /\ stage[c] = "half"
  /\ \E s \in Down : Close(c, s)

\* epoll reports a hangup for a channel without events too: handleClose is called
\* again, and its assert on state_ fails.
HangUp(c) ==
  /\ Handling(loopOf[c]) /\ stage[c] = "relisted"
  /\ Abort("double close")
  /\ UNCHANGED <<pc, srvVars, loopVars, loopOf, fdOf, kernelVars, dropped>>

\* poll returns, events are handled, doPendingFunctors swaps the queue out.
Swap(l) ==
  /\ Handling(l)
  /\ phase' = [phase EXCEPT ![l] = "run"]
  /\ batch' = [batch EXCEPT ![l] = Len(functors[l])]
  /\ UNCHANGED <<pc, srvVars, quit, connVars, loopOf, fdOf, kernelVars, dropped>>

\* TcpConnection::connectEstablished, connectDestroyed, on the stage of c.
ConnectEstablished(c, q) ==
  \/ stage[c] # "connecting" /\ Abort("established")
  \/ /\ stage[c] = "connecting"
     /\ Settle([stage EXCEPT ![c] = "up"], connections, q)

\* A half-closed connection is not disabled: the assert(isNoneEvent()) of its
\* channel fails, or, if it does not read, the one of its destructor on state_.
ConnectDestroyed(c, map, q) ==
  \/ stage[c] = "half" /\ Abort("half closed")
  \/ stage[c] \notin Up \cup Down /\ Abort("remove")
  \/ /\ stage[c] \in {"up"} \cup Down
     /\ Settle([stage EXCEPT ![c] = "destroyed"], map, q)

\* MUTANT of RemoveConnectionInLoop: the connection stays in the map.
RemoveConnectionKeepsKey(c, q) ==
  Settle(stage, connections, Push(q, loopOf[c], "destroyed", c))

\* TcpServer::removeConnectionInLoop.  Its this is gone after ~TcpServer.
RemoveConnectionInLoop(c, q) ==
  \/ pc = "gone" /\ Abort("server gone")
  \/ pc # "gone" /\ c \notin connections /\ Abort("erase")
  \/ /\ pc # "gone" /\ c \in connections
     /\ Settle(stage, connections \ {c}, Push(q, loopOf[c], "destroyed", c))

RunFunctor(l) ==
  /\ AtFunctor(l)
  /\ LET f == Head(functors[l])
         q == [functors EXCEPT ![l] = Tail(@)]
     IN \/ f.op = "established" /\ ConnectEstablished(f.c, q)
        \/ f.op = "destroyed" /\ ConnectDestroyed(f.c, connections, q)
        \/ f.op = "removal" /\ RemoveConnectionInLoop(f.c, q)
  /\ batch' = IF l = Base THEN batch ELSE [batch EXCEPT ![l] = @ - 1]
  /\ UNCHANGED <<pc, srvVars, phase, quit, loopOf, fdOf, kernelVars, dropped>>

\* The test of quit_ at the head of the loop.
NextIteration(l) ==
  /\ Running /\ phase[l] = "run" /\ batch[l] = 0 /\ ~quit[l]
  /\ phase' = [phase EXCEPT ![l] = "poll"]
  /\ UNCHANGED <<pc, srvVars, batch, quit, connVars, loopOf, fdOf, kernelVars, dropped>>

\* loop() returns; the loop is destroyed with what is in its queue.
LoopEnds(l) ==
  /\ Running /\ phase[l] = "run" /\ batch[l] = 0 /\ quit[l]
  /\ phase' = [phase EXCEPT ![l] = "exited"]
  /\ dropped' = dropped \cup {functors[l][i].c : i \in DOMAIN functors[l]}
  /\ Settle(stage, connections, [functors EXCEPT ![l] = <<>>])
  /\ UNCHANGED <<pc, srvVars, batch, quit, loopOf, fdOf, kernelVars>>

-----------------------------------------------------------------------------
(* ~TcpServer, from a callback of loop 0 or after it *)

DestroyServer ==
  /\ Running /\ pc = "loop"
  /\ pc' = "dtor"
  /\ UNCHANGED <<srvVars, loopVars, connVars, loopOf, fdOf, kernelVars, dropped>>

\* MUTANT of DestroyConnection: the map is emptied and nothing more.
ForgetConnection(c) ==
  /\ Running /\ pc = "dtor" /\ c \in connections
  /\ connections' = connections \ {c}
  /\ UNCHANGED <<pc, srvVars, loopVars, functors, stage, open, failed,
                 loopOf, fdOf, kernelVars, dropped>>

\* One round of its loop: connectDestroyed at once, or in the connection's loop.
DestroyConnection(c) ==
  /\ Running /\ pc = "dtor" /\ c \in connections
  /\ \/ loopOf[c] = Base /\ ConnectDestroyed(c, connections \ {c}, functors)
     \/ /\ loopOf[c] # Base
        /\ Settle(stage, connections \ {c}, Push(functors, loopOf[c], "destroyed", c))
  /\ UNCHANGED <<pc, srvVars, loopVars, loopOf, fdOf, kernelVars, dropped>>

\* The members: threadPool_ first, that is, the threads in turn, ...
DestroyPool ==
  /\ Running /\ pc = "dtor" /\ connections = {}
  /\ pc' = "quit" /\ joining' = 1
  /\ UNCHANGED <<poolVars, acceptVars, nextConnId, loopVars, connVars, loopOf, fdOf, kernelVars, dropped>>

\* MUTANT of QuitThread: ~EventLoopThread joins without a quit.
JoinOnly ==
  /\ Running /\ pc = "quit" /\ joining <= loopsSize
  /\ pc' = "join"
  /\ UNCHANGED <<srvVars, loopVars, connVars, loopOf, fdOf, kernelVars, dropped>>

QuitThread ==
  /\ Running /\ pc = "quit" /\ joining <= loopsSize
  /\ quit' = [quit EXCEPT ![joining] = TRUE]
  /\ pc' = "join"
  /\ UNCHANGED <<srvVars, phase, batch, connVars, loopOf, fdOf, kernelVars, dropped>>

JoinThread ==
  /\ Running /\ pc = "join" /\ phase[joining] = "exited"
  /\ pc' = "quit" /\ joining' = joining + 1
  /\ UNCHANGED <<poolVars, acceptVars, nextConnId, loopVars, connVars, loopOf, fdOf, kernelVars, dropped>>

\* ... then acceptor_: the listening socket and idleFd_ are closed.
DestroyAcceptor ==
  /\ Running /\ pc = "quit" /\ joining > loopsSize
  /\ pc' = "gone" /\ listenning' = FALSE /\ idleFd' = NoFd
  /\ open' = open \ {idleFd} /\ backlog' = 0
  /\ UNCHANGED <<poolVars, nextConnId, joining, loopVars, connections, functors, stage,
                 failed, loopOf, fdOf, arrived, others, dropped>>

-----------------------------------------------------------------------------
IoStep(l) == Swap(l) \/ RunFunctor(l) \/ NextIteration(l) \/ LoopEnds(l)

Destructor ==
  \/ \E c \in Conns : DestroyConnection(c)
  \/ DestroyPool \/ QuitThread \/ JoinThread \/ DestroyAcceptor

Next ==
  \/ (\E n \in 0..MaxThreads : SetThreadNum(n)) \/ Start
  \/ ClientArrives \/ HandleRead \/ Refuse \/ Reopen
  \/ OtherOpens \/ \E f \in Fds : OtherCloses(f)
  \/ (\E c \in Conns : Disconnect(c) \/ HandleClose(c) \/ ForceCloseInLoop(c) \/ HangUp(c))
  \/ RunFunctor(Base)
  \/ (\E l \in IoLoops : IoStep(l)) \/ DestroyServer \/ Destructor

Spec == Init /\ [][Next]_vars

\* The threads keep running and user callbacks return.  poll() is level
\* triggered and reports a listening socket with a backlog again and again;
\* each time loop 0 also gets to its functors.  Nothing is assumed of clients
\* (that they give up, least of all), of other descriptors or of the program.
FairSpec ==
  /\ Spec
  /\ \A l \in IoLoops : WF_vars(IoStep(l))
  /\ SF_vars(RunFunctor(Base)) /\ WF_vars(Accept) /\ WF_vars(Refuse \/ Reopen)
  /\ WF_vars(Destructor)

-----------------------------------------------------------------------------
(* Properties *)

Functors == [op : {"established", "destroyed", "removal"}, c : Conns]

TypeOK ==
  /\ pc \in PCs /\ started \in BOOLEAN /\ listenning \in BOOLEAN
  /\ numThreads \in 0..MaxThreads /\ loopsSize \in 0..MaxThreads
  /\ next \in 0..loopsSize /\ (loopsSize > 0 => next < loopsSize)
  /\ idleFd \in Fds \cup {NoFd} /\ nextConnId \in 1..(MaxClients + 1)
  /\ connections \subseteq Conns /\ joining \in 0..(MaxThreads + 1)
  /\ phase \in [IoLoops -> {"none", "poll", "run", "exited"}]
  /\ quit \in [IoLoops -> BOOLEAN]
  /\ \A l \in Loops : functors[l] \in Seq(Functors)
  /\ \A l \in IoLoops : batch[l] \in 0..Len(functors[l])
  /\ stage \in [Conns -> Stages]
  /\ loopOf \in [Conns -> Loops] /\ fdOf \in [Conns -> Fds \cup {NoFd}]
  /\ open \subseteq Fds /\ others \subseteq open
  /\ arrived \in 0..MaxClients /\ backlog \in 0..arrived
  /\ dropped \subseteq Conns

Live == {c \in Conns : stage[c] \in Alive}
Idle == {idleFd} \ {NoFd}
Owned == Idle \cup others \cup {fdOf[c] : c \in Live}

\* Every open descriptor has one owner, so none is leaked and none can be closed
\* by two: not in the EMFILE branch either, whatever other threads do between
\* its calls.  The exception is 0, which "connfd > 0" lets slip.
OneOwner ==
  /\ Owned \subseteq open /\ open \ Owned \subseteq {0}
  /\ Idle \cap others = {}
  /\ \A c \in Live : fdOf[c] \notin Idle \cup others
  /\ \A c, d \in Live : fdOf[c] = fdOf[d] => c = d

Queued(op, c) ==
  UNION {{l} \X {i \in DOMAIN functors[l] : functors[l][i] = [op |-> op, c |-> c]} : l \in Loops}

Serving == pc \in {"loop", "refuse", "reopen"}

\* While the server is there each connection takes its stages in turn, in two
\* queues: it is in the map until its removal is run, and exactly one functor
\* is on its way to take it to the next stage.
StagesInTurn ==
  Running /\ Serving => \A c \in Conns :
    LET waiting == [op \in {"established", "destroyed", "removal"} |->
                      Cardinality(Queued(op, c))]
    IN /\ waiting["established"] = (IF stage[c] = "connecting" THEN 1 ELSE 0)
       /\ stage[c] \in {"connecting"} \cup Up => c \in connections
       /\ stage[c] \in Down => waiting["removal"] + waiting["destroyed"] = 1
                               /\ (c \in connections <=> waiting["removal"] = 1)
       /\ stage[c] \notin Down => waiting["removal"] + waiting["destroyed"] = 0
       /\ stage[c] # "destroyed"

\* The types, the ownership of descriptors and the stages of connections.
ServerInv == TypeOK /\ OneOwner /\ StagesInTurn

Load(l) == Cardinality({c \in 1..(nextConnId - 1) : loopOf[c] = l})

\* "round-robin": with I/O threads the acceptor's loop gets no connection, and
\* no I/O loop was given two more than another.
RoundRobin ==
  loopsSize > 0 =>
    /\ Load(Base) = 0
    /\ \A l, m \in 1..loopsSize : Load(l) <= Load(m) + 1

\* The four asserts that can fail, and when.  A connection that forceClose closed
\* while stopRead() had left it no events is closed again by a hangup, at any
\* time.  The others need ~TcpServer: a connection that is half closed, one whose
\* connectDestroyed was dropped by a loop that had passed its last
\* doPendingFunctors, and a removal that loop 0 runs after the server.
FailsAsNamed ==
  failed # "none" =>
    \/ failed = "double close" /\ \E c \in Conns : stage[c] = "relisted"
    \/ failed = "half closed" /\ ~Serving /\ \E c \in Conns : stage[c] = "half"
    \/ failed = "destructor" /\ ~Serving /\ dropped # {}
    \/ failed = "server gone" /\ pc = "gone"

\* If none of them failed, no connection is connected when ~TcpServer returns.
DisconnectedAtEnd ==
  Running /\ pc = "gone" => \A c \in Conns : stage[c] \notin {"connecting"} \cup Up

\* The asserts on the map (erase), on the order of connectEstablished and
\* connectDestroyed, and of the destructors of connections hold in every
\* interleaving of the loops, while the server lives and through ~TcpServer, but
\* for the failures that FailsAsNamed lists.
ServerAssertsHold == FailsAsNamed /\ DisconnectedAtEnd

OutOfFds == idleFd = NoFd /\ Free = {}

\* A client that waits is accepted or refused, however full the table is:
\* unless another thread was quick enough to take the reserved descriptor.
ClientsAreAnswered ==
  (backlog > 0) ~> (backlog = 0 \/ ~Serving \/ OutOfFds \/ ~Running)

Closing == {c \in Conns : stage[c] \in Down \cup {"destroyed"}}

\* Closed connections leave the map, are destroyed and give back their
\* descriptors, also while loop 0 is kept busy by clients it has to refuse.
ClosedIsFreed == (Closing # {}) ~> (Closing = {} \/ ~Serving \/ ~Running)

\* ~TcpServer ends: no thread it joins waits for it.
ServerDestructorReturns == (pc = "dtor") ~> (pc = "gone" \/ ~Running)
=============================================================================
