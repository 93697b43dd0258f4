--------------------------- MODULE TcpClientProofs ---------------------------
(***************************************************************************)
(* Proofs about TcpClient for any descriptors, retry delays, places the    *)
(* user calls from and numbers of calls.  StopIsFinal holds for every      *)
(* client; ClientInv and OneAttempt for one that is connected once at most *)
(* (Connects <= 1): a second connect() may run into the asserts.           *)
(*                                                                         *)
(* The client hands one token around: the call of connect() that is still  *)
(* to come, or is under way in the other thread, or is a queued            *)
(* startInLoop; then a retry timer, a socket being connected, a            *)
(* connection, or a restart that removeConnection has decided on.          *)
(***************************************************************************)
EXTENDS TcpClient, SequenceTheorems, FiniteSetTheorems, WellFoundedInduction, TLAPS

-----------------------------------------------------------------------------
(* The inductive invariant *)

FunctorOps == {"startInLoop", "stopInLoop", "resetChannel", "connectDestroyed", "forceClose"}
FunctorRecords == [op : FunctorOps, fd : Fds \cup {None}]

\* All functors, in the order in which they will be run.
Queue == batch \o pending

Has(q, op) == \E i \in DOMAIN q : q[i].op = op
HasFd(q, op, fd) == \E i \in DOMAIN q : q[i].op = op /\ q[i].fd = fd
Once(q, op) == \A i, j \in DOMAIN q : q[i].op = op /\ q[j].op = op => i = j
OnceFd(q, op) ==
  \A i, j \in DOMAIN q : q[i].op = op /\ q[j].op = op /\ q[i].fd = q[j].fd => i = j

\* The types of what TypeOK leaves out.
Typed ==
  /\ TypeOK
  /\ pending \in Seq(FunctorRecords) /\ batch \in Seq(FunctorRecords)
  /\ other \in {"idle", "connect", "stop", "startInLoop", "stopInLoop"}
  /\ calls \in [Ops -> Nat]
  /\ active \in [timer : Nat, connector : BOOLEAN, conn : BOOLEAN]

\* What poll reported is still there when it is handled.
Phases ==
  /\ phase # "functors" => batch = <<>>
  /\ phase # "handle" => active = Nothing
  /\ active.timer <= timers
  /\ active.connector => registered
  /\ active.conn => connection # None

\* The one connect() is still to come or has not reached startInLoop.
Fresh(q) ==
  calls["connect"] = 0 \/ other \in {"connect", "startInLoop"} \/ Has(q, "startInLoop")

\* There is one token.
OneToken(q) ==
  /\ Fresh(q) => timers = 0 /\ ~registered /\ connection = None /\ ~restarting
  /\ timers # 0 => timers = 1 /\ ~registered /\ connection = None /\ ~restarting
  /\ registered => connection = None /\ ~restarting
  /\ connection # None => ~restarting
  /\ calls["connect"] = 0 => other \notin {"connect", "startInLoop"} /\ ~Has(q, "startInLoop")
  /\ other \in {"connect", "startInLoop"} => ~Has(q, "startInLoop")
  /\ Once(q, "startInLoop")

\* state_ as the holder of the token needs it.
States(q) ==
  /\ registered <=> state = "kConnecting"
  /\ registered => channel # None
  /\ Fresh(q) \/ timers # 0 => state = "kDisconnected"

\* channel_ outlives its registration until resetChannel is run, which is before
\* the next attempt: no timer is reported until then, and a new connection is
\* neither reported nor closed.
Resets(q) ==
  /\ Has(q, "resetChannel") <=> channel # None /\ ~registered
  /\ Once(q, "resetChannel")
  /\ Fresh(q) \/ restarting \/ active.timer # 0 => channel = None
  /\ connection # None /\ channel # None =>
       \/ phase = "handle" /\ ~active.conn
       \/ phase = "functors" /\ Has(batch, "resetChannel")

\* Every open socket has one owner.
Sockets(q) ==
  /\ \A fd \in Fds : fd \in open <=> \/ registered /\ channel = fd
                                     \/ connection = fd
                                     \/ HasFd(q, "connectDestroyed", fd)
  /\ registered => ~HasFd(q, "connectDestroyed", channel)
  /\ ~HasFd(q, "connectDestroyed", connection)
  /\ OnceFd(q, "connectDestroyed")

\* A forceClose is for the connection, or for one whose connectDestroyed comes
\* after it; and the resetChannel of a connection comes before its forceClose.
Closes(q, conn) ==
  /\ \A i \in DOMAIN q : q[i].op \in {"connectDestroyed", "forceClose"} => q[i].fd \in Fds
  /\ \A i \in DOMAIN q : q[i].op = "forceClose" =>
       \/ q[i].fd = conn
       \/ \E j \in DOMAIN q : j > i /\ q[j].op = "connectDestroyed" /\ q[j].fd = q[i].fd
  /\ \A i, j \in DOMAIN q :
       q[i].op = "forceClose" /\ q[i].fd = conn /\ q[j].op = "resetChannel" => j < i

Live(q) ==
  Phases /\ OneToken(q) /\ States(q) /\ Resets(q) /\ Sockets(q) /\ Closes(q, connection)

\* The program ends with an assert that fails, so nothing is said after that.
ClientIInv == Typed /\ AttemptAssertsHold /\ (failed = "none" => Live(Queue))

\* A stop() that was not lost has cleared both flags and is not overtaken by a
\* restart.
StopIInv ==
  /\ connect \in BOOLEAN /\ clientConnect \in BOOLEAN /\ restarting \in BOOLEAN
  /\ stopped \in {"called", "done"} => ~connect /\ ~clientConnect /\ ~restarting
  /\ StopIsFinal

-----------------------------------------------------------------------------
(* stop() *)

\* An attempt is made only if connect_ is set, by whoever calls startInLoop.
LEMMA StartNeedsConnect ==
  ASSUME NEW s, NEW c \in BOOLEAN, NEW d, NEW t, StartInLoop(s, c, d, t), ~c, s = state
  PROVE  state' = state
  BY DEF StartInLoop

\* Nothing but the user's connect() sets a flag after a stop() that was not lost.
LEMMA NextStopIInv == StopIInv /\ [Next]_vars => StopIInv'
<1> SUFFICES ASSUME StopIInv, [Next]_vars PROVE StopIInv'
  OBVIOUS
<1> USE ClientConstants DEF StopIInv, StopIsFinal
<1>1. CASE Poll \/ ReleaseConnector \/ BeginFunctors \/ EndFunctors \/ RunConnectDestroyed
  BY <1>1 DEF Poll, ReleaseConnector, BeginFunctors, EndFunctors, RunConnectDestroyed, conVars,
     loopVars
<1>2. CASE TimerEvent
  BY <1>2, StartNeedsConnect DEF TimerEvent
<1>3. CASE ConnectorEvent
  BY <1>3 DEF ConnectorEvent, HandleError, HandleWrite, RetryWith
<1>4. CASE CloseEvent
  BY <1>4 DEF CloseEvent, CloseConnection, Restarts, conVars
<1>5. CASE Restart
  BY <1>5 DEF Restart
<1>6. CASE RunConnectorFunctor
  <2>1. UNCHANGED <<connect, clientConnect, restarting>>
    BY <1>6 DEF RunConnectorFunctor
  <2>2. CASE life = "gone" \/ IsNext("resetChannel")
    BY <2>1, <2>2, <1>6 DEF RunConnectorFunctor, IsNext, conVars
  <2>3. CASE IsNext("startInLoop") /\ life # "gone"
    BY <2>1, <2>3, <1>6, StartNeedsConnect DEF RunConnectorFunctor, IsNext
  <2>4. CASE IsNext("stopInLoop") /\ life # "gone"
    <3>1. StopInLoop /\ stopped' = (IF stopped = "called" THEN "done" ELSE stopped)
      BY <2>4, <1>6 DEF RunConnectorFunctor, IsNext
    <3>2. state' # "kConnecting"
      BY <3>1 DEF StopInLoop, RetryWith, conVars
    <3> QED
      BY <2>1, <3>1, <3>2
  <2> QED
    BY <1>6, <2>2, <2>3, <2>4 DEF RunConnectorFunctor
<1>7. CASE RunForceClose
  BY <1>7 DEF RunForceClose, CloseConnection, Restarts, conVars
<1>8. CASE ConnectInLoop
  <2>1. connect' \in BOOLEAN /\ clientConnect' \in BOOLEAN
    BY <1>8, Zenon DEF ConnectInLoop
  <2> QED
    BY <1>8, <2>1 DEF ConnectInLoop, loopVars
<1>15. CASE StopCallInLoop
  <2>1. ~connect' /\ ~clientConnect' /\ connect' \in BOOLEAN /\ clientConnect' \in BOOLEAN
    BY <1>15, Zenon DEF StopCallInLoop
  <2>2. ~restarting /\ restarting' = restarting /\ stopped' = "called"
    BY <1>15 DEF StopCallInLoop, InLoop, LoopRuns
  <2> QED
    BY <2>1, <2>2
<1>9. CASE Destroy
  <2>1. connect' = connect \/ (~connect' /\ connect' \in BOOLEAN)
    BY <1>9, Zenon DEF Destroy
  <2> QED
    BY <1>9, <2>1 DEF Destroy, conVars
<1>10. CASE ForceClose
  BY <1>10 DEF ForceClose, conVars
<1>16. CASE Disconnect
  <2>1. ~clientConnect' /\ clientConnect' \in BOOLEAN
    BY <1>16, Zenon DEF Disconnect
  <2> QED
    BY <1>16, <2>1 DEF Disconnect, conVars, loopVars
<1>11. ASSUME NEW op \in {"connect", "stop"}, BeginOther(op) PROVE StopIInv'
  BY <1>11 DEF BeginOther, conVars, loopVars
<1>12. ASSUME NEW op \in {"connect", "stop"}, SetConnect(op) PROVE StopIInv'
  BY <1>12 DEF SetConnect, conVars, loopVars
<1>13. ASSUME NEW op \in {"connect", "stop"}, QueueOther(op) PROVE StopIInv'
  BY <1>13 DEF QueueOther, conVars
<1>14. CASE UNCHANGED vars
  BY <1>14 DEF vars, conVars, loopVars
<1> QED
  BY <1>1, <1>2, <1>3, <1>4, <1>5, <1>6, <1>7, <1>8, <1>9, <1>10, <1>11, <1>12, <1>13, <1>14,
     <1>15, <1>16
  DEF Next, LoopStep, OtherStep, UserStep

\* stop() is final for every client, however often it connects: after stopInLoop
\* no socket is being connected, and none will be until the user calls connect().
THEOREM StopAlwaysFinal == Spec => []StopIsFinal
<1>1. Init => StopIInv
  BY DEF Init, StopIInv, StopIsFinal
<1>2. StopIInv => StopIsFinal
  BY DEF StopIInv
<1> QED
  BY <1>1, <1>2, NextStopIInv, PTL DEF Spec

-----------------------------------------------------------------------------
(* The queue of functors *)

\* A functor that is queued comes last.
LEMMA PushQueue ==
  ASSUME NEW b \in Seq(FunctorRecords), NEW p \in Seq(FunctorRecords), NEW e \in FunctorRecords
  PROVE  b \o Append(p, e) = Append(b \o p, e)
<1>1. b \o p \in Seq(FunctorRecords)
  BY ConcatProperties
<1>2. <<e>> \in Seq(FunctorRecords)
  OBVIOUS
<1>3. Append(b \o p, e) = (b \o p) \o <<e>> /\ Append(p, e) = p \o <<e>>
  BY <1>1, AppendIsConcat
<1>4. (b \o p) \o <<e>> = b \o (p \o <<e>>)
  BY <1>2, ConcatAssociative
<1> QED
  BY <1>3, <1>4

\* The functor that is run next is the first.
LEMMA PopQueue ==
  ASSUME NEW b \in Seq(FunctorRecords), NEW p \in Seq(FunctorRecords), b # <<>>
  PROVE  /\ b \o p \in Seq(FunctorRecords) /\ b \o p # <<>>
         /\ Head(b \o p) = Head(b)
         /\ Tail(b) \o p = Tail(b \o p)
<1>1. /\ b \o p \in Seq(FunctorRecords) /\ Len(b \o p) = Len(b) + Len(p)
      /\ \A i \in 1..Len(b) + Len(p) : (b \o p)[i] = IF i <= Len(b) THEN b[i] ELSE p[i - Len(b)]
  BY ConcatProperties
<1>2. /\ Tail(b) \in Seq(FunctorRecords) /\ Len(Tail(b)) = Len(b) - 1
      /\ \A i \in 1..Len(Tail(b)) : Tail(b)[i] = b[i + 1]
      /\ Len(b) \in Nat \ {0} /\ Len(p) \in Nat
  BY HeadTailProperties
<1>3. /\ Tail(b) \o p \in Seq(FunctorRecords) /\ Len(Tail(b) \o p) = Len(b) - 1 + Len(p)
      /\ \A i \in 1..Len(b) - 1 + Len(p) :
           (Tail(b) \o p)[i] = IF i <= Len(b) - 1 THEN Tail(b)[i] ELSE p[i - (Len(b) - 1)]
  BY <1>2, ConcatProperties
<1>4. b \o p # <<>> /\ Head(b \o p) = Head(b)
  BY <1>1, <1>2
<1>5. /\ Tail(b \o p) \in Seq(FunctorRecords) /\ Len(Tail(b \o p)) = Len(b) + Len(p) - 1
      /\ \A i \in 1..Len(Tail(b \o p)) : Tail(b \o p)[i] = (b \o p)[i + 1]
  BY <1>1, <1>4, HeadTailProperties
<1>6. ASSUME NEW i \in 1..Len(b) + Len(p) - 1
      PROVE  Tail(b \o p)[i] = (Tail(b) \o p)[i]
  <2>1. Tail(b \o p)[i] = (b \o p)[i + 1] /\ i + 1 \in 1..Len(b) + Len(p)
    BY <1>5, <1>2
  <2>2. CASE i <= Len(b) - 1
    BY <1>1, <1>2, <1>3, <2>1, <2>2
  <2>3. CASE i > Len(b) - 1
    BY <1>1, <1>2, <1>3, <2>1, <2>3
  <2> QED
    BY <1>2, <2>2, <2>3
<1>7. Len(Tail(b \o p)) = Len(Tail(b) \o p)
  BY <1>2, <1>3, <1>5
<1>8. Tail(b) \o p = Tail(b \o p)
  BY <1>2, <1>3, <1>5, <1>6, <1>7, SeqEqual
<1> QED
  BY <1>1, <1>4, <1>8

\* What is queued after a push.
LEMMA Pushed ==
  ASSUME NEW q \in Seq(FunctorRecords), NEW e \in FunctorRecords
  PROVE  /\ Append(q, e) \in Seq(FunctorRecords)
         /\ \A op : Has(Append(q, e), op) <=> Has(q, op) \/ e.op = op
         /\ \A op, fd : HasFd(Append(q, e), op, fd) <=> HasFd(q, op, fd) \/ (e.op = op /\ e.fd = fd)
         /\ \A op : Once(q, op) /\ (e.op = op => ~Has(q, op)) => Once(Append(q, e), op)
         /\ \A op : OnceFd(q, op) /\ (e.op = op => ~HasFd(q, op, e.fd)) => OnceFd(Append(q, e), op)
<1> DEFINE r == Append(q, e)
<1>1. /\ r \in Seq(FunctorRecords) /\ Len(r) = Len(q) + 1 /\ Len(q) \in Nat
      /\ \A i \in 1..Len(q) : r[i] = q[i]
      /\ r[Len(q) + 1] = e
      /\ DOMAIN r = 1..Len(q) + 1 /\ DOMAIN q = 1..Len(q)
  BY AppendProperties
<1> HIDE DEF r
<1>2. \A op : Has(r, op) <=> Has(q, op) \/ e.op = op
  BY <1>1 DEF Has
<1>3. \A op, fd : HasFd(r, op, fd) <=> HasFd(q, op, fd) \/ (e.op = op /\ e.fd = fd)
  BY <1>1 DEF HasFd
<1>4. ASSUME NEW op, Once(q, op), e.op = op => ~Has(q, op) PROVE Once(r, op)
  BY <1>1, <1>4 DEF Once, Has
<1>5. ASSUME NEW op, OnceFd(q, op), e.op = op => ~HasFd(q, op, e.fd) PROVE OnceFd(r, op)
  BY <1>1, <1>5 DEF OnceFd, HasFd
<1> QED
  BY <1>1, <1>2, <1>3, <1>4, <1>5 DEF r

\* What is queued after a functor was taken.
LEMMA Popped ==
  ASSUME NEW q \in Seq(FunctorRecords), q # <<>>
  PROVE  /\ Tail(q) \in Seq(FunctorRecords) /\ Head(q) \in FunctorRecords
         /\ \A op : Has(q, op) <=> Has(Tail(q), op) \/ Head(q).op = op
         /\ \A op, fd : HasFd(q, op, fd) <=>
              HasFd(Tail(q), op, fd) \/ (Head(q).op = op /\ Head(q).fd = fd)
         /\ \A op : Once(q, op) => Once(Tail(q), op) /\ (Head(q).op = op => ~Has(Tail(q), op))
         /\ \A op : OnceFd(q, op) =>
              OnceFd(Tail(q), op) /\ (Head(q).op = op => ~HasFd(Tail(q), op, Head(q).fd))
<1> DEFINE r == Tail(q)
<1>1. /\ r \in Seq(FunctorRecords) /\ Len(r) = Len(q) - 1 /\ Len(q) \in Nat \ {0}
      /\ \A i \in 1..Len(r) : r[i] = q[i + 1]
      /\ Head(q) = q[1] /\ q[1] \in FunctorRecords
      /\ DOMAIN r = 1..Len(q) - 1 /\ DOMAIN q = 1..Len(q)
  BY HeadTailProperties
<1> HIDE DEF r
<1>2. ASSUME NEW i \in DOMAIN q PROVE i = 1 \/ (i - 1 \in DOMAIN r /\ r[i - 1] = q[i])
  BY <1>1
<1>3. ASSUME NEW i \in DOMAIN r PROVE i + 1 \in DOMAIN q /\ q[i + 1] = r[i] /\ i + 1 # 1
  BY <1>1
<1>4. 1 \in DOMAIN q
  BY <1>1
<1>5. \A op : Has(q, op) <=> Has(r, op) \/ Head(q).op = op
  <2> TAKE op
  <2>1. Has(q, op) => Has(r, op) \/ Head(q).op = op
    <3> HAVE Has(q, op)
    <3>1. PICK i \in DOMAIN q : q[i].op = op
      BY DEF Has
    <3> QED
      BY <1>1, <1>2, <3>1, ZenonT(40) DEF Has
  <2>2. Has(r, op) => Has(q, op)
    <3> HAVE Has(r, op)
    <3>1. PICK i \in DOMAIN r : r[i].op = op
      BY DEF Has
    <3> QED
      BY <1>3, <3>1, ZenonT(40) DEF Has
  <2>3. Head(q).op = op => Has(q, op)
    BY <1>1, <1>4, ZenonT(40) DEF Has
  <2> QED
    BY <2>1, <2>2, <2>3
<1>6. \A op, fd : HasFd(q, op, fd) <=> HasFd(r, op, fd) \/ (Head(q).op = op /\ Head(q).fd = fd)
  <2> TAKE op, fd
  <2>1. HasFd(q, op, fd) => HasFd(r, op, fd) \/ (Head(q).op = op /\ Head(q).fd = fd)
    <3> HAVE HasFd(q, op, fd)
    <3>1. PICK i \in DOMAIN q : q[i].op = op /\ q[i].fd = fd
      BY DEF HasFd
    <3> QED
      BY <1>1, <1>2, <3>1, ZenonT(40) DEF HasFd
  <2>2. HasFd(r, op, fd) => HasFd(q, op, fd)
    <3> HAVE HasFd(r, op, fd)
    <3>1. PICK i \in DOMAIN r : r[i].op = op /\ r[i].fd = fd
      BY DEF HasFd
    <3> QED
      BY <1>3, <3>1, ZenonT(40) DEF HasFd
  <2>3. Head(q).op = op /\ Head(q).fd = fd => HasFd(q, op, fd)
    BY <1>1, <1>4, ZenonT(40) DEF HasFd
  <2> QED
    BY <2>1, <2>2, <2>3
<1>7. ASSUME NEW op, Once(q, op) PROVE Once(r, op) /\ (Head(q).op = op => ~Has(r, op))
  <2>1. ASSUME NEW i \in DOMAIN r, NEW j \in DOMAIN r, r[i].op = op, r[j].op = op PROVE i = j
    <3>1. i + 1 = j + 1
      BY <1>3, <1>7, <2>1 DEF Once
    <3> QED
      BY <3>1, <1>1
  <2>2. ASSUME NEW i \in DOMAIN r, r[i].op = op PROVE Head(q).op # op
    BY <1>1, <1>3, <1>4, <1>7, <2>2 DEF Once
  <2> QED
    BY <2>1, <2>2 DEF Once, Has
<1>8. ASSUME NEW op, OnceFd(q, op)
      PROVE  OnceFd(r, op) /\ (Head(q).op = op => ~HasFd(r, op, Head(q).fd))
  <2>1. ASSUME NEW i \in DOMAIN r, NEW j \in DOMAIN r,
               r[i].op = op, r[j].op = op, r[i].fd = r[j].fd
        PROVE  i = j
    <3>1. i + 1 = j + 1
      BY <1>3, <1>8, <2>1 DEF OnceFd
    <3> QED
      BY <3>1, <1>1
  <2>2. ASSUME NEW i \in DOMAIN r, r[i].op = op, Head(q).op = op PROVE r[i].fd # Head(q).fd
    BY <1>1, <1>3, <1>4, <1>8, <2>2 DEF OnceFd
  <2> QED
    BY <2>1, <2>2 DEF OnceFd, HasFd
<1> QED
  BY <1>1, <1>5, <1>6, <1>7, <1>8 DEF r

\* A start or a stop that is queued has nothing to do with closing.
LEMMA ClosesPush ==
  ASSUME NEW q \in Seq(FunctorRecords), NEW c, NEW e \in FunctorRecords,
         Closes(q, c), e.op \in {"startInLoop", "stopInLoop"}
  PROVE  Closes(Append(q, e), c)
<1> DEFINE r == Append(q, e)
<1>1. /\ Len(r) = Len(q) + 1 /\ Len(q) \in Nat /\ \A i \in 1..Len(q) : r[i] = q[i]
      /\ r[Len(q) + 1] = e /\ DOMAIN r = 1..Len(q) + 1 /\ DOMAIN q = 1..Len(q)
  BY AppendProperties
<1> HIDE DEF r
<1> QED
  BY <1>1 DEF Closes, r

\* A resetChannel is queued while there is no connection.
LEMMA ClosesReset ==
  ASSUME NEW q \in Seq(FunctorRecords), NEW e \in FunctorRecords,
         Closes(q, None), e.op = "resetChannel"
  PROVE  Closes(Append(q, e), None)
<1> DEFINE r == Append(q, e)
<1>1. /\ Len(r) = Len(q) + 1 /\ Len(q) \in Nat /\ \A i \in 1..Len(q) : r[i] = q[i]
      /\ r[Len(q) + 1] = e /\ DOMAIN r = 1..Len(q) + 1 /\ DOMAIN q = 1..Len(q)
  BY AppendProperties
<1> HIDE DEF r
<1> QED
  BY <1>1, ClientConstants DEF Closes, r

\* No forceClose is queued for the socket of a new connection.
LEMMA ClosesNew ==
  ASSUME NEW q \in Seq(FunctorRecords), NEW fd,
         Closes(q, None), ~HasFd(q, "connectDestroyed", fd)
  PROVE  Closes(q, fd)
  BY ClientConstants DEF Closes, HasFd

\* A forceClose for the connection comes after its resetChannel.
LEMMA ClosesForce ==
  ASSUME NEW q \in Seq(FunctorRecords), NEW fd \in Fds, NEW e \in FunctorRecords,
         Closes(q, fd), e.op = "forceClose", e.fd = fd
  PROVE  Closes(Append(q, e), fd)
<1> DEFINE r == Append(q, e)
<1>1. /\ Len(r) = Len(q) + 1 /\ Len(q) \in Nat /\ \A i \in 1..Len(q) : r[i] = q[i]
      /\ r[Len(q) + 1] = e /\ DOMAIN r = 1..Len(q) + 1 /\ DOMAIN q = 1..Len(q)
  BY AppendProperties
<1> HIDE DEF r
<1> QED
  BY <1>1 DEF Closes, r

\* The connectDestroyed of a connection comes after the forceCloses for it.
LEMMA ClosesEnd ==
  ASSUME NEW q \in Seq(FunctorRecords), NEW fd \in Fds, NEW e \in FunctorRecords,
         Closes(q, fd), e.op = "connectDestroyed", e.fd = fd
  PROVE  Closes(Append(q, e), None)
<1> DEFINE r == Append(q, e)
<1>1. /\ Len(r) = Len(q) + 1 /\ Len(q) \in Nat /\ \A i \in 1..Len(q) : r[i] = q[i]
      /\ r[Len(q) + 1] = e /\ DOMAIN r = 1..Len(q) + 1 /\ DOMAIN q = 1..Len(q)
  BY AppendProperties
<1> HIDE DEF r
<1> QED
  BY <1>1, ClientConstants DEF Closes, r

\* Taking a functor keeps the order of the others.
LEMMA ClosesPop ==
  ASSUME NEW q \in Seq(FunctorRecords), NEW c, q # <<>>, Closes(q, c)
  PROVE  Closes(Tail(q), c)
<1> DEFINE r == Tail(q)
<1>1. /\ r \in Seq(FunctorRecords) /\ Len(r) = Len(q) - 1 /\ Len(q) \in Nat \ {0}
      /\ \A i \in 1..Len(r) : r[i] = q[i + 1]
      /\ DOMAIN r = 1..Len(q) - 1 /\ DOMAIN q = 1..Len(q)
  BY HeadTailProperties
<1> HIDE DEF r
<1>2. ASSUME NEW i \in DOMAIN q PROVE i = 1 \/ (i - 1 \in DOMAIN r /\ r[i - 1] = q[i])
  BY <1>1
<1>3. ASSUME NEW i \in DOMAIN r PROVE i + 1 \in DOMAIN q /\ q[i + 1] = r[i] /\ i + 1 # 1
  BY <1>1
<1>4. \A i \in DOMAIN r : r[i].op \in {"connectDestroyed", "forceClose"} => r[i].fd \in Fds
  BY <1>3 DEF Closes
<1>5. ASSUME NEW i \in DOMAIN r, r[i].op = "forceClose"
      PROVE  \/ r[i].fd = c
             \/ \E j \in DOMAIN r : j > i /\ r[j].op = "connectDestroyed" /\ r[j].fd = r[i].fd
  <2>1. CASE q[i + 1].fd = c
    BY <2>1, <1>3
  <2>2. CASE q[i + 1].fd # c
    <3>1. PICK j \in DOMAIN q : /\ j > i + 1 /\ q[j].op = "connectDestroyed"
                                /\ q[j].fd = q[i + 1].fd
      BY <2>2, <1>3, <1>5 DEF Closes
    <3>2. j - 1 \in DOMAIN r /\ r[j - 1] = q[j] /\ j - 1 > i
      BY <3>1, <1>1, <1>2
    <3> QED
      BY <3>1, <3>2, <1>3
  <2> QED
    BY <2>1, <2>2
<1>6. ASSUME NEW i \in DOMAIN r, NEW j \in DOMAIN r,
             r[i].op = "forceClose", r[i].fd = c, r[j].op = "resetChannel"
      PROVE  j < i
  <2>1. j + 1 < i + 1
    BY <1>3, <1>6 DEF Closes
  <2> QED
    BY <2>1, <1>1
<1> QED
  BY <1>4, <1>5, <1>6 DEF Closes, r

\* The queue after a push ...
LEMMA QueuePush ==
  ASSUME Typed, NEW e \in FunctorRecords, pending' = Append(pending, e), batch' = batch
  PROVE  Queue \in Seq(FunctorRecords) /\ Queue' = Append(Queue, e)
<1>1. pending \in Seq(FunctorRecords) /\ batch \in Seq(FunctorRecords)
  BY DEF Typed
<1>2. batch \o Append(pending, e) = Append(batch \o pending, e)
  BY <1>1, PushQueue
<1>3. batch \o pending \in Seq(FunctorRecords)
  BY <1>1, ConcatProperties
<1> QED
  BY <1>2, <1>3 DEF Queue

\* ... after a functor was taken ...
LEMMA QueuePop ==
  ASSUME Typed, batch # <<>>, batch' = Tail(batch), pending' = pending
  PROVE  /\ Queue \in Seq(FunctorRecords) /\ Queue # <<>>
         /\ Queue' = Tail(Queue) /\ Head(Queue) = Head(batch)
<1>1. pending \in Seq(FunctorRecords) /\ batch \in Seq(FunctorRecords)
  BY DEF Typed
<1> QED
  BY <1>1, PopQueue DEF Queue

\* ... and after one was taken that queues another.
LEMMA QueuePopPush ==
  ASSUME Typed, batch # <<>>, batch' = Tail(batch), NEW e \in FunctorRecords,
         pending' = Append(pending, e)
  PROVE  /\ Queue \in Seq(FunctorRecords) /\ Queue # <<>>
         /\ Queue' = Append(Tail(Queue), e) /\ Head(Queue) = Head(batch)
<1>1. pending \in Seq(FunctorRecords) /\ batch \in Seq(FunctorRecords)
  BY DEF Typed
<1>2. Tail(batch) \in Seq(FunctorRecords)
  BY <1>1, HeadTailProperties
<1>3. Tail(batch) \o Append(pending, e) = Append(Tail(batch) \o pending, e)
  BY <1>1, <1>2, PushQueue
<1> QED
  BY <1>1, <1>3, PopQueue DEF Queue

-----------------------------------------------------------------------------
(* Attempts *)

\* The retry delay doubles up to its limit.
LEMMA NextDelayInBounds ==
  ASSUME NEW d \in kInitRetryDelayMs..kMaxRetryDelayMs
  PROVE  NextDelay(d) \in kInitRetryDelayMs..kMaxRetryDelayMs
<1>1. d \in Nat /\ d * 2 \in Nat /\ kMaxRetryDelayMs \in Nat /\ kInitRetryDelayMs \in Nat
  BY ClientConstants
<1> DEFINE S == {d * 2, kMaxRetryDelayMs}
<1>2. \E x \in S : \A y \in S : x <= y
  <2>1. CASE d * 2 <= kMaxRetryDelayMs
    BY <2>1, <1>1
  <2>2. CASE ~(d * 2 <= kMaxRetryDelayMs)
    BY <2>2, <1>1
  <2> QED
    BY <2>1, <2>2
<1>3. Min(S) \in S /\ \A y \in S : Min(S) <= y
  BY <1>2 DEF Min
<1>4. Min(S) = d * 2 \/ Min(S) = kMaxRetryDelayMs
  BY <1>3
<1>5. Min(S) <= kMaxRetryDelayMs
  BY <1>3
<1> HIDE DEF S
<1>6. Min(S) \in kInitRetryDelayMs..kMaxRetryDelayMs
  BY <1>1, <1>4, <1>5, ClientConstants
<1> QED
  BY <1>6 DEF NextDelay, S

\* The kernel hands out a descriptor that is not open.
LEMMA LowestFree ==
  ASSUME open \subseteq Fds, open # Fds
  PROVE  Min(Fds \ open) \in Fds \ open
<1> DEFINE R == OpToRel(<, Nat)
           T == Fds \ open
<1>1. IsWellFoundedOn(R, Nat)
  BY NatLessThanWellFounded
<1>2. \A x, y \in Nat : x < y => <<x, y>> \in R
  BY DEF OpToRel
<1>3. T \subseteq Nat /\ T # {}
  BY ClientConstants
<1> HIDE DEF R, T
<1>4. PICK x \in T : \A y \in T : ~(<<y, x>> \in R)
  BY <1>1, <1>3, WFMin
<1>5. \A y \in T : y \in Nat /\ x \in Nat /\ ~(y < x)
  BY <1>2, <1>3, <1>4
<1>6. \A y \in T : x <= y
  BY <1>5
<1>7. Min(T) \in T
  BY <1>6 DEF Min
<1> QED
  BY <1>7 DEF T

\* What a start with no channel in the way comes to: a socket that is being
\* connected, or no more than a retry timer.
LEMMA StartResult ==
  ASSUME Typed, NEW c \in BOOLEAN, NEW d \in kInitRetryDelayMs..kMaxRetryDelayMs, NEW t \in Nat,
         channel = None, StartInLoop("kDisconnected", c, d, t)
  PROVE  /\ failed' = failed /\ gaveUp' \in BOOLEAN
         /\ delay' \in kInitRetryDelayMs..kMaxRetryDelayMs
         /\ \/ \E fd \in Fds \ open : /\ registered' = TRUE /\ channel' = fd /\ timers' = t
                                      /\ open' = open \cup {fd} /\ state' = "kConnecting"
            \/ /\ UNCHANGED <<registered, channel, open>> /\ state' = "kDisconnected"
               /\ timers' = t \/ timers' = t + 1
<1>T. open \subseteq Fds /\ gaveUp \in BOOLEAN
  BY DEF Typed, TypeOK
<1>1. CASE ~c
  BY <1>1, <1>T DEF StartInLoop
<1>2. CASE c
  <2>1. DoConnect(c, d, t)
    BY <1>2 DEF StartInLoop
  <2> DEFINE fd == Min(Fds \ open)
  <2>2. fd \in Fds \ open
    BY <2>1, <1>T, LowestFree DEF DoConnect
  <2> HIDE DEF fd
  <2>3. \/ Connecting(fd, d, t)
        \/ /\ RetryWith(fd, open \cup {fd}, c, d, t)
           /\ UNCHANGED <<channel, registered, gaveUp, failed>>
        \/ /\ gaveUp' = TRUE /\ state' = "kDisconnected" /\ delay' = d /\ timers' = t
           /\ UNCHANGED <<open, channel, registered, failed>>
    BY <2>1 DEF DoConnect, fd
  <2>4. CASE Connecting(fd, d, t)
    BY <2>2, <2>4, <1>T DEF Connecting
  <2>5. CASE RetryWith(fd, open \cup {fd}, c, d, t) /\ UNCHANGED <<channel, registered, gaveUp, failed>>
    <3>1. open' = open
      BY <2>2, <2>5 DEF RetryWith
    <3>2. delay' \in kInitRetryDelayMs..kMaxRetryDelayMs
      BY <2>5, NextDelayInBounds DEF RetryWith
    <3> QED
      BY <3>1, <3>2, <2>5, <1>T DEF RetryWith
  <2>6. CASE /\ gaveUp' = TRUE /\ state' = "kDisconnected" /\ delay' = d /\ timers' = t
             /\ UNCHANGED <<open, channel, registered, failed>>
    <3>1. gaveUp' \in BOOLEAN
      BY <2>6, Zenon
    <3> QED
      BY <2>6, <3>1
  <2> QED
    BY <2>3, <2>4, <2>5, <2>6
<1> QED
  BY <1>1, <1>2

-----------------------------------------------------------------------------
(* The kinds of steps the token takes part in *)

\* A step that queues and runs no startInLoop leaves the first connect() alone.
LEMMA SameStarts ==
  ASSUME Has(Queue', "startInLoop") <=> Has(Queue, "startInLoop"), UNCHANGED <<calls, other>>
  PROVE  Fresh(Queue)' <=> Fresh(Queue)
  BY DEF Fresh

\* The part of TypeOK that is the connector's.
ConTypes ==
  /\ state \in {"kDisconnected", "kConnecting", "kConnected"}
  /\ delay \in kInitRetryDelayMs..kMaxRetryDelayMs
  /\ channel \in Fds \cup {None} /\ registered \in BOOLEAN /\ timers \in Nat
  /\ open \subseteq Fds /\ gaveUp \in BOOLEAN

\* A start respects the types.
LEMMA StartTypes ==
  ASSUME Typed, NEW c \in BOOLEAN, NEW d \in kInitRetryDelayMs..kMaxRetryDelayMs, NEW t \in Nat,
         channel = None, StartInLoop("kDisconnected", c, d, t)
  PROVE  ConTypes'
<1>1. /\ gaveUp' \in BOOLEAN /\ delay' \in kInitRetryDelayMs..kMaxRetryDelayMs
      /\ \/ \E fd \in Fds \ open : /\ registered' = TRUE /\ channel' = fd /\ timers' = t
                                   /\ open' = open \cup {fd} /\ state' = "kConnecting"
         \/ /\ UNCHANGED <<registered, channel, open>> /\ state' = "kDisconnected"
            /\ timers' = t \/ timers' = t + 1
  BY StartResult
<1>2. open \subseteq Fds /\ registered \in BOOLEAN
  BY DEF Typed, TypeOK
<1>3. registered' \in BOOLEAN
  BY <1>1, <1>2, Zenon
<1> QED
  BY <1>1, <1>2, <1>3 DEF ConTypes

\* The token is used for an attempt.
LEMMA AttemptStep ==
  ASSUME Typed, Live(Queue),
         NEW c \in BOOLEAN, NEW d \in kInitRetryDelayMs..kMaxRetryDelayMs,
         ~registered, channel = None, connection = None,
         StartInLoop("kDisconnected", c, d, 0),
         ~Fresh(Queue)', ~restarting', connection' = connection, phase' = phase,
         phase # "functors" => batch' = <<>>,
         phase # "handle" => active' = Nothing,
         active'.timer = 0, ~active'.connector, ~active'.conn,
         \A fd : HasFd(Queue', "connectDestroyed", fd) <=> HasFd(Queue, "connectDestroyed", fd),
         OnceFd(Queue', "connectDestroyed"), Closes(Queue', None), ~Has(Queue', "resetChannel")
  PROVE  Live(Queue)' /\ failed' = failed
<1>1. /\ failed' = failed
      /\ \/ \E fd \in Fds \ open : /\ registered' = TRUE /\ channel' = fd /\ timers' = 0
                                   /\ open' = open \cup {fd} /\ state' = "kConnecting"
         \/ /\ UNCHANGED <<registered, channel, open>> /\ state' = "kDisconnected"
            /\ timers' = 0 \/ timers' = 1
  <2>1. /\ failed' = failed
        /\ \/ \E fd \in Fds \ open : /\ registered' = TRUE /\ channel' = fd /\ timers' = 0
                                     /\ open' = open \cup {fd} /\ state' = "kConnecting"
           \/ /\ UNCHANGED <<registered, channel, open>> /\ state' = "kDisconnected"
              /\ timers' = 0 \/ timers' = 0 + 1
    BY 0 \in Nat, StartResult, Zenon
  <2> QED
    BY <2>1
<1>2. /\ Once(Queue', "startInLoop") /\ Once(Queue', "resetChannel")
      /\ ~Has(Queue', "startInLoop")
      /\ calls'["connect"] # 0 /\ other' \notin {"connect", "startInLoop"}
  BY DEF Fresh, Has, Once
<1>3. \A fd \in Fds : fd \in open <=> HasFd(Queue', "connectDestroyed", fd)
  BY ClientConstants DEF Live, Sockets
<1>4. None \notin Fds /\ ~HasFd(Queue', "connectDestroyed", None)
  BY ClientConstants DEF Live, Sockets
<1>5. CASE \E fd \in Fds \ open : /\ registered' = TRUE /\ channel' = fd /\ timers' = 0
                                  /\ open' = open \cup {fd} /\ state' = "kConnecting"
  <2>1. PICK fd \in Fds \ open : /\ registered' = TRUE /\ channel' = fd /\ timers' = 0
                                 /\ open' = open \cup {fd} /\ state' = "kConnecting"
    BY <1>5
  <2>2. registered' /\ channel' # None
    BY <2>1, <1>4
  <2>3. Phases'
    BY <2>1, <2>2 DEF Phases
  <2>4. OneToken(Queue)' /\ States(Queue)'
    BY <2>1, <2>2, <1>2 DEF OneToken, States
  <2>5. Resets(Queue)'
    BY <2>1, <2>2, <1>2 DEF Resets
  <2>6. Sockets(Queue)'
    BY <2>1, <2>2, <1>3, <1>4 DEF Sockets
  <2> QED
    BY <1>1, <2>3, <2>4, <2>5, <2>6 DEF Live
<1>6. CASE /\ UNCHANGED <<registered, channel, open>> /\ state' = "kDisconnected"
           /\ timers' = 0 \/ timers' = 1
  <2>1. ~registered'
    BY <1>6
  <2>3. Phases'
    BY <1>6, <2>1 DEF Phases
  <2>4. OneToken(Queue)' /\ States(Queue)'
    BY <1>6, <2>1, <1>2 DEF OneToken, States
  <2>5. Resets(Queue)'
    BY <1>6, <2>1, <1>2 DEF Resets
  <2>6. Sockets(Queue)'
    BY <1>6, <2>1, <1>3, <1>4 DEF Sockets
  <2> QED
    BY <1>1, <2>3, <2>4, <2>5, <2>6 DEF Live
<1> QED
  BY <1>1, <1>5, <1>6

\* The connector gives its socket away or closes it, and the channel waits for
\* resetChannel.
LEMMA UnregisterStep ==
  ASSUME Typed, Live(Queue), registered, registered' = FALSE, channel' = channel,
         \/ /\ state' = "kDisconnected" /\ open' = open \ {channel} /\ connection' = connection
            /\ timers' = timers \/ timers' = timers + 1
         \/ /\ state' = "kConnected" /\ open' = open \ {channel} /\ connection' = connection
            /\ timers' = timers
         \/ /\ state' = "kConnected" /\ open' = open /\ connection' = channel
            /\ timers' = timers /\ phase = "handle",
         ~Fresh(Queue)', restarting' = restarting, phase' = phase,
         phase # "functors" => batch' = <<>>,
         phase # "handle" => active' = Nothing,
         active'.timer = active.timer, ~active'.connector, active'.conn = active.conn,
         \A fd : HasFd(Queue', "connectDestroyed", fd) <=> HasFd(Queue, "connectDestroyed", fd),
         OnceFd(Queue', "connectDestroyed"), Closes(Queue', None),
         Has(Queue', "resetChannel"), Once(Queue', "resetChannel"),
         Queue' \in Seq(FunctorRecords)
  PROVE  Live(Queue)'
<1>1. /\ Once(Queue', "startInLoop") /\ ~Has(Queue', "startInLoop")
      /\ calls'["connect"] # 0 /\ other' \notin {"connect", "startInLoop"}
  BY DEF Fresh, Has, Once
<1>2. /\ timers = 0 /\ connection = None /\ ~restarting /\ channel # None /\ channel \in Fds
      /\ active.timer = 0 /\ ~active.conn /\ ~registered'
  BY DEF Live, OneToken, States, Phases, Typed, TypeOK
<1>3. \A fd \in Fds : fd \in open <=> channel = fd \/ HasFd(Queue', "connectDestroyed", fd)
  BY <1>2, ClientConstants DEF Live, Sockets
<1>4. /\ None \notin Fds /\ ~HasFd(Queue', "connectDestroyed", None)
      /\ ~HasFd(Queue', "connectDestroyed", channel)
  BY <1>2, ClientConstants DEF Live, Sockets
<1>5. Phases'
  BY <1>2 DEF Phases
<1>6. OneToken(Queue)' /\ States(Queue)'
  BY <1>1, <1>2 DEF OneToken, States
<1>7. Resets(Queue)'
  BY <1>1, <1>2 DEF Resets
<1>8. Sockets(Queue)'
  <2>1. CASE open' = open \ {channel} /\ connection' = connection
    BY <2>1, <1>2, <1>3, <1>4 DEF Sockets
  <2>2. CASE open' = open /\ connection' = channel
    BY <2>2, <1>2, <1>3, <1>4 DEF Sockets
  <2> QED
    BY <2>1, <2>2
<1>9. Closes(Queue', connection')
  <2>1. CASE connection' = channel
    BY <2>1, <1>4, ClosesNew
  <2>2. CASE connection' = connection
    BY <2>2, <1>2
  <2> QED
    BY <2>1, <2>2
<1> QED
  BY <1>5, <1>6, <1>7, <1>8, <1>9 DEF Live

\* The connection is closed; its connectDestroyed is queued.
LEMMA CloseStep ==
  ASSUME Typed, Live(Queue), connection # None, channel = None,
         UNCHANGED <<state, channel, registered, timers, open, calls, other, phase>>,
         connection' = None, restarting' \in BOOLEAN,
         phase # "functors" => batch' = <<>>,
         phase # "handle" => active' = Nothing,
         active'.timer = active.timer, ~active'.connector, ~active'.conn,
         \A op : Has(Queue', op) /\ op # "connectDestroyed" => Has(Queue, op),
         \A fd : HasFd(Queue', "connectDestroyed", fd) <=>
                   HasFd(Queue, "connectDestroyed", fd) \/ fd = connection,
         OnceFd(Queue', "connectDestroyed"), Closes(Queue', None)
  PROVE  Live(Queue)'
<1>1. /\ ~Fresh(Queue) /\ timers = 0 /\ ~registered /\ connection \in Fds
      /\ active.timer = 0 /\ ~Has(Queue, "resetChannel")
  BY DEF Live, OneToken, Resets, Phases, Typed, TypeOK
<1>2. ~Fresh(Queue)' /\ ~Has(Queue', "startInLoop") /\ ~Has(Queue', "resetChannel")
  BY <1>1 DEF Fresh
<1>3. Once(Queue', "startInLoop") /\ Once(Queue', "resetChannel")
  BY <1>2 DEF Once, Has
<1>4. /\ \A fd \in Fds : fd \in open <=> HasFd(Queue', "connectDestroyed", fd)
      /\ \A fd \in Fds : fd # None
  BY <1>1, ClientConstants DEF Live, Sockets
<1>5. ~HasFd(Queue', "connectDestroyed", None)
  <2>1. \A i \in DOMAIN Queue' : Queue'[i].op = "connectDestroyed" => Queue'[i].fd \in Fds
    BY DEF Closes
  <2> QED
    BY <2>1, ClientConstants DEF HasFd
<1>6. Phases'
  BY <1>1 DEF Phases
<1>7. OneToken(Queue)' /\ States(Queue)'
  BY <1>1, <1>2, <1>3 DEF OneToken, States, Live
<1>8. Resets(Queue)'
  BY <1>1, <1>2, <1>3 DEF Resets
<1>9. Sockets(Queue)'
  BY <1>1, <1>4, <1>5 DEF Sockets
<1> QED
  BY <1>6, <1>7, <1>8, <1>9 DEF Live

-----------------------------------------------------------------------------
(* The handlers of the loop *)

\* The retry timer fires.
LEMMA TimerIInv ==
  ASSUME ClientIInv, TimerEvent
  PROVE  ClientIInv'
<1>1. /\ failed = "none" /\ Typed /\ Live(Queue) /\ phase = "handle" /\ active.timer > 0
      /\ ~restarting
  BY DEF TimerEvent, LoopRuns, ClientIInv
<1>2. /\ active \in [timer : Nat, connector : BOOLEAN, conn : BOOLEAN]
      /\ timers \in Nat /\ delay \in kInitRetryDelayMs..kMaxRetryDelayMs /\ connect \in BOOLEAN
  BY <1>1 DEF Typed, TypeOK
<1>3. /\ timers = 1 /\ ~registered /\ connection = None /\ ~Fresh(Queue)
      /\ active.timer = 1 /\ ~active.connector /\ ~active.conn
  BY <1>1, <1>2 DEF Live, OneToken, Phases
<1>4. state = "kDisconnected" /\ channel = None /\ ~Has(Queue, "resetChannel")
  BY <1>1, <1>3 DEF Live, States, Resets
<1>5. StartInLoop("kDisconnected", connect, delay, 0)
  <2>1. timers - 1 = 0
    BY <1>3
  <2> QED
    BY <1>4, <2>1 DEF TimerEvent
<1>6. UNCHANGED <<clientConnect, connect, connection, life, pending, batch, phase, restarting,
                  other, calls, stopped>>
  BY DEF TimerEvent, userVars
<1>7. Queue' = Queue /\ Fresh(Queue)' = Fresh(Queue)
  BY <1>6 DEF Queue, Fresh
<1>8. /\ active' \in [timer : Nat, connector : BOOLEAN, conn : BOOLEAN]
      /\ active'.timer = 0 /\ ~active'.connector /\ ~active'.conn
  BY <1>2, <1>3 DEF TimerEvent
<1>9. ConTypes'
  BY <1>1, <1>2, <1>4, <1>5, 0 \in Nat, StartTypes
<1>10. Live(Queue)' /\ failed' = failed
  BY <1>1, <1>2, <1>3, <1>4, <1>5, <1>6, <1>7, <1>8, AttemptStep DEF Live, Phases, Sockets
<1>11. Typed'
  BY <1>1, <1>6, <1>8, <1>9, <1>10 DEF Typed, TypeOK, ConTypes
<1> QED
  BY <1>1, <1>10, <1>11 DEF ClientIInv, AttemptAssertsHold

\* removeConnection restarts the connector.
LEMMA RestartIInv ==
  ASSUME ClientIInv, Restart
  PROVE  ClientIInv'
<1>1. failed = "none" /\ Typed /\ Live(Queue) /\ restarting
  BY DEF Restart, ClientIInv
<1>2. /\ active \in [timer : Nat, connector : BOOLEAN, conn : BOOLEAN] /\ timers \in Nat
      /\ kInitRetryDelayMs \in kInitRetryDelayMs..kMaxRetryDelayMs
  BY <1>1, ClientConstants DEF Typed, TypeOK
<1>3. /\ timers = 0 /\ ~registered /\ connection = None /\ ~Fresh(Queue)
      /\ active.timer = 0 /\ ~active.connector /\ ~active.conn
  BY <1>1, <1>2 DEF Live, OneToken, Phases
<1>4. channel = None /\ ~Has(Queue, "resetChannel")
  BY <1>1 DEF Live, Resets
<1>5. StartInLoop("kDisconnected", TRUE, kInitRetryDelayMs, 0)
  BY <1>3 DEF Restart
<1>6. UNCHANGED <<clientConnect, connection, life, pending, batch, phase, active,
                  other, calls, stopped>>
  BY DEF Restart, userVars
<1>7. Queue' = Queue /\ Fresh(Queue)' = Fresh(Queue)
  BY <1>6 DEF Queue, Fresh
<1>8. ~restarting' /\ restarting' \in BOOLEAN /\ connect' \in BOOLEAN
  BY Zenon DEF Restart
<1>9. ConTypes'
  BY <1>1, <1>2, <1>4, <1>5, 0 \in Nat, StartTypes
<1>10. Live(Queue)' /\ failed' = failed
  BY <1>1, <1>2, <1>3, <1>4, <1>5, <1>6, <1>7, <1>8, AttemptStep DEF Live, Phases, Sockets
<1>11. Typed'
  BY <1>1, <1>6, <1>8, <1>9, <1>10 DEF Typed, TypeOK, ConTypes
<1> QED
  BY <1>1, <1>10, <1>11 DEF ClientIInv, AttemptAssertsHold

\* The user's connect() in the loop, for the first time.
LEMMA ConnectIInv ==
  ASSUME ClientIInv, Connects \in 0..1, ConnectInLoop
  PROVE  ClientIInv'
<1>1. failed = "none" /\ Typed /\ Live(Queue) /\ phase = "functors" /\ ~restarting
  BY DEF ConnectInLoop, InLoop, LoopRuns, ClientIInv
<1>2. /\ active \in [timer : Nat, connector : BOOLEAN, conn : BOOLEAN] /\ timers \in Nat
      /\ delay \in kInitRetryDelayMs..kMaxRetryDelayMs /\ calls \in [Ops -> Nat]
      /\ active = Nothing /\ "connect" \in Ops
  BY <1>1 DEF Typed, TypeOK, Live, Phases, Ops
<1>3. calls["connect"] = 0
  BY <1>2 DEF ConnectInLoop, MayCall, Limit
<1>4. /\ timers = 0 /\ ~registered /\ connection = None
      /\ other \notin {"connect", "startInLoop"} /\ ~Has(Queue, "startInLoop")
      /\ state = "kDisconnected" /\ channel = None /\ ~Has(Queue, "resetChannel")
  BY <1>1, <1>3 DEF Live, OneToken, States, Resets, Fresh
<1>5. StartInLoop("kDisconnected", TRUE, delay, 0)
  BY <1>4 DEF ConnectInLoop
<1>6. UNCHANGED <<connection, life, pending, batch, phase, active, restarting, other>>
  BY DEF ConnectInLoop, loopVars
<1>7. calls' \in [Ops -> Nat] /\ calls'["connect"] = 1
  BY <1>2, <1>3 DEF ConnectInLoop, Called
<1>8. Queue' = Queue /\ ~Fresh(Queue)'
  BY <1>4, <1>6, <1>7 DEF Queue, Fresh
<1>9. connect' \in BOOLEAN /\ clientConnect' \in BOOLEAN
  BY Zenon DEF ConnectInLoop
<1>10. ConTypes'
  BY <1>1, <1>2, <1>4, <1>5, 0 \in Nat, StartTypes
<1>11. active'.timer = 0 /\ ~active'.connector /\ ~active'.conn
  BY <1>2, <1>6 DEF Nothing
<1>12. Live(Queue)' /\ failed' = failed
  BY <1>1, <1>2, <1>4, <1>5, <1>6, <1>8, <1>11, AttemptStep DEF Live, Phases, Sockets
<1>13. Typed'
  BY <1>1, <1>2, <1>6, <1>7, <1>9, <1>10, <1>12 DEF Typed, TypeOK, ConTypes, ConnectInLoop
<1> QED
  BY <1>1, <1>12, <1>13 DEF ClientIInv, AttemptAssertsHold

\* A functor is taken that leaves everything else alone.
LEMMA QuietPop ==
  ASSUME Typed, Live(Queue), phase = "functors", batch # <<>>, batch' = Tail(batch),
         pending' = pending, Head(batch).op \in {"stopInLoop", "forceClose"},
         UNCHANGED <<state, channel, registered, timers, open, connection, phase, active,
                     restarting, other, calls>>
  PROVE  Live(Queue)'
<1>1. /\ Queue \in Seq(FunctorRecords) /\ Queue # <<>>
      /\ Queue' = Tail(Queue) /\ Head(Queue) = Head(batch) /\ batch \in Seq(FunctorRecords)
  BY QueuePop DEF Typed
<1>2. /\ \A op : op \notin {"stopInLoop", "forceClose"} => (Has(Queue', op) <=> Has(Queue, op))
      /\ \A fd : HasFd(Queue', "connectDestroyed", fd) <=> HasFd(Queue, "connectDestroyed", fd)
      /\ Once(Queue, "startInLoop") => Once(Queue', "startInLoop")
      /\ Once(Queue, "resetChannel") => Once(Queue', "resetChannel")
      /\ OnceFd(Queue, "connectDestroyed") => OnceFd(Queue', "connectDestroyed")
  BY <1>1, Popped
<1>3. Has(batch', "resetChannel") <=> Has(batch, "resetChannel")
  BY <1>1, Popped
<1>4. Closes(Queue', connection')
  BY <1>1, ClosesPop DEF Live
<1>5. Fresh(Queue)' <=> Fresh(Queue)
  BY <1>2, SameStarts
<1>6. Has(Queue', "startInLoop") <=> Has(Queue, "startInLoop")
  BY <1>2
<1>7. Has(Queue', "resetChannel") <=> Has(Queue, "resetChannel")
  BY <1>2
<1>8. Phases'
  BY DEF Live, Phases
<1>9. OneToken(Queue)' /\ States(Queue)'
  BY <1>2, <1>5, <1>6 DEF Live, OneToken, States
<1>10. Resets(Queue)'
  BY <1>2, <1>3, <1>5, <1>7 DEF Live, Resets
<1>11. Sockets(Queue)'
  BY <1>2 DEF Live, Sockets
<1> QED
  BY <1>4, <1>8, <1>9, <1>10, <1>11 DEF Live

\* startInLoop is run.
LEMMA RunStart ==
  ASSUME ClientIInv, RunConnectorFunctor, IsNext("startInLoop"), life # "gone"
  PROVE  ClientIInv'
<1>1. /\ failed = "none" /\ Typed /\ Live(Queue) /\ phase = "functors" /\ ~restarting
      /\ batch # <<>> /\ Head(batch).op = "startInLoop"
  BY DEF IsNext, LoopRuns, ClientIInv
<1>2. /\ delay \in kInitRetryDelayMs..kMaxRetryDelayMs /\ connect \in BOOLEAN /\ timers \in Nat
      /\ active = Nothing /\ batch \in Seq(FunctorRecords)
  BY <1>1 DEF Typed, TypeOK, Live, Phases
<1>3. /\ batch' = Tail(batch) /\ StartInLoop(state, connect, delay, timers)
      /\ UNCHANGED <<clientConnect, connect, connection, life, pending, phase, active, restarting,
                     other, calls, stopped>>
  BY <1>1 DEF RunConnectorFunctor, IsNext, userVars
<1>4. /\ Queue \in Seq(FunctorRecords) /\ Queue # <<>>
      /\ Queue' = Tail(Queue) /\ Head(Queue) = Head(batch)
  BY <1>1, <1>3, QueuePop
<1>5. Has(Queue, "startInLoop")
  BY <1>1, <1>4, Popped
<1>6. /\ timers = 0 /\ ~registered /\ connection = None /\ calls["connect"] # 0
      /\ other \notin {"connect", "startInLoop"}
      /\ state = "kDisconnected" /\ channel = None /\ ~Has(Queue, "resetChannel")
  BY <1>1, <1>5 DEF Live, OneToken, States, Resets, Fresh
<1>7. /\ ~Has(Queue', "startInLoop") /\ ~Has(Queue', "resetChannel")
      /\ \A fd : HasFd(Queue', "connectDestroyed", fd) <=> HasFd(Queue, "connectDestroyed", fd)
      /\ OnceFd(Queue', "connectDestroyed")
  BY <1>1, <1>4, <1>6, Popped DEF Live, OneToken, Sockets
<1>8. Closes(Queue', None)
  BY <1>1, <1>4, <1>6, ClosesPop DEF Live
<1>9. ~Fresh(Queue)'
  BY <1>3, <1>6, <1>7 DEF Fresh
<1>10. StartInLoop("kDisconnected", connect, delay, 0)
  BY <1>3, <1>6
<1>11. active'.timer = 0 /\ ~active'.connector /\ ~active'.conn
  BY <1>2, <1>3 DEF Nothing
<1>12. ConTypes'
  BY <1>1, <1>2, <1>6, <1>10, 0 \in Nat, StartTypes
<1>13. Live(Queue)' /\ failed' = failed
  BY <1>1, <1>2, <1>3, <1>6, <1>7, <1>8, <1>9, <1>10, <1>11, AttemptStep
<1>14. batch' \in Seq(FunctorRecords)
  BY <1>1, <1>2, <1>3, HeadTailProperties
<1>15. Typed'
  BY <1>1, <1>3, <1>12, <1>13, <1>14 DEF Typed, TypeOK, ConTypes
<1> QED
  BY <1>1, <1>13, <1>15 DEF ClientIInv, AttemptAssertsHold

\* The connector lets go of its socket and queues resetChannel: what the types
\* make of it.
LEMMA RetryTypes ==
  ASSUME Typed, NEW fds \in SUBSET Fds, registered' = FALSE, channel' = channel,
         gaveUp' = gaveUp, RetryWith(channel, fds, connect, delay, timers)
  PROVE  ConTypes'
<1>1. registered' \in BOOLEAN
  BY Zenon
<1>2. /\ timers \in Nat /\ delay \in kInitRetryDelayMs..kMaxRetryDelayMs
      /\ channel \in Fds \cup {None} /\ gaveUp \in BOOLEAN
  BY DEF Typed, TypeOK
<1>3. delay' \in kInitRetryDelayMs..kMaxRetryDelayMs
  BY <1>2, NextDelayInBounds DEF RetryWith
<1>4. timers' \in Nat
  BY <1>2 DEF RetryWith
<1> QED
  BY <1>1, <1>2, <1>3, <1>4 DEF ConTypes, RetryWith

\* stopInLoop is run.
LEMMA RunStop ==
  ASSUME ClientIInv, RunConnectorFunctor, IsNext("stopInLoop"), life # "gone"
  PROVE  ClientIInv'
<1>1. /\ failed = "none" /\ Typed /\ Live(Queue) /\ phase = "functors" /\ ~restarting
      /\ batch # <<>> /\ Head(batch).op = "stopInLoop"
  BY DEF IsNext, LoopRuns, ClientIInv
<1>2. /\ batch \in Seq(FunctorRecords) /\ pending \in Seq(FunctorRecords) /\ active = Nothing
      /\ open \subseteq Fds
  BY <1>1 DEF Typed, TypeOK, Live, Phases
<1>3. /\ batch' = Tail(batch) /\ StopInLoop /\ stopped' \in {"done", stopped}
      /\ UNCHANGED <<clientConnect, connect, connection, life, phase, active, restarting,
                     other, calls>>
  BY <1>1 DEF RunConnectorFunctor, IsNext, userVars
<1>4. batch' \in Seq(FunctorRecords)
  BY <1>1, <1>2, <1>3, HeadTailProperties
<1>5. CASE state # "kConnecting"
  <2>1. UNCHANGED <<conVars, pending, failed>>
    BY <1>3, <1>5 DEF StopInLoop
  <2>2. Live(Queue)'
    BY <1>1, <1>3, <2>1, QuietPop DEF conVars
  <2>3. Typed'
    BY <1>1, <1>3, <1>4, <2>1 DEF Typed, TypeOK, conVars
  <2> QED
    BY <1>1, <2>1, <2>2, <2>3 DEF ClientIInv, AttemptAssertsHold
<1>6. CASE state = "kConnecting"
  <2> DEFINE e == Functor("resetChannel", None)
  <2>1. /\ RemoveAndResetChannel /\ RetryWith(channel, open, connect, delay, timers)
    BY <1>3, <1>6 DEF StopInLoop
  <2>2. /\ registered' = FALSE /\ pending' = Append(pending, e)
        /\ UNCHANGED <<channel, gaveUp, failed>>
    BY <2>1 DEF RemoveAndResetChannel
  <2>3. e \in FunctorRecords /\ e.op = "resetChannel"
    BY DEF Functor, FunctorRecords, FunctorOps
  <2> HIDE DEF e
  <2>4. /\ Queue \in Seq(FunctorRecords) /\ Queue # <<>>
        /\ Queue' = Append(Tail(Queue), e) /\ Head(Queue) = Head(batch)
    BY <1>1, <1>3, <2>2, <2>3, QueuePopPush
  <2>5. /\ registered /\ connection = None /\ ~Fresh(Queue) /\ ~Has(Queue, "resetChannel")
        /\ channel \in Fds
    BY <1>1, <1>6 DEF Live, States, OneToken, Resets, Typed, TypeOK
  <2>6. /\ Tail(Queue) \in Seq(FunctorRecords)
        /\ ~Has(Tail(Queue), "resetChannel")
        /\ Has(Tail(Queue), "startInLoop") => Has(Queue, "startInLoop")
        /\ \A fd : HasFd(Tail(Queue), "connectDestroyed", fd) <=> HasFd(Queue, "connectDestroyed", fd)
        /\ OnceFd(Tail(Queue), "connectDestroyed") /\ Once(Tail(Queue), "resetChannel")
    BY <1>1, <2>4, <2>5, Popped DEF Live, Sockets, Resets
  <2>7. Closes(Tail(Queue), None)
    BY <1>1, <2>4, <2>5, ClosesPop DEF Live
  <2>8. /\ Queue' \in Seq(FunctorRecords)
        /\ Has(Queue', "resetChannel") /\ Once(Queue', "resetChannel")
        /\ Has(Queue', "startInLoop") => Has(Queue, "startInLoop")
        /\ \A fd : HasFd(Queue', "connectDestroyed", fd) <=> HasFd(Queue, "connectDestroyed", fd)
        /\ OnceFd(Queue', "connectDestroyed")
    BY <2>3, <2>4, <2>6, Pushed
  <2>9. Closes(Queue', None)
    BY <2>3, <2>4, <2>6, <2>7, ClosesReset
  <2>10. ~Fresh(Queue)'
    BY <1>3, <2>5, <2>8 DEF Fresh
  <2>11. /\ state' = "kDisconnected" /\ open' = open \ {channel}
         /\ timers' = timers \/ timers' = timers + 1
    BY <2>1 DEF RetryWith
  <2>12. /\ active'.timer = active.timer /\ ~active'.connector /\ active'.conn = active.conn
    BY <1>2, <1>3 DEF Nothing
  <2>13. Live(Queue)'
    BY <1>1, <1>2, <1>3, <2>2, <2>5, <2>8, <2>9, <2>10, <2>11, <2>12, UnregisterStep
  <2>14. ConTypes'
    BY <1>1, <1>2, <2>1, <2>2, RetryTypes
  <2>15. pending' \in Seq(FunctorRecords)
    BY <1>2, <2>2, <2>3, AppendProperties
  <2>16. Typed'
    BY <1>1, <1>3, <1>4, <2>2, <2>14, <2>15 DEF Typed, TypeOK, ConTypes
  <2> QED
    BY <1>1, <2>2, <2>13, <2>16 DEF ClientIInv, AttemptAssertsHold
<1> QED
  BY <1>5, <1>6

\* resetChannel is run.
LEMMA RunReset ==
  ASSUME ClientIInv, RunConnectorFunctor, IsNext("resetChannel"), life # "gone"
  PROVE  ClientIInv'
<1>1. /\ failed = "none" /\ Typed /\ Live(Queue) /\ phase = "functors" /\ ~restarting
      /\ batch # <<>> /\ Head(batch).op = "resetChannel"
  BY DEF IsNext, LoopRuns, ClientIInv
<1>2. /\ batch' = Tail(batch) /\ channel' = None
      /\ UNCHANGED <<clientConnect, connect, connection, life, phase, active, restarting,
                     other, calls, state, delay, registered, timers, open, gaveUp, pending,
                     stopped, failed>>
  BY <1>1 DEF RunConnectorFunctor, IsNext, userVars
<1>3. /\ Queue \in Seq(FunctorRecords) /\ Queue # <<>>
      /\ Queue' = Tail(Queue) /\ Head(Queue) = Head(batch)
  BY <1>1, <1>2, QueuePop
<1>4. /\ Has(Queue, "resetChannel") /\ ~Has(Queue', "resetChannel")
      /\ Has(Queue', "startInLoop") <=> Has(Queue, "startInLoop")
      /\ \A fd : HasFd(Queue', "connectDestroyed", fd) <=> HasFd(Queue, "connectDestroyed", fd)
      /\ Once(Queue', "startInLoop") /\ Once(Queue', "resetChannel")
      /\ OnceFd(Queue', "connectDestroyed")
  BY <1>1, <1>3, Popped DEF Live, OneToken, Resets, Sockets
<1>5. ~registered /\ ~registered'
  BY <1>1, <1>2, <1>4 DEF Live, Resets
<1>6. Closes(Queue', connection')
  BY <1>1, <1>2, <1>3, ClosesPop DEF Live
<1>7. Fresh(Queue)' <=> Fresh(Queue)
  BY <1>2, <1>4, SameStarts
<1>8. Phases'
  BY <1>1, <1>2 DEF Live, Phases
<1>9. OneToken(Queue)' /\ States(Queue)'
  BY <1>1, <1>2, <1>4, <1>5, <1>7 DEF Live, OneToken, States
<1>10. Resets(Queue)'
  BY <1>2, <1>4, <1>5 DEF Resets
<1>11. Sockets(Queue)'
  BY <1>1, <1>2, <1>4, <1>5 DEF Live, Sockets
<1>12. batch' \in Seq(FunctorRecords)
  BY <1>1, <1>2, HeadTailProperties DEF Typed
<1>13. Typed'
  BY <1>1, <1>2, <1>12 DEF Typed, TypeOK
<1> QED
  BY <1>1, <1>2, <1>6, <1>8, <1>9, <1>10, <1>11, <1>13 DEF ClientIInv, Live, AttemptAssertsHold

\* A functor of the connector, which may be gone.
LEMMA RunConnectorIInv ==
  ASSUME ClientIInv, RunConnectorFunctor
  PROVE  ClientIInv'
<1>1. CASE life = "gone"
  <2>1. /\ failed' = "freed" /\ batch' = Tail(batch)
        /\ UNCHANGED <<conVars, pending, stopped, clientConnect, connect, connection, life, phase,
                       active, restarting, other, calls>>
    BY <1>1 DEF RunConnectorFunctor, userVars
  <2>2. Typed /\ batch \in Seq(FunctorRecords) /\ batch # <<>>
    BY DEF ClientIInv, Typed, RunConnectorFunctor, IsNext
  <2>3. batch' \in Seq(FunctorRecords)
    BY <2>1, <2>2, HeadTailProperties
  <2>4. Typed'
    BY <2>1, <2>2, <2>3 DEF Typed, TypeOK, conVars
  <2> QED
    BY <1>1, <2>1, <2>4 DEF ClientIInv, AttemptAssertsHold
<1>2. CASE life # "gone"
  BY <1>2, RunStart, RunStop, RunReset DEF RunConnectorFunctor
<1> QED
  BY <1>1, <1>2

\* The socket that is being connected has an event.
LEMMA ConnectorIInv ==
  ASSUME ClientIInv, ConnectorEvent
  PROVE  ClientIInv'
<1> DEFINE e == Functor("resetChannel", None)
<1>1. /\ failed = "none" /\ Typed /\ Live(Queue) /\ phase = "handle" /\ ~restarting
      /\ active.connector
  BY DEF ConnectorEvent, LoopRuns, ClientIInv
<1>2. /\ active \in [timer : Nat, connector : BOOLEAN, conn : BOOLEAN] /\ timers \in Nat
      /\ pending \in Seq(FunctorRecords) /\ open \subseteq Fds
      /\ delay \in kInitRetryDelayMs..kMaxRetryDelayMs /\ gaveUp \in BOOLEAN
  BY <1>1 DEF Typed, TypeOK
<1>3. /\ registered /\ connection = None /\ ~Fresh(Queue) /\ ~Has(Queue, "resetChannel")
      /\ channel \in Fds /\ batch = <<>>
  BY <1>1 DEF Live, Phases, States, OneToken, Resets, Typed, TypeOK
<1>4. /\ active' = [active EXCEPT !.connector = FALSE]
      /\ UNCHANGED <<clientConnect, connect, life, batch, phase, restarting, other, calls, stopped>>
  BY DEF ConnectorEvent, userVars
<1>5. /\ active' \in [timer : Nat, connector : BOOLEAN, conn : BOOLEAN]
      /\ active'.timer = active.timer /\ ~active'.connector /\ active'.conn = active.conn
  BY <1>2, <1>4
<1>6. RemoveAndResetChannel
  BY DEF ConnectorEvent, HandleError, HandleWrite
<1>7. /\ registered' = FALSE /\ pending' = Append(pending, e)
      /\ UNCHANGED <<channel, gaveUp, failed>>
  BY <1>6 DEF RemoveAndResetChannel
<1>8. e \in FunctorRecords /\ e.op = "resetChannel"
  BY DEF Functor, FunctorRecords, FunctorOps
<1> HIDE DEF e
<1>9. Queue \in Seq(FunctorRecords) /\ Queue' = Append(Queue, e)
  BY <1>1, <1>4, <1>7, <1>8, QueuePush
<1>10. /\ Queue' \in Seq(FunctorRecords)
       /\ Has(Queue', "resetChannel") /\ Once(Queue', "resetChannel")
       /\ Has(Queue', "startInLoop") => Has(Queue, "startInLoop")
       /\ \A fd : HasFd(Queue', "connectDestroyed", fd) <=> HasFd(Queue, "connectDestroyed", fd)
       /\ OnceFd(Queue', "connectDestroyed")
  BY <1>1, <1>3, <1>8, <1>9, Pushed DEF Live, Sockets, Resets
<1>11. Closes(Queue', None)
  BY <1>1, <1>3, <1>8, <1>9, ClosesReset DEF Live
<1>12. ~Fresh(Queue)'
  BY <1>3, <1>4, <1>10 DEF Fresh
<1>13. \/ RetryWith(channel, open, connect, delay, timers) /\ UNCHANGED connection
       \/ /\ state' = "kConnected" /\ UNCHANGED <<timers, delay>>
          /\ \/ connection' = channel /\ open' = open
             \/ open' = open \ {channel} /\ connection' = connection
  <2>1. CASE \E out \in BOOLEAN : HandleError(out)
    BY <2>1 DEF HandleError
  <2>2. CASE \E ok \in BOOLEAN : HandleWrite(ok)
    BY <2>2 DEF HandleWrite, NewConnection
  <2> QED
    BY <2>1, <2>2 DEF ConnectorEvent
<1>14. Live(Queue)'
  <2>1. CASE RetryWith(channel, open, connect, delay, timers) /\ UNCHANGED connection
    <3>1. /\ state' = "kDisconnected" /\ open' = open \ {channel} /\ connection' = connection
          /\ timers' = timers \/ timers' = timers + 1
      BY <2>1 DEF RetryWith
    <3> QED
      BY <1>1, <1>3, <1>4, <1>5, <1>7, <1>10, <1>11, <1>12, <3>1, UnregisterStep
  <2>2. CASE /\ state' = "kConnected" /\ UNCHANGED <<timers, delay>>
             /\ \/ connection' = channel /\ open' = open
                \/ open' = open \ {channel} /\ connection' = connection
    BY <1>1, <1>3, <1>4, <1>5, <1>7, <1>10, <1>11, <1>12, <2>2, UnregisterStep
  <2> QED
    BY <1>13, <2>1, <2>2
<1>15. ConTypes'
  <2>1. CASE RetryWith(channel, open, connect, delay, timers)
    BY <2>1, <1>1, <1>2, <1>7, RetryTypes
  <2>2. CASE /\ state' = "kConnected" /\ UNCHANGED <<timers, delay>>
             /\ open' = open \/ open' = open \ {channel}
    <3>1. registered' \in BOOLEAN
      BY <1>7, Zenon
    <3> QED
      BY <3>1, <2>2, <1>2, <1>3, <1>7 DEF ConTypes
  <2> QED
    BY <1>13, <2>1, <2>2
<1>16. connection' \in Fds \cup {None}
  BY <1>3, <1>13
<1>17. pending' \in Seq(FunctorRecords)
  BY <1>2, <1>7, <1>8, AppendProperties
<1>18. Typed'
  BY <1>1, <1>4, <1>5, <1>7, <1>15, <1>16, <1>17 DEF Typed, TypeOK, ConTypes
<1> QED
  BY <1>1, <1>7, <1>14, <1>18 DEF ClientIInv, AttemptAssertsHold

\* The peer closes the connection.
LEMMA CloseIInv ==
  ASSUME ClientIInv, CloseEvent
  PROVE  ClientIInv'
<1> DEFINE e == Functor("connectDestroyed", connection)
<1>1. /\ failed = "none" /\ Typed /\ Live(Queue) /\ phase = "handle" /\ ~restarting
      /\ active.conn
  BY DEF CloseEvent, LoopRuns, ClientIInv
<1>2. /\ active \in [timer : Nat, connector : BOOLEAN, conn : BOOLEAN]
      /\ pending \in Seq(FunctorRecords)
  BY <1>1 DEF Typed, TypeOK
<1>3. /\ connection # None /\ connection \in Fds /\ channel = None /\ batch = <<>>
      /\ ~active.connector
  BY <1>1 DEF Live, Phases, Resets, OneToken, Typed, TypeOK
<1>4. /\ active' = [active EXCEPT !.conn = FALSE] /\ CloseConnection
      /\ UNCHANGED <<clientConnect, connect, conVars, life, batch, phase, other, calls, stopped,
                     failed>>
  BY DEF CloseEvent, userVars
<1>5. /\ active' \in [timer : Nat, connector : BOOLEAN, conn : BOOLEAN]
      /\ active'.timer = active.timer /\ ~active'.connector /\ ~active'.conn
  BY <1>2, <1>3, <1>4
<1>6. /\ connection' = None /\ pending' = Append(pending, e) /\ restarting' \in BOOLEAN
  BY <1>4 DEF CloseConnection
<1>7. e \in FunctorRecords /\ e.op = "connectDestroyed" /\ e.fd = connection
  BY <1>3 DEF Functor, FunctorRecords, FunctorOps
<1> HIDE DEF e
<1>8. Queue \in Seq(FunctorRecords) /\ Queue' = Append(Queue, e)
  BY <1>1, <1>4, <1>6, <1>7, QueuePush
<1>9. /\ \A op : Has(Queue', op) /\ op # "connectDestroyed" => Has(Queue, op)
      /\ \A fd : HasFd(Queue', "connectDestroyed", fd) <=>
                   HasFd(Queue, "connectDestroyed", fd) \/ fd = connection
      /\ OnceFd(Queue', "connectDestroyed")
  BY <1>1, <1>7, <1>8, Pushed DEF Live, Sockets
<1>10. Closes(Queue', None)
  BY <1>1, <1>3, <1>7, <1>8, ClosesEnd DEF Live
<1>11. Live(Queue)'
  BY <1>1, <1>3, <1>4, <1>5, <1>6, <1>9, <1>10, CloseStep DEF conVars
<1>12. pending' \in Seq(FunctorRecords)
  BY <1>2, <1>6, <1>7, AppendProperties
<1>13. Typed'
  BY <1>1, <1>4, <1>5, <1>6, <1>12 DEF Typed, TypeOK, conVars
<1> QED
  BY <1>1, <1>4, <1>11, <1>13 DEF ClientIInv, AttemptAssertsHold

\* forceCloseInLoop is run.
LEMMA ForceCloseRunIInv ==
  ASSUME ClientIInv, RunForceClose
  PROVE  ClientIInv'
<1> DEFINE e == Functor("connectDestroyed", connection)
<1>1. /\ failed = "none" /\ Typed /\ Live(Queue) /\ phase = "functors" /\ ~restarting
      /\ batch # <<>> /\ Head(batch).op = "forceClose"
  BY DEF RunForceClose, IsNext, LoopRuns, ClientIInv
<1>2. /\ batch \in Seq(FunctorRecords) /\ pending \in Seq(FunctorRecords) /\ active = Nothing
  BY <1>1 DEF Typed, Live, Phases
<1>3. /\ batch' = Tail(batch)
      /\ UNCHANGED <<clientConnect, connect, conVars, life, phase, active, other, calls, stopped,
                     failed>>
  BY DEF RunForceClose, userVars
<1>4. batch' \in Seq(FunctorRecords)
  BY <1>1, <1>2, <1>3, HeadTailProperties
<1>5. CASE connection # Head(batch).fd
  <2>1. UNCHANGED <<connection, pending, restarting>>
    BY <1>5 DEF RunForceClose
  <2>2. Live(Queue)'
    BY <1>1, <1>3, <2>1, QuietPop DEF conVars
  <2>3. Typed'
    BY <1>1, <1>3, <1>4, <2>1 DEF Typed, TypeOK, conVars
  <2> QED
    BY <1>1, <1>3, <2>2, <2>3 DEF ClientIInv, AttemptAssertsHold
<1>6. CASE connection = Head(batch).fd
  <2>1. CloseConnection
    BY <1>6 DEF RunForceClose
  <2>2. /\ connection' = None /\ pending' = Append(pending, e) /\ restarting' \in BOOLEAN
    BY <2>1 DEF CloseConnection
  <2>3. /\ Queue \in Seq(FunctorRecords) /\ Queue # <<>> /\ Head(Queue) = Head(batch)
        /\ 1 \in DOMAIN Queue /\ Queue[1] = Head(Queue)
    <3>1. /\ batch \o pending \in Seq(FunctorRecords) /\ batch \o pending # <<>>
          /\ Head(batch \o pending) = Head(batch)
      BY <1>1, <1>2, PopQueue
    <3>2. /\ Queue \in Seq(FunctorRecords) /\ Queue # <<>> /\ Head(Queue) = Head(batch)
      BY <3>1 DEF Queue
    <3> QED
      BY <3>2
  <2>4. connection \in Fds /\ connection # None
    BY <1>1, <1>6, <2>3, ClientConstants DEF Live, Closes
  <2>5. channel = None
    <3>1. SUFFICES ASSUME channel # None PROVE FALSE
      OBVIOUS
    <3>2. Has(batch, "resetChannel")
      BY <1>1, <2>4, <3>1 DEF Live, Resets
    <3>3. PICK j \in DOMAIN batch : batch[j].op = "resetChannel"
      BY <3>2 DEF Has
    <3>4. j \in DOMAIN Queue /\ Queue[j] = batch[j] /\ j >= 1 /\ j \in Nat
      BY <1>2, <3>3, ConcatProperties DEF Queue
    <3>5. j < 1
      BY <1>1, <1>6, <2>3, <3>3, <3>4 DEF Live, Closes
    <3> QED
      BY <3>4, <3>5
  <2>6. e \in FunctorRecords /\ e.op = "connectDestroyed" /\ e.fd = connection
    BY <2>4 DEF Functor, FunctorRecords, FunctorOps
  <2> HIDE DEF e
  <2>7. Queue' = Append(Tail(Queue), e)
    BY <1>1, <1>3, <2>2, <2>6, QueuePopPush
  <2>8. /\ Tail(Queue) \in Seq(FunctorRecords)
        /\ \A op : Has(Tail(Queue), op) => Has(Queue, op)
        /\ \A fd : HasFd(Tail(Queue), "connectDestroyed", fd) <=> HasFd(Queue, "connectDestroyed", fd)
        /\ OnceFd(Tail(Queue), "connectDestroyed")
    BY <1>1, <2>3, Popped DEF Live, Sockets
  <2>9. /\ \A op : Has(Queue', op) /\ op # "connectDestroyed" => Has(Queue, op)
        /\ \A fd : HasFd(Queue', "connectDestroyed", fd) <=>
                     HasFd(Queue, "connectDestroyed", fd) \/ fd = connection
        /\ OnceFd(Queue', "connectDestroyed")
    BY <1>1, <2>6, <2>7, <2>8, Pushed DEF Live, Sockets
  <2>10. Closes(Queue', None)
    <3>1. Closes(Tail(Queue), connection)
      BY <1>1, <2>3, ClosesPop DEF Live
    <3> QED
      BY <2>4, <2>6, <2>7, <2>8, <3>1, ClosesEnd
  <2>11. active'.timer = active.timer /\ ~active'.connector /\ ~active'.conn
    BY <1>2, <1>3 DEF Nothing
  <2>12. Live(Queue)'
    BY <1>1, <1>2, <1>3, <2>2, <2>4, <2>5, <2>9, <2>10, <2>11, CloseStep DEF conVars
  <2>13. pending' \in Seq(FunctorRecords)
    BY <1>2, <2>2, <2>6, AppendProperties
  <2>14. Typed'
    BY <1>1, <1>3, <1>4, <2>2, <2>13 DEF Typed, TypeOK, conVars
  <2> QED
    BY <1>1, <1>3, <2>12, <2>14 DEF ClientIInv, AttemptAssertsHold
<1> QED
  BY <1>5, <1>6

\* connectDestroyed is run.
LEMMA DestroyedIInv ==
  ASSUME ClientIInv, RunConnectDestroyed
  PROVE  ClientIInv'
<1> DEFINE fd == Head(batch).fd
<1>1. /\ failed = "none" /\ Typed /\ Live(Queue) /\ phase = "functors" /\ ~restarting
      /\ batch # <<>> /\ Head(batch).op = "connectDestroyed"
  BY DEF RunConnectDestroyed, IsNext, LoopRuns, ClientIInv
<1>2. batch \in Seq(FunctorRecords)
  BY <1>1 DEF Typed
<1>3. /\ batch' = Tail(batch) /\ open' = open \ {fd}
      /\ UNCHANGED <<clientConnect, connect, state, delay, channel, registered, timers, gaveUp,
                     connection, life, pending, phase, active, restarting, other, calls, stopped,
                     failed>>
  BY DEF RunConnectDestroyed, userVars
<1>4. /\ Queue \in Seq(FunctorRecords) /\ Queue # <<>>
      /\ Queue' = Tail(Queue) /\ Head(Queue) = Head(batch)
  BY <1>1, <1>3, QueuePop
<1>5. /\ Has(Queue', "startInLoop") <=> Has(Queue, "startInLoop")
      /\ Has(Queue', "resetChannel") <=> Has(Queue, "resetChannel")
      /\ Once(Queue', "startInLoop") /\ Once(Queue', "resetChannel")
      /\ OnceFd(Queue', "connectDestroyed")
  BY <1>1, <1>4, Popped DEF Live, OneToken, Resets, Sockets
<1>6. /\ \A f : HasFd(Queue, "connectDestroyed", f) <=>
                  HasFd(Queue', "connectDestroyed", f) \/ f = fd
      /\ ~HasFd(Queue', "connectDestroyed", fd)
  BY <1>1, <1>4, Popped DEF Live, Sockets
<1>7. Has(batch', "resetChannel") <=> Has(batch, "resetChannel")
  BY <1>1, <1>2, <1>3, Popped
<1>8. Closes(Queue', connection')
  BY <1>1, <1>3, <1>4, ClosesPop DEF Live
<1>9. Fresh(Queue)' <=> Fresh(Queue)
  BY <1>3, <1>5, SameStarts
<1> HIDE DEF fd
<1>10. Phases'
  BY <1>1, <1>3 DEF Live, Phases
<1>11. OneToken(Queue)' /\ States(Queue)'
  BY <1>1, <1>3, <1>5, <1>9 DEF Live, OneToken, States
<1>12. Resets(Queue)'
  BY <1>1, <1>3, <1>5, <1>7, <1>9 DEF Live, Resets
<1>13. Sockets(Queue)'
  BY <1>1, <1>3, <1>5, <1>6 DEF Live, Sockets
<1>14. batch' \in Seq(FunctorRecords)
  BY <1>1, <1>2, <1>3, HeadTailProperties
<1>15. Typed'
  BY <1>1, <1>3, <1>14 DEF Typed, TypeOK
<1> QED
  BY <1>1, <1>3, <1>8, <1>10, <1>11, <1>12, <1>13, <1>15 DEF ClientIInv, Live, AttemptAssertsHold

\* poll() reports what is there, and a timer only when the channel is reset.
LEMMA PollIInv ==
  ASSUME ClientIInv, Poll
  PROVE  ClientIInv'
<1>1. failed = "none" /\ Typed /\ Live(Queue) /\ phase = "poll" /\ ~restarting
  BY DEF Poll, LoopRuns, ClientIInv
<1>2. /\ timers \in Nat /\ registered \in BOOLEAN /\ pending \in Seq(FunctorRecords)
      /\ batch = <<>>
  BY <1>1 DEF Typed, TypeOK, Live, Phases
<1>3. /\ phase' = "handle"
      /\ UNCHANGED <<clientConnect, connect, conVars, connection, life, pending, batch, restarting,
                     other, calls, stopped, failed>>
  BY DEF Poll, userVars
<1>4. PICK n \in (IF Settled THEN 0..timers ELSE {0}), r \in {FALSE, registered},
           k \in {FALSE, connection # None} : active' = [timer |-> n, connector |-> r, conn |-> k]
  BY DEF Poll
<1>5. /\ n \in Nat /\ n <= timers /\ r \in BOOLEAN /\ k \in BOOLEAN
      /\ (r => registered) /\ (k => connection # None) /\ (n # 0 => Settled)
  <2>1. r \in BOOLEAN /\ k \in BOOLEAN /\ (r => registered) /\ (k => connection # None)
    <3>1. r = FALSE \/ r = registered
      BY <1>4
    <3>2. k = FALSE \/ k = (connection # None)
      BY <1>4
    <3>3. r \in BOOLEAN /\ (r => registered)
      <4>1. registered \in BOOLEAN
        BY <1>2
      <4>2. CASE r = FALSE
        BY <4>2, Zenon
      <4>3. CASE r = registered
        BY <4>1, <4>3
      <4> QED
        BY <3>1, <4>2, <4>3
    <3>4. k \in BOOLEAN /\ (k => connection # None)
      BY <3>2, Zenon
    <3> QED
      BY <3>3, <3>4
  <2>2. n \in Nat /\ n <= timers /\ (n # 0 => Settled)
    BY <1>2, <1>4
  <2> QED
    BY <2>1, <2>2
<1>6. /\ active' \in [timer : Nat, connector : BOOLEAN, conn : BOOLEAN]
      /\ active'.timer = n /\ (active'.connector => registered)
      /\ (active'.conn => connection # None)
  BY <1>4, <1>5
<1>7. Queue' = Queue /\ (Fresh(Queue)' <=> Fresh(Queue)) /\ Queue = pending
  <2>1. batch \o pending = pending
    BY <1>2, ConcatEmptySeq
  <2> QED
    BY <2>1, <1>3 DEF Queue, Fresh
<1>8. active'.timer # 0 => channel = None
  <2> SUFFICES ASSUME active'.timer # 0 PROVE channel = None
    OBVIOUS
  <2>1. Settled /\ timers # 0
    BY <1>2, <1>5, <1>6
  <2>2. ~Has(Queue, "resetChannel")
    BY <2>1, <1>7 DEF Settled, Has
  <2> QED
    BY <1>1, <2>1, <2>2 DEF Live, OneToken, Resets
<1>9. connection # None => channel = None
  BY <1>1 DEF Live, Resets
<1>10. Phases'
  BY <1>2, <1>3, <1>5, <1>6 DEF Phases, conVars
<1>11. OneToken(Queue)' /\ States(Queue)'
  BY <1>1, <1>3, <1>7 DEF Live, OneToken, States, conVars
<1>12. Resets(Queue)'
  BY <1>1, <1>3, <1>7, <1>8, <1>9 DEF Live, Resets, conVars
<1>13. Sockets(Queue)' /\ Closes(Queue', connection')
  BY <1>1, <1>3, <1>7 DEF Live, Sockets, conVars
<1>14. Typed'
  BY <1>1, <1>3, <1>6 DEF Typed, TypeOK, conVars
<1> QED
  BY <1>1, <1>3, <1>10, <1>11, <1>12, <1>13, <1>14 DEF ClientIInv, Live, AttemptAssertsHold

\* doPendingFunctors begins and ends.
LEMMA FunctorsIInv ==
  ASSUME ClientIInv, BeginFunctors \/ EndFunctors
  PROVE  ClientIInv'
<1>1. failed = "none" /\ Typed /\ Live(Queue) /\ ~restarting
  BY DEF BeginFunctors, EndFunctors, LoopRuns, ClientIInv
<1>2. pending \in Seq(FunctorRecords) /\ batch \in Seq(FunctorRecords)
  BY <1>1 DEF Typed
<1>3. UNCHANGED <<clientConnect, connect, conVars, connection, life, active, restarting,
                  other, calls, stopped, failed>>
  BY DEF BeginFunctors, EndFunctors, userVars
<1>4. /\ Queue' = Queue /\ batch' \in Seq(FunctorRecords) /\ pending' \in Seq(FunctorRecords)
      /\ phase' \in {"poll", "functors"} /\ active = Nothing
      /\ phase' # "functors" => batch' = <<>>
      /\ phase' = "functors" => batch' = Queue
      /\ phase' = "poll" => phase = "functors" /\ batch = <<>>
  <2>1. CASE BeginFunctors
    <3>1. batch = <<>> /\ active = Nothing
      BY <1>1, <2>1 DEF BeginFunctors, Live, Phases
    <3>2. Queue = pending /\ pending \o <<>> = pending
      BY <1>2, <3>1, ConcatEmptySeq DEF Queue
    <3>3. batch' = pending /\ pending' = <<>> /\ phase' = "functors"
      BY <2>1 DEF BeginFunctors
    <3>4. <<>> \in Seq(FunctorRecords)
      OBVIOUS
    <3> QED
      BY <1>2, <3>1, <3>2, <3>3, <3>4 DEF Queue
  <2>2. CASE EndFunctors
    BY <1>1, <1>2, <2>2 DEF EndFunctors, Queue, Live, Phases
  <2> QED
    BY <2>1, <2>2
<1>5. Fresh(Queue)' <=> Fresh(Queue)
  BY <1>3, <1>4 DEF Fresh
<1>6. Phases'
  BY <1>1, <1>3, <1>4 DEF Live, Phases, conVars
<1>7. OneToken(Queue)' /\ States(Queue)'
  BY <1>1, <1>3, <1>4, <1>5 DEF Live, OneToken, States, conVars
<1>8. Resets(Queue)'
  <2>1. connection # None /\ channel # None => phase' = "functors" /\ Has(batch', "resetChannel")
    <3> SUFFICES ASSUME connection # None, channel # None
                 PROVE  phase' = "functors" /\ Has(batch', "resetChannel")
      OBVIOUS
    <3>1. Has(Queue, "resetChannel")
      BY <1>1 DEF Live, OneToken, Resets
    <3>2. ~Has(<<>>, "resetChannel")
      BY DEF Has
    <3>3. CASE phase' = "poll"
      BY <1>1, <1>4, <3>2, <3>3 DEF Live, Resets
    <3> QED
      BY <1>4, <3>1, <3>3
  <2> QED
    BY <1>1, <1>3, <1>4, <1>5, <2>1 DEF Live, Resets, conVars
<1>9. Sockets(Queue)' /\ Closes(Queue', connection')
  BY <1>1, <1>3, <1>4 DEF Live, Sockets, conVars
<1>10. Typed'
  BY <1>1, <1>3, <1>4 DEF Typed, TypeOK, conVars
<1> QED
  BY <1>1, <1>3, <1>6, <1>7, <1>8, <1>9, <1>10 DEF ClientIInv, Live, AttemptAssertsHold

-----------------------------------------------------------------------------
(* The user *)

\* A step that leaves the token where it is.
LEMMA QuietStep ==
  ASSUME Typed, Live(Queue),
         UNCHANGED <<state, channel, registered, timers, open, connection, phase, active, batch,
                     restarting>>,
         calls'["connect"] = 0 <=> calls["connect"] = 0,
         other' \in {"connect", "startInLoop"} <=> other \in {"connect", "startInLoop"},
         \/ pending' = pending
         \/ \E e \in FunctorRecords :
              /\ pending' = Append(pending, e) /\ e.op \in {"stopInLoop", "forceClose"}
              /\ e.op = "forceClose" => e.fd = connection /\ connection # None
  PROVE  Live(Queue)'
<1>1. /\ \A op : op \notin {"stopInLoop", "forceClose"} => (Has(Queue', op) <=> Has(Queue, op))
      /\ \A fd : HasFd(Queue', "connectDestroyed", fd) <=> HasFd(Queue, "connectDestroyed", fd)
      /\ Once(Queue', "startInLoop") /\ Once(Queue', "resetChannel")
      /\ OnceFd(Queue', "connectDestroyed") /\ Closes(Queue', connection)
  <2>1. CASE pending' = pending
    BY <2>1 DEF Queue, Live, OneToken, Resets, Sockets
  <2>2. ASSUME NEW e \in FunctorRecords,
               pending' = Append(pending, e), e.op \in {"stopInLoop", "forceClose"},
               e.op = "forceClose" => e.fd = connection /\ connection # None
        PROVE  /\ \A op : op \notin {"stopInLoop", "forceClose"} => (Has(Queue', op) <=> Has(Queue, op))
               /\ \A fd : HasFd(Queue', "connectDestroyed", fd) <=>
                            HasFd(Queue, "connectDestroyed", fd)
               /\ Once(Queue', "startInLoop") /\ Once(Queue', "resetChannel")
               /\ OnceFd(Queue', "connectDestroyed") /\ Closes(Queue', connection)
    <3>1. Queue \in Seq(FunctorRecords) /\ Queue' = Append(Queue, e)
      BY <2>2, QueuePush
    <3>2. Closes(Queue', connection)
      <4>1. CASE e.op = "stopInLoop"
        BY <4>1, <3>1, ClosesPush DEF Live
      <4>2. CASE e.op = "forceClose"
        <5>1. connection \in Fds
          BY <2>2, <4>2 DEF Typed, TypeOK
        <5> QED
          BY <5>1, <4>2, <2>2, <3>1, ClosesForce DEF Live
      <4> QED
        BY <2>2, <4>1, <4>2
    <3>3. /\ Once(Queue, "startInLoop") /\ Once(Queue, "resetChannel")
          /\ OnceFd(Queue, "connectDestroyed")
      BY DEF Live, OneToken, Resets, Sockets
    <3> QED
      BY <2>2, <3>1, <3>2, <3>3, Pushed
  <2> QED
    BY <2>1, <2>2
<1>2. /\ Has(Queue', "startInLoop") <=> Has(Queue, "startInLoop")
      /\ Has(Queue', "resetChannel") <=> Has(Queue, "resetChannel")
  BY <1>1
<1>3. Fresh(Queue)' <=> Fresh(Queue)
  BY <1>2 DEF Fresh
<1>4. Phases'
  BY DEF Live, Phases
<1>5. OneToken(Queue)' /\ States(Queue)'
  BY <1>1, <1>2, <1>3 DEF Live, OneToken, States
<1>6. Resets(Queue)'
  BY <1>1, <1>2, <1>3 DEF Live, Resets
<1>7. Sockets(Queue)' /\ Closes(Queue', connection')
  BY <1>1 DEF Live, Sockets
<1> QED
  BY <1>4, <1>5, <1>6, <1>7 DEF Live

\* The functors that the user's calls queue.
LEMMA UserFunctors ==
  /\ \A op \in {"startInLoop", "stopInLoop"} :
       Functor(op, None) \in FunctorRecords /\ Functor(op, None).op = op
  /\ \A fd \in Fds : /\ Functor("forceClose", fd) \in FunctorRecords
                     /\ Functor("forceClose", fd).op = "forceClose"
                     /\ Functor("forceClose", fd).fd = fd
  BY DEF Functor, FunctorRecords, FunctorOps

\* Calls other than connect() do not count as connects.
LEMMA OtherCalls ==
  ASSUME Typed, NEW op \in Ops, Called(op)
  PROVE  /\ calls' \in [Ops -> Nat]
         /\ op # "connect" => calls'["connect"] = calls["connect"]
         /\ op = "connect" => calls'["connect"] # 0
  BY DEF Typed, Called, Ops

\* stop(), forceClose() and disconnect().
LEMMA UserCallIInv ==
  ASSUME ClientIInv, StopCallInLoop \/ ForceClose \/ Disconnect
  PROVE  ClientIInv'
<1>1. /\ failed = "none" /\ Typed /\ Live(Queue)
  BY DEF StopCallInLoop, ForceClose, Disconnect, MayCall, ClientIInv
<1>2. /\ calls' \in [Ops -> Nat] /\ calls'["connect"] = calls["connect"]
  BY <1>1, OtherCalls DEF StopCallInLoop, ForceClose, Disconnect, Ops
<1>3. /\ UNCHANGED <<conVars, connection, life, batch, phase, active, restarting, other, failed>>
      /\ stopped' \in {stopped, "called"}
  BY DEF StopCallInLoop, ForceClose, Disconnect, loopVars
<1>4. connect' \in BOOLEAN /\ clientConnect' \in BOOLEAN
  <2>1. connect \in BOOLEAN /\ clientConnect \in BOOLEAN
    BY <1>1 DEF Typed, TypeOK
  <2> QED
    BY <2>1, Zenon DEF StopCallInLoop, ForceClose, Disconnect
<1>5. \/ pending' = pending
      \/ \E e \in FunctorRecords :
           /\ pending' = Append(pending, e) /\ e.op \in {"stopInLoop", "forceClose"}
           /\ e.op = "forceClose" => e.fd = connection /\ connection # None
  <2>1. CASE StopCallInLoop
    BY <2>1, UserFunctors DEF StopCallInLoop
  <2>2. CASE ForceClose
    <3>1. connection \in Fds /\ connection # None
      BY <1>1, <2>2 DEF Typed, TypeOK, ForceClose
    <3> QED
      BY <3>1, <2>2, UserFunctors DEF ForceClose
  <2>3. CASE Disconnect
    BY <2>3 DEF Disconnect, loopVars
  <2> QED
    BY <2>1, <2>2, <2>3
<1>6. Live(Queue)'
  BY <1>1, <1>2, <1>3, <1>5, QuietStep DEF conVars
<1>7. pending' \in Seq(FunctorRecords)
  <2>1. pending \in Seq(FunctorRecords)
    BY <1>1 DEF Typed
  <2>2. ASSUME NEW e \in FunctorRecords, pending' = Append(pending, e)
        PROVE  pending' \in Seq(FunctorRecords)
    BY <2>1, <2>2, AppendProperties
  <2> QED
    BY <1>5, <2>1, <2>2
<1>8. Typed'
  BY <1>1, <1>2, <1>3, <1>4, <1>7 DEF Typed, TypeOK, conVars
<1> QED
  BY <1>1, <1>3, <1>6, <1>8 DEF ClientIInv, AttemptAssertsHold

\* ~TcpClient and the timer that holds the connector.
LEMMA EndIInv ==
  ASSUME ClientIInv, Destroy \/ ReleaseConnector
  PROVE  ClientIInv'
<1>1. failed = "none" /\ Typed /\ Live(Queue)
  BY DEF Destroy, ReleaseConnector, LoopRuns, MayCall, ClientIInv
<1>2. calls' \in [Ops -> Nat] /\ calls'["connect"] = calls["connect"]
  <2>1. CASE Destroy
    BY <1>1, <2>1, OtherCalls DEF Destroy, Ops
  <2>2. CASE ReleaseConnector
    BY <1>1, <2>2 DEF ReleaseConnector, userVars, Typed
  <2> QED
    BY <2>1, <2>2
<1>3. /\ UNCHANGED <<clientConnect, conVars, connection, batch, phase, active, restarting, other,
                     stopped>>
      /\ life' \in {"held", "gone"} /\ failed' \in {"none", "dtor"}
  BY <1>1 DEF Destroy, ReleaseConnector, loopVars, userVars
<1>4. connect' \in BOOLEAN
  <2>1. connect \in BOOLEAN
    BY <1>1 DEF Typed, TypeOK
  <2> QED
    BY <2>1, Zenon DEF Destroy, ReleaseConnector
<1>5. \/ pending' = pending
      \/ \E e \in FunctorRecords :
           /\ pending' = Append(pending, e) /\ e.op \in {"stopInLoop", "forceClose"}
           /\ e.op = "forceClose" => e.fd = connection /\ connection # None
  <2>1. CASE Destroy /\ connection # None
    <3>1. connection \in Fds
      BY <1>1, <2>1 DEF Typed, TypeOK
    <3>2. pending' = pending \/ pending' = Append(pending, Functor("forceClose", connection))
      BY <2>1 DEF Destroy
    <3> QED
      BY <3>1, <3>2, <2>1, UserFunctors
  <2>2. CASE Destroy /\ connection = None
    BY <2>2, UserFunctors DEF Destroy
  <2>3. CASE ReleaseConnector
    BY <2>3 DEF ReleaseConnector, loopVars
  <2> QED
    BY <2>1, <2>2, <2>3
<1>6. Live(Queue)'
  BY <1>1, <1>2, <1>3, <1>5, QuietStep DEF conVars
<1>7. pending' \in Seq(FunctorRecords)
  <2>1. pending \in Seq(FunctorRecords)
    BY <1>1 DEF Typed
  <2>2. ASSUME NEW e \in FunctorRecords, pending' = Append(pending, e)
        PROVE  pending' \in Seq(FunctorRecords)
    BY <2>1, <2>2, AppendProperties
  <2> QED
    BY <1>5, <2>1, <2>2
<1>8. Typed'
  BY <1>1, <1>2, <1>3, <1>4, <1>7 DEF Typed, TypeOK, conVars
<1> QED
  BY <1>3, <1>6, <1>8 DEF ClientIInv, AttemptAssertsHold

\* connect() and stop() of the other thread, access by access.
LEMMA OtherIInv ==
  ASSUME ClientIInv, Connects \in 0..1, NEW op \in {"connect", "stop"},
         BeginOther(op) \/ SetConnect(op) \/ QueueOther(op)
  PROVE  ClientIInv'
<1>1. failed = "none" /\ Typed /\ Live(Queue)
  BY DEF BeginOther, SetConnect, QueueOther, MayCall, ClientIInv
<1>2. /\ connect \in BOOLEAN /\ clientConnect \in BOOLEAN /\ calls \in [Ops -> Nat]
      /\ pending \in Seq(FunctorRecords) /\ op \in Ops /\ "connect" \in Ops
  BY <1>1 DEF Typed, TypeOK, Ops
<1>3. /\ UNCHANGED <<conVars, connection, life, batch, phase, active, restarting, failed>>
      /\ stopped' \in {stopped, "no", "lost", "called"}
      /\ connect' \in BOOLEAN /\ clientConnect' \in BOOLEAN
  BY <1>2 DEF BeginOther, SetConnect, QueueOther, loopVars
<1>4. CASE BeginOther(op)
  <2>1. /\ calls' \in [Ops -> Nat] /\ other = "idle" /\ other' = op /\ pending' = pending
        /\ op # "connect" => calls'["connect"] = calls["connect"]
        /\ op = "connect" => calls'["connect"] # 0
    BY <1>1, <1>2, <1>4, OtherCalls DEF BeginOther, loopVars
  <2>2. Typed'
    BY <1>1, <1>3, <2>1 DEF Typed, TypeOK, conVars
  <2>3. Live(Queue)'
    <3>1. CASE op = "stop"
      BY <1>1, <1>3, <2>1, <3>1, QuietStep DEF conVars
    <3>2. CASE op = "connect"
      <4>1. calls["connect"] = 0
        BY <1>2, <1>4, <3>2 DEF BeginOther, MayCall, Limit
      <4>2. Fresh(Queue) /\ ~Has(Queue, "startInLoop")
        BY <1>1, <4>1 DEF Fresh, Live, OneToken
      <4>3. Queue' = Queue /\ Fresh(Queue)'
        BY <1>3, <2>1, <3>2 DEF Queue, Fresh
      <4>4. Phases' /\ States(Queue)' /\ Resets(Queue)' /\ Sockets(Queue)' /\ Closes(Queue', connection')
        BY <1>1, <1>3, <4>2, <4>3 DEF Live, Phases, States, Resets, Sockets, conVars
      <4>5. OneToken(Queue)'
        BY <1>1, <1>3, <2>1, <3>2, <4>2, <4>3 DEF Live, OneToken, conVars
      <4> QED
        BY <4>4, <4>5 DEF Live
    <3> QED
      BY <3>1, <3>2
  <2> QED
    BY <1>1, <1>3, <2>2, <2>3 DEF ClientIInv, AttemptAssertsHold
<1>5. CASE SetConnect(op)
  <2>1. other = op /\ other' = InLoopOf(op) /\ UNCHANGED <<calls, pending>>
    BY <1>5 DEF SetConnect, loopVars
  <2>2. Live(Queue)'
    BY <1>1, <1>3, <2>1, QuietStep DEF conVars, InLoopOf
  <2>3. Typed'
    BY <1>1, <1>3, <2>1 DEF Typed, TypeOK, conVars, InLoopOf
  <2> QED
    BY <1>1, <1>3, <2>2, <2>3 DEF ClientIInv, AttemptAssertsHold
<1>6. CASE QueueOther(op)
  <2> DEFINE e == Functor(InLoopOf(op), None)
  <2>1. /\ other = InLoopOf(op) /\ other' = "idle" /\ UNCHANGED calls
        /\ pending' = Append(pending, e)
    BY <1>6 DEF QueueOther
  <2>2. e \in FunctorRecords /\ e.op = InLoopOf(op)
    BY UserFunctors DEF InLoopOf
  <2> HIDE DEF e
  <2>3. pending' \in Seq(FunctorRecords)
    BY <1>2, <2>1, <2>2, AppendProperties
  <2>4. Typed'
    BY <1>1, <1>3, <2>1, <2>3 DEF Typed, TypeOK, conVars
  <2>5. Live(Queue)'
    <3>1. CASE op = "stop"
      BY <1>1, <1>3, <2>1, <2>2, <3>1, QuietStep DEF conVars, InLoopOf
    <3>2. CASE op = "connect"
      <4>1. other = "startInLoop" /\ e.op = "startInLoop"
        BY <2>1, <2>2, <3>2 DEF InLoopOf
      <4>2. Fresh(Queue) /\ ~Has(Queue, "startInLoop") /\ calls["connect"] # 0
        BY <1>1, <4>1 DEF Fresh, Live, OneToken
      <4>3. Queue \in Seq(FunctorRecords) /\ Queue' = Append(Queue, e)
        BY <1>1, <1>3, <2>1, <2>2, QueuePush
      <4>4. /\ Has(Queue', "startInLoop") /\ Once(Queue', "startInLoop")
            /\ Has(Queue', "resetChannel") <=> Has(Queue, "resetChannel")
            /\ Once(Queue', "resetChannel") /\ OnceFd(Queue', "connectDestroyed")
            /\ \A fd : HasFd(Queue', "connectDestroyed", fd) <=> HasFd(Queue, "connectDestroyed", fd)
        BY <1>1, <2>2, <4>1, <4>2, <4>3, Pushed DEF Live, OneToken, Resets, Sockets
      <4>5. Closes(Queue', connection')
        BY <1>1, <1>3, <2>2, <4>1, <4>3, ClosesPush DEF Live
      <4>6. Fresh(Queue)'
        BY <4>4 DEF Fresh
      <4>7. Phases' /\ States(Queue)'
        BY <1>1, <1>3, <4>2, <4>6 DEF Live, Phases, States, conVars
      <4>8. OneToken(Queue)'
        BY <1>1, <1>3, <2>1, <4>2, <4>4, <4>6 DEF Live, OneToken, conVars
      <4>9. Resets(Queue)'
        BY <1>1, <1>3, <4>2, <4>4, <4>6 DEF Live, Resets, conVars
      <4>10. Sockets(Queue)'
        BY <1>1, <1>3, <4>4 DEF Live, Sockets, conVars
      <4> QED
        BY <4>5, <4>7, <4>8, <4>9, <4>10 DEF Live
    <3> QED
      BY <3>1, <3>2
  <2> QED
    BY <1>1, <1>3, <2>4, <2>5 DEF ClientIInv, AttemptAssertsHold
<1> QED
  BY <1>4, <1>5, <1>6

-----------------------------------------------------------------------------
(* The theorems *)

\* A new client satisfies the invariant.
LEMMA InitClientIInv == Init => ClientIInv
<1> SUFFICES ASSUME Init PROVE ClientIInv
  OBVIOUS
<1> USE ClientConstants DEF Init
<1>1. <<>> \in Seq(FunctorRecords) /\ <<>> \o <<>> = <<>>
  OBVIOUS
<1>2. Queue = <<>> /\ pending \in Seq(FunctorRecords) /\ batch \in Seq(FunctorRecords)
  BY <1>1 DEF Queue
<1>3. TypeOK
  <2>1. /\ clientConnect \in BOOLEAN /\ connect \in BOOLEAN /\ registered \in BOOLEAN
        /\ restarting \in BOOLEAN /\ gaveUp \in BOOLEAN
    BY Zenon
  <2>2. delay \in kInitRetryDelayMs..kMaxRetryDelayMs
    OBVIOUS
  <2> QED
    BY <2>1, <2>2 DEF TypeOK
<1>4. /\ ~registered /\ ~restarting /\ active.timer = 0 /\ ~active.connector /\ ~active.conn
      /\ active \in [timer : Nat, connector : BOOLEAN, conn : BOOLEAN]
  BY DEF Nothing
<1>5. /\ calls \in [Ops -> Nat] /\ calls["connect"] = 0
  BY DEF Ops
<1>6. Typed
  BY <1>2, <1>3, <1>4, <1>5 DEF Typed
<1>7. /\ \A op : ~Has(<<>>, op) /\ Once(<<>>, op) /\ OnceFd(<<>>, op)
      /\ \A op, fd : ~HasFd(<<>>, op, fd)
      /\ Closes(<<>>, None)
  BY DEF Has, HasFd, Once, OnceFd, Closes
<1>8. Live(Queue)
  BY <1>2, <1>4, <1>5, <1>7
  DEF Live, Phases, OneToken, States, Resets, Sockets, Fresh
<1> QED
  BY <1>6, <1>8 DEF ClientIInv, AttemptAssertsHold

\* The invariant of a client that is connected once at most is inductive.
LEMMA NextClientIInv ==
  ASSUME Connects \in 0..1, ClientIInv, [Next]_vars
  PROVE  ClientIInv'
<1>1. CASE Poll
  BY <1>1, PollIInv
<1>2. CASE TimerEvent
  BY <1>2, TimerIInv
<1>3. CASE ConnectorEvent
  BY <1>3, ConnectorIInv
<1>4. CASE CloseEvent
  BY <1>4, CloseIInv
<1>5. CASE Destroy \/ ReleaseConnector
  BY <1>5, EndIInv
<1>6. CASE BeginFunctors \/ EndFunctors
  BY <1>6, FunctorsIInv
<1>7. CASE Restart
  BY <1>7, RestartIInv
<1>8. CASE RunConnectorFunctor
  BY <1>8, RunConnectorIInv
<1>9. CASE RunForceClose
  BY <1>9, ForceCloseRunIInv
<1>10. CASE RunConnectDestroyed
  BY <1>10, DestroyedIInv
<1>11. CASE ConnectInLoop
  BY <1>11, ConnectIInv
<1>12. CASE StopCallInLoop \/ ForceClose \/ Disconnect
  BY <1>12, UserCallIInv
<1>13. ASSUME NEW op \in {"connect", "stop"}, BeginOther(op) \/ SetConnect(op) \/ QueueOther(op)
       PROVE  ClientIInv'
  BY <1>13, OtherIInv
<1>14. CASE UNCHANGED vars
  <2>1. Queue' = Queue
    BY <1>14 DEF vars, loopVars, Queue
  <2>2. Typed' /\ AttemptAssertsHold'
    BY <1>14 DEF ClientIInv, Typed, TypeOK, AttemptAssertsHold, vars, conVars, loopVars, userVars
  <2>3. Live(Queue)' <=> Live(Queue)
    BY <1>14, <2>1
    DEF Live, Phases, OneToken, States, Resets, Sockets, Fresh, vars, conVars, loopVars, userVars
  <2> QED
    BY <1>14, <2>2, <2>3 DEF ClientIInv, vars
<1> QED
  BY <1>1, <1>2, <1>3, <1>4, <1>5, <1>6, <1>7, <1>8, <1>9, <1>10, <1>11, <1>12, <1>13, <1>14
  DEF Next, LoopStep, OtherStep, UserStep

\* The invariant says who owns the open sockets.
LEMMA SocketsAreOwned ==
  ASSUME Typed, Live(Queue)
  PROVE  open = Owned
<1>1. /\ pending \in Seq(FunctorRecords) /\ batch \in Seq(FunctorRecords) /\ open \subseteq Fds
      /\ connection \in Fds \cup {None} /\ channel \in Fds \cup {None}
  BY DEF Typed, TypeOK
<1>2. ASSUME NEW fd
      PROVE  HasFd(Queue, "connectDestroyed", fd) <=>
               fd \in {f.fd : f \in {q \in Queued : q.op = "connectDestroyed"}}
  <2>1. /\ DOMAIN Queue = 1..Len(batch) + Len(pending)
        /\ DOMAIN batch = 1..Len(batch) /\ DOMAIN pending = 1..Len(pending)
        /\ Len(batch) \in Nat /\ Len(pending) \in Nat
        /\ \A i \in 1..Len(batch) + Len(pending) :
             Queue[i] = IF i <= Len(batch) THEN batch[i] ELSE pending[i - Len(batch)]
    BY <1>1, ConcatProperties DEF Queue
  <2>2. ASSUME NEW i \in DOMAIN Queue PROVE Queue[i] \in Queued
    <3>1. CASE i <= Len(batch)
      BY <2>1, <3>1 DEF Queued
    <3>2. CASE ~(i <= Len(batch))
      <4>1. i - Len(batch) \in DOMAIN pending /\ Queue[i] = pending[i - Len(batch)]
        BY <2>1, <3>2
      <4> QED
        BY <4>1 DEF Queued
    <3> QED
      BY <3>1, <3>2
  <2>3. ASSUME NEW q \in Queued PROVE \E i \in DOMAIN Queue : Queue[i] = q
    <3>1. CASE \E i \in DOMAIN batch : q = batch[i]
      <4>1. PICK i \in DOMAIN batch : q = batch[i]
        BY <3>1
      <4>2. i \in DOMAIN Queue /\ Queue[i] = batch[i]
        BY <2>1
      <4> QED
        BY <4>1, <4>2
    <3>2. CASE \E i \in DOMAIN pending : q = pending[i]
      <4>1. PICK i \in DOMAIN pending : q = pending[i]
        BY <3>2
      <4>2. i + Len(batch) \in DOMAIN Queue /\ Queue[i + Len(batch)] = pending[i]
        BY <2>1
      <4> QED
        BY <4>1, <4>2
    <3> QED
      BY <3>1, <3>2 DEF Queued
  <2> QED
    BY <2>2, <2>3 DEF HasFd
<1>3. \A fd : HasFd(Queue, "connectDestroyed", fd) => fd \in Fds
  BY DEF Live, Closes, HasFd
<1>4. ASSUME NEW fd PROVE fd \in open <=> fd \in Owned
  <2>1. registered => channel \in Fds
    BY <1>1 DEF Live, States
  <2>2. fd \in Owned <=> \/ registered /\ fd = channel
                         \/ fd = connection /\ fd # None
                         \/ HasFd(Queue, "connectDestroyed", fd)
    BY <1>2 DEF Owned
  <2>3. CASE fd \in Fds
    BY <2>2, <2>3, ClientConstants DEF Live, Sockets
  <2>4. CASE fd \notin Fds
    BY <1>1, <1>3, <2>1, <2>2, <2>4
  <2> QED
    BY <2>3, <2>4
<1> QED
  BY <1>4

\* Whichever of error, retry, stop, close and destruction comes first, a client
\* that is connected once at most leaks no socket, closes none under its owner,
\* and meets no assert of startInLoop or connecting.
THEOREM ClientCorrect ==
  ASSUME Connects \in 0..1
  PROVE  Spec => []ClientInv
<1>1. ClientIInv => ClientInv
  BY SocketsAreOwned DEF ClientIInv, ClientInv, SocketsOwned, Typed
<1>2. ClientIInv /\ [Next]_vars => ClientIInv'
  BY NextClientIInv
<1> QED
  BY <1>1, <1>2, InitClientIInv, PTL DEF Spec

\* It has one attempt or connection at a time.
THEOREM OneAttemptAtATime ==
  ASSUME Connects \in 0..1
  PROVE  Spec => []OneAttempt
<1>1. ClientIInv => OneAttempt
  <2> SUFFICES ASSUME ClientIInv, failed = "none"
               PROVE  LET queued == {i \in DOMAIN pending : pending[i].op = "startInLoop"}
                          running == {i \in DOMAIN batch : batch[i].op = "startInLoop"}
                      IN Cardinality(queued) + Cardinality(running) + timers
                           + (IF registered THEN 1 ELSE 0)
                           + (IF connection # None THEN 1 ELSE 0) <= 1
    BY DEF OneAttempt
  <2> DEFINE queued == {i \in DOMAIN pending : pending[i].op = "startInLoop"}
             running == {i \in DOMAIN batch : batch[i].op = "startInLoop"}
  <2>1. Typed /\ Live(Queue) /\ timers \in Nat
    BY DEF ClientIInv, Typed, TypeOK
  <2>2. /\ DOMAIN Queue = 1..Len(batch) + Len(pending)
        /\ DOMAIN batch = 1..Len(batch) /\ DOMAIN pending = 1..Len(pending)
        /\ Len(batch) \in Nat /\ Len(pending) \in Nat
        /\ \A i \in 1..Len(batch) + Len(pending) :
             Queue[i] = IF i <= Len(batch) THEN batch[i] ELSE pending[i - Len(batch)]
    BY <2>1, ConcatProperties DEF Queue, Typed
  <2>3. \A i \in DOMAIN batch : i \in DOMAIN Queue /\ Queue[i] = batch[i]
    BY <2>2
  <2>4. \A i \in DOMAIN pending : /\ i + Len(batch) \in DOMAIN Queue
                                  /\ Queue[i + Len(batch)] = pending[i]
    BY <2>2
  <2>5. \A i, j \in DOMAIN Queue :
          Queue[i].op = "startInLoop" /\ Queue[j].op = "startInLoop" => i = j
    BY <2>1 DEF Live, OneToken, Once
  <2>6. \A i, j \in queued : i = j
    <3>1. \A i, j \in queued : i + Len(batch) = j + Len(batch)
      BY <2>4, <2>5
    <3> QED
      BY <2>2, <3>1
  <2>7. \A i, j \in running : i = j
    BY <2>3, <2>5
  <2>8. queued = {} \/ running = {}
    <3>1. SUFFICES ASSUME NEW i \in queued, NEW j \in running PROVE FALSE
      OBVIOUS
    <3>2. i + Len(batch) = j
      BY <2>3, <2>4, <2>5
    <3> QED
      BY <2>2, <3>2
  <2>9. queued # {} \/ running # {} => Has(Queue, "startInLoop")
    BY <2>3, <2>4 DEF Has
  <2>10. /\ queued # {} => timers = 0 /\ ~registered /\ connection = None
         /\ running # {} => timers = 0 /\ ~registered /\ connection = None
    BY <2>1, <2>9 DEF Live, OneToken, Fresh
  <2>11. /\ timers <= 1 /\ (timers # 0 => ~registered /\ connection = None)
         /\ registered => connection = None
    BY <2>1 DEF Live, OneToken
  <2>12. \A S : S = {} => Cardinality(S) = 0
    BY FS_EmptySet
  <2> HIDE DEF queued, running
  <2>13. ASSUME NEW S, \A i, j \in S : i = j, S # {} PROVE Cardinality(S) = 1
    <3>1. PICK x : S = {x}
      BY <2>13
    <3> QED
      BY <3>1, FS_Singleton
  <2>14. Cardinality(queued) \in {0, 1} /\ (Cardinality(queued) = 1 => queued # {})
    BY <2>6, <2>12, <2>13
  <2>15. Cardinality(running) \in {0, 1} /\ (Cardinality(running) = 1 => running # {})
    BY <2>7, <2>12, <2>13
  <2>16. Cardinality(queued) + Cardinality(running) + timers
           + (IF registered THEN 1 ELSE 0) + (IF connection # None THEN 1 ELSE 0) <= 1
    BY <2>1, <2>8, <2>10, <2>11, <2>14, <2>15
  <2> QED
    BY <2>16 DEF queued, running
<1>2. ClientIInv /\ [Next]_vars => ClientIInv'
  BY NextClientIInv
<1> QED
  BY <1>1, <1>2, InitClientIInv, PTL DEF Spec

=============================================================================
