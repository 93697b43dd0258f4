------------------------ MODULE TcpConnectionProofs ------------------------
(***************************************************************************)
(* Proofs about one connection: the output side (OutputInv, StreamIntact), *)
(* the down callback (DownOnce) and the asserts a use of the connection    *)
(* can run into (AssertsHold), for any set of threads and uses, any        *)
(* message lengths, any number of sends and any high water mark.           *)
(*                                                                         *)
(* None of these is inductive.  ConnIInv adds what the code keeps between  *)
(* two steps: connectEstablished is the first functor and nothing happens  *)
(* before it, every down is counted with the state or with an undone one,  *)
(* and what is left to do for a connection that is out of the map.         *)
(***************************************************************************)
EXTENDS TcpConnection, SequenceTheorems, TLAPS

-----------------------------------------------------------------------------
(* The queue of functors *)

\* Functors without and with bytes; a send always carries some.
Functor == [op : Ops \ {"send"}] \cup [op : Ops, data : Seq(Nat)]

Has(q, name) == \E i \in DOMAIN q : q[i].op = name

OnlyDestroyed(q) == \A i \in DOMAIN q : q[i].op = "destroyed"

-----------------------------------------------------------------------------
(* What the steps do to the queue and to the streams of bytes *)

USE DEF kConnecting, kConnected, kDisconnecting, kDisconnected, kNew, kAdded, kDeleted

LEMMA HasEmpty ==
  ASSUME NEW n PROVE ~Has(<<>>, n)
BY DEF Has

LEMMA PlainFunctor ==
  ASSUME NEW n \in Ops \ {"send"}
  PROVE  [op |-> n] \in Functor
BY DEF Functor

\* A functor put at the end.
LEMMA AppendHas ==
  ASSUME NEW q \in Seq(Functor), NEW f \in Functor
  PROVE  /\ Append(q, f) \in Seq(Functor)
         /\ \A n : Has(Append(q, f), n) <=> Has(q, n) \/ f.op = n
<1>1. Append(q, f) \in Seq(Functor)
  OBVIOUS
<1>2. ASSUME NEW n, Has(Append(q, f), n) PROVE Has(q, n) \/ f.op = n
  BY <1>2 DEF Has
<1>3. ASSUME NEW n, Has(q, n) PROVE Has(Append(q, f), n)
  <2>1. PICK i \in DOMAIN q : q[i].op = n
    BY <1>3 DEF Has
  <2>2. i \in DOMAIN Append(q, f) /\ Append(q, f)[i] = q[i]
    OBVIOUS
  <2> QED BY <2>1, <2>2 DEF Has
<1>4. ASSUME NEW n, f.op = n PROVE Has(Append(q, f), n)
  <2>1. Len(q) + 1 \in DOMAIN Append(q, f) /\ Append(q, f)[Len(q) + 1] = f
    OBVIOUS
  <2> QED BY <1>4, <2>1 DEF Has
<1> QED BY <1>1, <1>2, <1>3, <1>4

\* The first functor taken out.
LEMMA TailHas ==
  ASSUME NEW q \in Seq(Functor), q # <<>>
  PROVE  /\ Head(q) \in Functor /\ Tail(q) \in Seq(Functor)
         /\ \A n : Has(q, n) <=> Head(q).op = n \/ Has(Tail(q), n)
<1>1. Head(q) \in Functor /\ Tail(q) \in Seq(Functor)
  OBVIOUS
<1>2. ASSUME NEW n, Has(q, n) PROVE Head(q).op = n \/ Has(Tail(q), n)
  <2>1. PICK i \in DOMAIN q : q[i].op = n
    BY <1>2 DEF Has
  <2>2. CASE i = 1
    BY <2>1, <2>2
  <2>3. CASE i # 1
    <3>1. i - 1 \in DOMAIN Tail(q) /\ Tail(q)[i - 1] = q[i]
      BY <2>3
    <3> QED BY <2>1, <3>1 DEF Has
  <2> QED BY <2>2, <2>3
<1>3. ASSUME NEW n, Head(q).op = n PROVE Has(q, n)
  <2>1. 1 \in DOMAIN q /\ q[1] = Head(q)
    OBVIOUS
  <2> QED BY <1>3, <2>1 DEF Has
<1>4. ASSUME NEW n, Has(Tail(q), n) PROVE Has(q, n)
  <2>1. PICK i \in DOMAIN Tail(q) : Tail(q)[i].op = n
    BY <1>4 DEF Has
  <2>2. i + 1 \in DOMAIN q /\ q[i + 1] = Tail(q)[i]
    OBVIOUS
  <2> QED BY <2>1, <2>2 DEF Has
<1> QED BY <1>1, <1>2, <1>3, <1>4

\* Before connectEstablished only connectDestroyed joins it in the queue.
LEMMA WaitingAppend ==
  ASSUME NEW q \in Seq(Functor), q # <<>>, OnlyDestroyed(Tail(q)),
         NEW f \in Functor, f.op = "destroyed"
  PROVE  /\ Append(q, f) # <<>> /\ Head(Append(q, f)) = Head(q)
         /\ OnlyDestroyed(Tail(Append(q, f)))
<1>1. Append(q, f) # <<>> /\ Head(Append(q, f)) = Head(q)
  OBVIOUS
<1>2. Tail(Append(q, f)) = Append(Tail(q), f)
  OBVIOUS
<1>3. ASSUME NEW i \in DOMAIN Append(Tail(q), f)
      PROVE Append(Tail(q), f)[i].op = "destroyed"
  <2>1. \/ i \in DOMAIN Tail(q) /\ Append(Tail(q), f)[i] = Tail(q)[i]
        \/ Append(Tail(q), f)[i] = f
    OBVIOUS
  <2> QED BY <2>1 DEF OnlyDestroyed
<1> QED BY <1>1, <1>2, <1>3 DEF OnlyDestroyed

LEMMA OnlyDestroyedHas ==
  ASSUME NEW q, OnlyDestroyed(q), NEW n, n # "destroyed"
  PROVE  ~Has(q, n)
BY DEF OnlyDestroyed, Has

LEMMA MessageType ==
  ASSUME NEW m \in Nat, NEW n \in Nat
  PROVE  Message(m, n) \in Seq(Nat)
BY DEF Message

\* A write that takes the first k bytes of d leaves the others.
LEMMA WriteSplits ==
  ASSUME NEW d \in Seq(Nat), NEW k \in 0..Len(d)
  PROVE  /\ SubSeq(d, 1, k) \in Seq(Nat) /\ SubSeq(d, k + 1, Len(d)) \in Seq(Nat)
         /\ SubSeq(d, 1, k) \o SubSeq(d, k + 1, Len(d)) = d
         /\ SubSeq(d, k + 1, Len(d)) = <<>> <=> k = Len(d)
         /\ k = 0 => SubSeq(d, 1, k) = <<>> /\ SubSeq(d, k + 1, Len(d)) = d
<1> DEFINE a == SubSeq(d, 1, k)
           b == SubSeq(d, k + 1, Len(d))
<1>1. a \in Seq(Nat) /\ b \in Seq(Nat)
  OBVIOUS
<1>2. Len(a) = k /\ Len(b) = Len(d) - k
  OBVIOUS
<1>3. a \o b = d
  <2>1. 1 \in 1..(Len(d) + 1) /\ k \in (1 - 1)..Len(d) /\ Len(d) \in k..Len(d)
    OBVIOUS
  <2>2. a \o b = SubSeq(d, 1, Len(d))
    BY <2>1, ConcatAdjacentSubSeq, Zenon
  <2> QED BY <2>2, SubSeqFull
<1>4. k = 0 => a = <<>> /\ b = d
  BY SubSeqEmpty, SubSeqFull
<1>5. b = <<>> <=> k = Len(d)
  <2> HIDE DEF a, b
  <2> QED BY <1>1, <1>2, SMTT(40)
<1> QED BY <1>1, <1>3, <1>4, <1>5

LEMMA ConcatAssoc ==
  ASSUME NEW u \in Seq(Nat), NEW v \in Seq(Nat), NEW w \in Seq(Nat)
  PROVE  (u \o v) \o w = u \o (v \o w)
BY ConcatAssociative, SMTT(40)

\* What was written followed by what is left is what there was.
LEMMA WriteThrough ==
  ASSUME NEW w \in Seq(Nat), NEW d \in Seq(Nat), NEW k \in 0..Len(d)
  PROVE  (w \o SubSeq(d, 1, k)) \o SubSeq(d, k + 1, Len(d)) = w \o d
<1> DEFINE x == SubSeq(d, 1, k)
           y == SubSeq(d, k + 1, Len(d))
<1>1. x \in Seq(Nat) /\ y \in Seq(Nat) /\ x \o y = d
  BY WriteSplits
<1> HIDE DEF x, y
<1>2. (w \o x) \o y = w \o (x \o y)
  BY <1>1, ConcatAssoc, ZenonT(60)
<1> QED BY <1>1, <1>2 DEF x, y

-----------------------------------------------------------------------------
(* The inductive invariant *)

Calls == [call : {"none", "send", "shutdown", "forceClose"},
          at : {"idle", "store", "push", "done"}, msg : Nat]

Types ==
  /\ TypeOK /\ use \in Use
  /\ output \in Seq(Nat) /\ wire \in Seq(Nat) /\ accepted \in Seq(Nat)
  /\ functors \in Seq(Functor) /\ rc \in [Threads -> Calls]

\* Other threads make the calls of the use, and a send stores nothing.
CallsAreUses ==
  /\ \A t \in Threads : rc[t] = NoCall \/
       /\ rc[t].call \in use.remote /\ rc[t].at # "idle"
       /\ rc[t].call = "send" => rc[t].at = "push"
  /\ Has(functors, "send") => "send" \in use.remote
  /\ serverUp \/ (use.dies /\ ~inMap)

\* connectEstablished runs before anything else is done with the connection.
EstablishedFirst ==
  /\ state # kConnecting => ~Has(functors, "established")
  /\ state = kConnecting =>
       /\ functors # <<>> /\ Head(functors).op = "established"
       /\ OnlyDestroyed(Tail(functors))
       /\ events = {} /\ index = kNew /\ output = <<>> /\ ~fin /\ downs = 0
       /\ \A t \in Threads : rc[t] = NoCall

\* The down callbacks that were made, the state and the removals under way.
DownsAndState ==
  /\ state = kConnected => downs = 0
  /\ state = kDisconnected => downs > 0
  /\ removals <= downs /\ (removals > 0 => ~sharedLoop)
  /\ dead => state = kDisconnected

\* Without calls of other threads that close the connection, it goes down once.
LoopClosesOnce ==
  ~RemoteCloses =>
    /\ downs <= 1 /\ (Up => downs = 0)
    /\ serverUp /\ (removals > 0 \/ state # kDisconnected) => inMap

\* A connection whose reading the user leaves alone reads until it goes down,
\* and a channel on the kernel's list is then one of a connection that is up.
ReadsWhileUp == use.reads = {} /\ Up /\ downs = 0 => isReading

OnListIsUp == ~RemoteCloses /\ use.reads = {} /\ index = kAdded => Up

\* After the down callback nobody subscribes the channel again.
QuietWhenDown ==
  /\ "down" \notin use.reads
  /\ RemoteCloses => "send" \notin use.remote /\ use.reads = {}
  => (downs > 0 => events = {})

\* connectDestroyed is queued only for a connection that is down, unless the
\* server ends; a connection out of the map is down or waits for it.
DestroyedIsDown == Has(functors, "destroyed") /\ ~use.dies => downs > 0

OutOfMap ==
  ~(use.dies /\ use.reads # {}) /\ ~inMap => downs > 0 \/ Has(functors, "destroyed")

\* A kDisconnected undone by a forceClose is followed by its forceCloseInLoop.
UndoneIsClosed ==
  "shutdown" \notin use.remote /\ state = kDisconnecting /\ downs > 0 =>
    \/ Has(functors, "forceClose")
    \/ \E t \in Threads : rc[t].call = "forceClose" /\ rc[t].at = "push"

\* A connection out of the map is out of the poller, or something is still to come.
OutOfPoller ==
  /\ "down" \notin use.reads /\ ~(use.dies /\ use.reads # {}) /\ ~inMap
  => \/ Has(functors, "destroyed") \/ removals > 0
     \/ index = kNew \/ state = kDisconnecting

OutputIInv == OutputInv /\ StreamIntact

\* ~TcpServer has cleared the map when an assert of connectDestroyed fails.
AssertsIInv ==
  /\ LoopClosesOnce /\ ReadsWhileUp /\ OnListIsUp /\ QuietWhenDown
  /\ DestroyedIsDown /\ UndoneIsClosed /\ AssertsHold
  /\ failed = "none" => OutOfMap /\ OutOfPoller

ConnIInv ==
  /\ Types /\ CallsAreUses /\ EstablishedFirst /\ DownsAndState
  /\ OutputIInv /\ AssertsIInv

-----------------------------------------------------------------------------
(* Every step keeps it *)

\* A callback that may be queued.
LEMMA CallbackHas ==
  ASSUME NEW q \in Seq(Functor), NEW c, NEW n \in {"complete", "highWater"}
  PROVE  /\ q \o Callback(c, n) \in Seq(Functor)
         /\ \A m : m # n => (Has(q \o Callback(c, n), m) <=> Has(q, m))
<1>1. [op |-> n] \in Functor
  BY PlainFunctor DEF Ops
<1>2. q \o Callback(c, n) = IF c THEN Append(q, [op |-> n]) ELSE q
  BY DEF Callback
<1> QED BY <1>1, <1>2, AppendHas

LEMMA FunctorOps ==
  ASSUME NEW q \in Seq(Functor)
  PROVE  \A i \in DOMAIN q : q[i].op \in Ops
<1>1. \A i \in DOMAIN q : q[i] \in Functor
  OBVIOUS
<1> QED BY <1>1 DEF Functor

LEMMA InitConnIInv ==
  Init => ConnIInv
<1> SUFFICES ASSUME Init PROVE ConnIInv
  OBVIOUS
<1> USE DEF Init, NewConnection, Constructed, GetNextLoop
<1>1. /\ functors \in Seq(Functor) /\ functors # <<>> /\ Tail(functors) = <<>>
      /\ \A n : Has(functors, n) => n = "established"
  <2>1. [op |-> "established"] \in Functor
    BY PlainFunctor DEF Ops
  <2> QED BY <2>1 DEF Has
<1>2. Types
  <2>1. TypeOK
    <3>1. \A i \in DOMAIN functors : functors[i].op \in Ops
      BY <1>1, FunctorOps
    <3>2. sends \in 0..MaxSends
      BY ConnConstants
    <3>3. \A t \in Threads : rc[t].at \in {"idle", "store", "push", "done"}
      BY DEF NoCall
    <3> QED BY <3>1, <3>2, <3>3 DEF TypeOK
  <2>2. rc \in [Threads -> Calls]
    BY DEF Calls, NoCall
  <2> QED BY <1>1, <2>1, <2>2, ConnConstants DEF Types
<1>3. CallsAreUses /\ EstablishedFirst /\ DownsAndState
  BY <1>1 DEF CallsAreUses, EstablishedFirst, OnlyDestroyed, DownsAndState
<1>4. OutputIInv
  BY <1>2 DEF OutputIInv, OutputInv, WritingIffPending, FinAfterData, StreamIntact,
              Types, Up
<1>5. AssertsIInv
  BY <1>1 DEF AssertsIInv, LoopClosesOnce, ReadsWhileUp, OnListIsUp, QuietWhenDown,
              DestroyedIsDown, OutOfMap, UndoneIsClosed, OutOfPoller, AssertsHold, Up
<1> QED BY <1>2, <1>3, <1>4, <1>5 DEF ConnIInv

\* An assert the use is exposed to fails.
LEMMA FailStep ==
  ASSUME ConnIInv, failed = "none", NEW a, Fail(a), Exposed(a)
  PROVE  ConnIInv'
<1> USE DEF ConnIInv, Fail, Abort, chan, sock, srv, setup, hist,
           isWriting, isReading
<1>1. Types'
  <2>1. (\A i \in DOMAIN functors : functors[i].op \in Ops)'
    BY FunctorOps DEF Types
  <2> QED BY <2>1 DEF Types, TypeOK
<1>2. (CallsAreUses /\ EstablishedFirst /\ DownsAndState)'
  <2>1. CallsAreUses'
    BY DEF CallsAreUses
  <2>2. EstablishedFirst'
    BY DEF EstablishedFirst, Up
  <2>3. DownsAndState'
    BY DEF DownsAndState, EstablishedFirst, Types, TypeOK, Up
  <2> QED BY <2>1, <2>2, <2>3
<1>3. OutputIInv'
  BY <1>1 DEF OutputIInv, OutputInv, WritingIffPending, FinAfterData, StreamIntact,
         Types, TypeOK, Up, EstablishedFirst, DownsAndState
<1>4. AssertsIInv'
  <2>1. LoopClosesOnce'
    BY DEF AssertsIInv, LoopClosesOnce, RemoteCloses, Up, DownsAndState
  <2>2. ReadsWhileUp'
    BY DEF AssertsIInv, ReadsWhileUp, Up, DownsAndState
  <2>3. OnListIsUp'
    BY DEF AssertsIInv, OnListIsUp, RemoteCloses, Up
  <2>4. QuietWhenDown'
    BY DEF AssertsIInv, QuietWhenDown, RemoteCloses
  <2>5. DestroyedIsDown'
    BY DEF AssertsIInv, DestroyedIsDown
  <2>6. UndoneIsClosed'
    BY DEF AssertsIInv, UndoneIsClosed
  <2>7. AssertsHold'
    BY DEF AssertsIInv, AssertsHold, Exposed, RemoteCloses
  <2>8. (failed = "none" => OutOfMap)'
    BY DEF AssertsIInv, OutOfMap
  <2>9. (failed = "none" => OutOfPoller)'
    BY DEF AssertsIInv, OutOfPoller
  <2> QED BY <2>1, <2>2, <2>3, <2>4, <2>5, <2>6, <2>7, <2>8, <2>9 DEF AssertsIInv
<1> QED BY <1>1, <1>2, <1>3, <1>4

\* handleClose, called for a connection that is up or whose channel is on the
\* kernel's list, perhaps by the forceCloseInLoop just taken out of the queue.
LEMMA HandleCloseStep ==
  ASSUME ConnIInv, Running, state # kConnecting, Up \/ index = kAdded,
         NEW q \in Seq(Functor), HandleClose(q),
         \A n : n # "forceClose" => (Has(q, n) <=> Has(functors, n))
  PROVE  ConnIInv'
<1> USE DEF ConnIInv, Running
<1>1. CASE ~Up /\ Fail("handleClose")
  <2>1. Exposed("handleClose")
    BY <1>1 DEF AssertsIInv, OnListIsUp, Exposed
  <2> QED BY <1>1, <2>1, FailStep
<1>2. CASE Up /\ ~serverUp /\ Fail("server gone")
  <2>1. Exposed("server gone")
    BY <1>2 DEF CallsAreUses, Exposed
  <2> QED BY <1>2, <2>1, FailStep
<1>3. CASE Up /\ serverUp /\ sharedLoop /\ ~inMap /\ Fail("erase")
  <2>1. Exposed("erase")
    BY <1>3 DEF AssertsIInv, LoopClosesOnce, Up, Exposed
  <2> QED BY <1>3, <2>1, FailStep
<1>4. CASE Up /\ serverUp /\ (sharedLoop => inMap)
  <2>1. /\ state' = kDisconnected /\ events' = {} /\ downs' = downs + 1
        /\ index' = IF index = kAdded THEN kDeleted ELSE kAdded
        /\ sharedLoop => inMap' = FALSE /\ removals' = removals
        /\ ~sharedLoop => inMap' = inMap /\ removals' = removals + 1
        /\ functors' = IF sharedLoop THEN Append(q, [op |-> "destroyed"]) ELSE q
        /\ UNCHANGED <<reading, output, wire, fin, peer, serverUp, sharedLoop, use,
                        delayed, rc, failed, sends, accepted, dropped, dead>>
    BY <1>4 DEF HandleClose, Update, sock, setup, Types, TypeOK
  <2>2. /\ functors' \in Seq(Functor)
        /\ \A n : n # "forceClose" =>
             (Has(functors', n) <=> Has(functors, n) \/ (sharedLoop /\ n = "destroyed"))
    <3>1. [op |-> "destroyed"] \in Functor
      BY PlainFunctor DEF Ops
    <3> QED BY <2>1, <3>1, AppendHas
  <2>3. removals' \in Nat /\ downs' \in Nat /\ inMap' \in BOOLEAN
    <3>1. downs' \in Nat
      BY <2>1 DEF Types, TypeOK
    <3>2. removals' \in Nat
      BY <2>1 DEF Types, TypeOK
    <3>3. inMap' \in BOOLEAN
      BY <2>1, Zenon DEF Types, TypeOK
    <3> QED BY <3>1, <3>2, <3>3
  <2>4. inMap' \/ removals' > 0 \/ Has(functors', "destroyed")
    <3>1. CASE sharedLoop
      BY <2>2, <3>1
    <3>2. CASE ~sharedLoop
      BY <2>1, <3>2 DEF Types, TypeOK
    <3> QED BY <3>1, <3>2
  <2> USE DEF isWriting, isReading
  <2>5. Types'
    <3>1. (\A i \in DOMAIN functors : functors[i].op \in Ops)'
      BY <1>4, <2>1, <2>2, <2>3, <2>4, FunctorOps DEF Types
    <3> QED BY <1>4, <2>1, <2>2, <2>3, <2>4, <3>1 DEF Types, TypeOK
  <2>6. (CallsAreUses /\ EstablishedFirst /\ DownsAndState)'
    <3>1. CallsAreUses'
      BY <1>4, <2>1, <2>2, <2>3, <2>4 DEF CallsAreUses
    <3>2. EstablishedFirst'
      BY <1>4, <2>1, <2>2, <2>3, <2>4 DEF EstablishedFirst, Up
    <3>3. DownsAndState'
      BY <1>4, <2>1, <2>2, <2>3, <2>4 DEF DownsAndState, EstablishedFirst, Types, TypeOK, Up
    <3> QED BY <3>1, <3>2, <3>3
  <2>7. OutputIInv'
    BY <1>4, <2>1, <2>2, <2>3, <2>4, <2>5 DEF OutputIInv, OutputInv, WritingIffPending,
       FinAfterData, StreamIntact,
           Types, TypeOK, Up, EstablishedFirst, DownsAndState
  <2>8. AssertsIInv'
    <3>1. LoopClosesOnce'
      BY <1>4, <2>1, <2>2, <2>3, <2>4 DEF AssertsIInv, LoopClosesOnce, RemoteCloses, Up,
         DownsAndState
    <3>2. ReadsWhileUp'
      BY <1>4, <2>1, <2>2, <2>3, <2>4 DEF AssertsIInv, ReadsWhileUp, Up, DownsAndState
    <3>3. OnListIsUp'
      BY <1>4, <2>1, <2>2, <2>3, <2>4 DEF Types, TypeOK, Up, EstablishedFirst,
         DownsAndState, RemoteCloses, AssertsIInv, OnListIsUp, ReadsWhileUp,
         LoopClosesOnce
    <3>4. QuietWhenDown'
      BY <1>4, <2>1, <2>2, <2>3, <2>4 DEF AssertsIInv, QuietWhenDown, RemoteCloses
    <3>5. DestroyedIsDown'
      BY <1>4, <2>1, <2>2, <2>3, <2>4 DEF Types, TypeOK, Up, EstablishedFirst,
         DownsAndState, RemoteCloses, AssertsIInv, DestroyedIsDown
    <3>6. UndoneIsClosed'
      BY <1>4, <2>1, <2>2, <2>3, <2>4 DEF AssertsIInv, UndoneIsClosed
    <3>7. AssertsHold'
      BY <1>4, <2>1, <2>2, <2>3, <2>4 DEF AssertsIInv, AssertsHold, Exposed,
         RemoteCloses
    <3>8. (failed = "none" => OutOfMap)'
      BY <1>4, <2>1, <2>2, <2>3, <2>4 DEF Types, TypeOK, Up, EstablishedFirst,
         DownsAndState, RemoteCloses, AssertsIInv, OutOfMap, DestroyedIsDown,
         ReadsWhileUp
    <3>9. (failed = "none" => OutOfPoller)'
      BY <1>4, <2>1, <2>2, <2>3, <2>4 DEF AssertsIInv, OutOfPoller
    <3> QED BY <3>1, <3>2, <3>3, <3>4, <3>5, <3>6, <3>7, <3>8, <3>9 DEF AssertsIInv
  <2> QED BY <2>5, <2>6, <2>7, <2>8
<1> QED BY <1>1, <1>2, <1>3, <1>4 DEF HandleClose, Types, TypeOK

\* connectDestroyed, run as a functor or by ~TcpServer (which clears the map).
LEMMA ConnectDestroyedStep ==
  ASSUME ConnIInv, Running, state # kConnecting,
         NEW q \in Seq(Functor), ConnectDestroyed(q),
         \A n : Has(q, n) => Has(functors, n),
         \A n : n # "destroyed" => (Has(q, n) <=> Has(functors, n)),
         use.dies \/ Has(functors, "destroyed"),
         UNCHANGED <<removals, setup>>,
         \/ UNCHANGED <<inMap, serverUp>>
         \/ use.dies /\ inMap' = FALSE /\ serverUp' = FALSE
  PROVE  ConnIInv'
<1> USE DEF ConnIInv, Running, chan, sock, setup, hist, isWriting, isReading
<1>1. CASE state # kConnected /\ events # {} /\ Abort("remove")
  <2> USE <1>1 DEF Abort
  <2>1. Types'
    <3>1. (\A i \in DOMAIN functors : functors[i].op \in Ops)'
      BY FunctorOps DEF Types
    <3> QED BY <3>1, ZenonT(60) DEF Types, TypeOK
  <2>2. (CallsAreUses /\ EstablishedFirst /\ DownsAndState)'
    <3>1. CallsAreUses'
      BY DEF CallsAreUses
    <3>2. EstablishedFirst'
      BY DEF EstablishedFirst, Up
    <3>3. DownsAndState'
      BY DEF DownsAndState, EstablishedFirst, Types, TypeOK, Up
    <3> QED BY <3>1, <3>2, <3>3
  <2>3. OutputIInv'
    BY <2>1 DEF OutputIInv, OutputInv, WritingIffPending, FinAfterData, StreamIntact,
           Types, TypeOK, Up, EstablishedFirst, DownsAndState
  <2>4. AssertsIInv'
    <3>1. LoopClosesOnce'
      BY DEF AssertsIInv, LoopClosesOnce, RemoteCloses, Up, DownsAndState
    <3>2. ReadsWhileUp'
      BY DEF AssertsIInv, ReadsWhileUp, Up, DownsAndState
    <3>3. OnListIsUp'
      BY DEF AssertsIInv, OnListIsUp, RemoteCloses, Up
    <3>4. QuietWhenDown'
      BY DEF AssertsIInv, QuietWhenDown, RemoteCloses
    <3>5. DestroyedIsDown'
      BY DEF AssertsIInv, DestroyedIsDown
    <3>6. UndoneIsClosed'
      BY DEF AssertsIInv, UndoneIsClosed
    <3>7. AssertsHold'
      BY DEF Types, TypeOK, Up, EstablishedFirst, DownsAndState, RemoteCloses, AssertsIInv,
         AssertsHold, Exposed, DestroyedIsDown, QuietWhenDown, LoopClosesOnce
    <3>8. (failed = "none" => OutOfMap)'
      BY DEF AssertsIInv, OutOfMap
    <3>9. (failed = "none" => OutOfPoller)'
      BY DEF AssertsIInv, OutOfPoller
    <3> QED BY <3>1, <3>2, <3>3, <3>4, <3>5, <3>6, <3>7, <3>8, <3>9 DEF AssertsIInv
  <2> QED BY <2>1, <2>2, <2>3, <2>4
<1>2. CASE state = kConnected \/ events = {}
  <2>1. /\ state' = IF state = kConnected THEN kDisconnected ELSE state
        /\ events' = {} /\ index' = kNew /\ functors' = q
        /\ downs' = IF state = kConnected THEN downs + 1 ELSE downs
        /\ UNCHANGED <<reading, output, wire, fin, peer, delayed, rc, failed, sends,
                        accepted, dropped, dead>>
    BY <1>2 DEF ConnectDestroyed
  <2>2. downs' \in Nat /\ inMap' \in BOOLEAN /\ serverUp' \in BOOLEAN
    <3>1. downs' \in Nat
      BY <2>1 DEF Types, TypeOK
    <3>2. inMap' \in BOOLEAN /\ serverUp' \in BOOLEAN
      BY Zenon DEF Types, TypeOK
    <3> QED BY <3>1, <3>2
  <2>3. Types'
    <3>1. (\A i \in DOMAIN functors : functors[i].op \in Ops)'
      BY <1>2, <2>1, <2>2, FunctorOps DEF Types
    <3> QED BY <1>2, <2>1, <2>2, <3>1 DEF Types, TypeOK
  <2>4. (CallsAreUses /\ EstablishedFirst /\ DownsAndState)'
    <3>1. CallsAreUses'
      BY <1>2, <2>1, <2>2 DEF CallsAreUses
    <3>2. EstablishedFirst'
      BY <1>2, <2>1, <2>2 DEF EstablishedFirst, Up
    <3>3. DownsAndState'
      BY <1>2, <2>1, <2>2 DEF DownsAndState, EstablishedFirst, Types, TypeOK, Up
    <3> QED BY <3>1, <3>2, <3>3
  <2>5. OutputIInv'
    BY <1>2, <2>1, <2>2, <2>3 DEF OutputIInv, OutputInv, WritingIffPending, FinAfterData,
       StreamIntact,
           Types, TypeOK, Up, EstablishedFirst, DownsAndState
  <2>6. AssertsIInv'
    <3>1. LoopClosesOnce'
      BY <1>2, <2>1, <2>2 DEF AssertsIInv, LoopClosesOnce, RemoteCloses, Up,
         DownsAndState
    <3>2. ReadsWhileUp'
      BY <1>2, <2>1, <2>2 DEF AssertsIInv, ReadsWhileUp, Up, DownsAndState
    <3>3. OnListIsUp'
      BY <1>2, <2>1, <2>2 DEF AssertsIInv, OnListIsUp, RemoteCloses, Up
    <3>4. QuietWhenDown'
      BY <1>2, <2>1, <2>2 DEF AssertsIInv, QuietWhenDown, RemoteCloses
    <3>5. DestroyedIsDown'
      BY <1>2, <2>1, <2>2 DEF Types, TypeOK, Up, EstablishedFirst, DownsAndState,
         RemoteCloses, AssertsIInv, DestroyedIsDown
    <3>6. UndoneIsClosed'
      BY <1>2, <2>1, <2>2 DEF AssertsIInv, UndoneIsClosed
    <3>7. AssertsHold'
      BY <1>2, <2>1, <2>2 DEF AssertsIInv, AssertsHold, Exposed, RemoteCloses
    <3>8. (failed = "none" => OutOfMap)'
      BY <1>2, <2>1, <2>2 DEF Types, TypeOK, Up, EstablishedFirst, DownsAndState,
         RemoteCloses, AssertsIInv, OutOfMap, DestroyedIsDown, ReadsWhileUp
    <3>9. (failed = "none" => OutOfPoller)'
      BY <1>2, <2>1, <2>2 DEF AssertsIInv, OutOfPoller
    <3> QED BY <3>1, <3>2, <3>3, <3>4, <3>5, <3>6, <3>7, <3>8, <3>9 DEF AssertsIInv
  <2> QED BY <2>3, <2>4, <2>5, <2>6
<1> QED BY <1>1, <1>2 DEF ConnectDestroyed

-----------------------------------------------------------------------------
(* Sending *)

\* sendInLoop of bytes that a functor or the user in the loop brings.
LEMMA SendInLoopStep ==
  ASSUME ConnIInv, Running, state # kConnecting,
         "send" \in use.remote \/ state = kConnected,
         NEW d \in Seq(Nat), NEW q \in Seq(Functor), SendInLoop(d, q),
         sends' \in 0..MaxSends,
         \A n : Has(q, n) => Has(functors, n),
         \A n : n # "send" => (Has(q, n) <=> Has(functors, n))
  PROVE  ConnIInv'
<1> USE DEF ConnIInv, Running
<1>1. CASE state = kDisconnected
  <2>1. /\ functors' = q
        /\ UNCHANGED <<state, reading, events, index, output, wire, fin, peer, removals,
                        inMap, serverUp, sharedLoop, use, delayed, rc, failed,
                        accepted, dropped, downs, dead>>
    BY <1>1 DEF SendInLoop, chan, sock, srv, setup, hist
  <2>2. Types'
    <3>1. (\A i \in DOMAIN functors : functors[i].op \in Ops)'
      BY <1>1, <2>1, FunctorOps DEF Types
    <3> QED BY <1>1, <2>1, <3>1 DEF Types, TypeOK
  <2>3. (CallsAreUses /\ EstablishedFirst /\ DownsAndState)'
    <3>1. CallsAreUses'
      BY <1>1, <2>1 DEF CallsAreUses
    <3>2. EstablishedFirst'
      BY <1>1, <2>1 DEF EstablishedFirst, Up
    <3>3. DownsAndState'
      BY <1>1, <2>1 DEF DownsAndState, EstablishedFirst, Types, TypeOK, Up
    <3> QED BY <3>1, <3>2, <3>3
  <2>4. OutputIInv'
    BY <1>1, <2>1, <2>2 DEF OutputIInv, OutputInv, WritingIffPending, FinAfterData,
       StreamIntact,
           Types, TypeOK, Up, EstablishedFirst, DownsAndState
  <2>5. AssertsIInv'
    <3>1. LoopClosesOnce'
      BY <1>1, <2>1 DEF AssertsIInv, LoopClosesOnce, RemoteCloses, Up, DownsAndState
    <3>2. ReadsWhileUp'
      BY <1>1, <2>1 DEF AssertsIInv, ReadsWhileUp, Up, DownsAndState
    <3>3. OnListIsUp'
      BY <1>1, <2>1 DEF AssertsIInv, OnListIsUp, RemoteCloses, Up
    <3>4. QuietWhenDown'
      BY <1>1, <2>1 DEF AssertsIInv, QuietWhenDown, RemoteCloses
    <3>5. DestroyedIsDown'
      BY <1>1, <2>1 DEF AssertsIInv, DestroyedIsDown
    <3>6. UndoneIsClosed'
      BY <1>1, <2>1 DEF AssertsIInv, UndoneIsClosed
    <3>7. AssertsHold'
      BY <1>1, <2>1 DEF AssertsIInv, AssertsHold, Exposed, RemoteCloses
    <3>8. (failed = "none" => OutOfMap)'
      BY <1>1, <2>1 DEF AssertsIInv, OutOfMap
    <3>9. (failed = "none" => OutOfPoller)'
      BY <1>1, <2>1 DEF AssertsIInv, OutOfPoller
    <3> QED BY <3>1, <3>2, <3>3, <3>4, <3>5, <3>6, <3>7, <3>8, <3>9 DEF AssertsIInv
  <2> QED BY <2>2, <2>3, <2>4, <2>5
<1>2. CASE state # kDisconnected
  <2> DEFINE rest(k) == SubSeq(d, k + 1, Len(d))
             keep(k) == ~(Direct /\ Broken) /\ rest(k) # <<>>
             complete(k) == Direct /\ ~(Direct /\ Broken) /\ rest(k) = <<>>
             crossed(k) == /\ keep(k) /\ Len(output) + Len(rest(k)) >= HighWaterMark
                           /\ Len(output) < HighWaterMark
  <2>1. PICK k \in IF Direct THEN CanTake(Len(d)) ELSE {0} :
          /\ wire' = wire \o SubSeq(d, 1, k)
          /\ dropped' = (dropped \/ (Direct /\ Broken))
          /\ output' = IF keep(k) THEN output \o rest(k) ELSE output
          /\ IF keep(k) /\ ~isWriting THEN Update(events \cup {"W"})
                                      ELSE UNCHANGED <<events, index>>
          /\ functors' = q \o Callback(complete(k), "complete")
                            \o Callback(crossed(k), "highWater")
    BY <1>2 DEF SendInLoop
  <2>k. /\ k \in 0..Len(d) /\ (Direct \/ k = 0)
        /\ accepted' = accepted \o d
    <3>1. Len(d) \in Nat /\ CanTake(Len(d)) \subseteq 0..Len(d)
      BY DEF CanTake
    <3>2. k \in 0..Len(d) /\ (Direct \/ k = 0)
      BY <3>1
    <3> QED BY <1>2, <3>2 DEF SendInLoop
  <2>2. UNCHANGED <<state, reading, fin, peer, removals, inMap, serverUp, sharedLoop, use,
                    delayed, rc, failed, downs, dead>>
    BY <1>2 DEF SendInLoop, srv, setup
  <2>3. /\ functors' \in Seq(Functor)
        /\ \A n : n \notin {"complete", "highWater"} => (Has(functors', n) <=> Has(q, n))
    <3> DEFINE q1 == q \o Callback(complete(k), "complete")
    <3>1. q1 \in Seq(Functor) /\ \A n : n # "complete" => (Has(q1, n) <=> Has(q, n))
      BY CallbackHas
    <3>2. functors' = q1 \o Callback(crossed(k), "highWater")
      BY <2>1
    <3> HIDE DEF q1
    <3> QED BY <3>1, <3>2, CallbackHas
  <2>4. /\ output' \in Seq(Nat) /\ wire' \in Seq(Nat) /\ accepted' \in Seq(Nat)
        /\ keep(k) => output' # <<>>
    <3>1. SubSeq(d, 1, k) \in Seq(Nat) /\ rest(k) \in Seq(Nat)
      BY <2>k, WriteSplits
    <3> HIDE DEF rest
    <3> QED BY <2>1, <2>k, <3>1 DEF Types
  <2>5. StreamIntact'
    <3> SUFFICES ASSUME ~dropped' PROVE wire' \o output' = accepted'
      BY DEF StreamIntact
    <3> DEFINE a == SubSeq(d, 1, k)
               b == rest(k)
    <3>t. wire \in Seq(Nat) /\ output \in Seq(Nat)
      BY DEF Types
    <3>1. wire \o output = accepted /\ ~(Direct /\ Broken)
      BY <2>1 DEF OutputIInv, StreamIntact
    <3>2. /\ a \in Seq(Nat) /\ b \in Seq(Nat) /\ a \o b = d
          /\ k = 0 => a = <<>> /\ b = d
      BY <2>k, WriteSplits
    <3>3. output' = IF b # <<>> THEN output \o b ELSE output
      BY <2>1, <3>1
    <3>4. wire' = wire \o a
      BY <2>1
    <3> HIDE DEF a, b
    <3>5. output' = output \o b
      BY <3>2, <3>3 DEF Types
    <3>6. CASE Direct
      <4>1. output' = b /\ wire = accepted
        BY <3>1, <3>2, <3>5, <3>6 DEF Direct, Types
      <4>2. (wire \o a) \o b = wire \o d
        BY <2>k, <3>t, WriteThrough DEF a, b
      <4> QED BY <2>k, <3>4, <4>1, <4>2
    <3>7. CASE k = 0
      <4>1. wire' = wire /\ output' = output \o d
        BY <3>2, <3>4, <3>5, <3>7 DEF Types
      <4>2. (wire \o output) \o d = wire \o (output \o d)
        BY <3>t, ConcatAssoc
      <4> QED BY <2>k, <3>1, <4>1, <4>2
    <3> QED BY <2>k, <3>6, <3>7
  <2>6. /\ index' = index \/ (index' = kAdded /\ Up)
        /\ events \subseteq events' /\ events' \subseteq events \cup {"W"}
        /\ events' # {} => index' = kAdded
        /\ dropped' \in BOOLEAN
    BY <1>2, <2>1 DEF Types, TypeOK, Up, Update
  <2>7. WritingIffPending' /\ FinAfterData'
    <3>1. CASE keep(k)
      <4>1. "W" \in events' /\ output' # <<>> /\ ~(Direct /\ Broken)
        BY <2>1, <2>4, <3>1 DEF isWriting, Update
      <4>2. fin /\ downs = 0 => Direct /\ Broken
        BY <1>2 DEF OutputIInv, OutputInv, WritingIffPending, FinAfterData, Up,
                    Types, TypeOK, Direct, Broken
      <4> QED BY <2>2, <4>1, <4>2 DEF WritingIffPending, FinAfterData, isWriting
    <3>2. CASE ~keep(k)
      <4>1. UNCHANGED <<events, output>>
        BY <2>1, <3>2
      <4> QED BY <2>2, <4>1
              DEF OutputIInv, OutputInv, WritingIffPending, FinAfterData, Up, isWriting
    <3> QED BY <3>1, <3>2
  <2>o. Has(functors', "destroyed") <=> Has(functors, "destroyed")
    BY <2>3
  <2> HIDE DEF rest, keep, complete, crossed
  <2> USE DEF isReading
  <2>8. Types'
    <3>1. (\A i \in DOMAIN functors : functors[i].op \in Ops)'
      BY <1>2, <2>2, <2>3, <2>4, <2>5, <2>6, <2>7, <2>o, FunctorOps DEF Types
    <3> QED BY <1>2, <2>2, <2>3, <2>4, <2>5, <2>6, <2>7, <2>o, <3>1, SMTT(40) DEF Types, TypeOK
  <2>9. (CallsAreUses /\ EstablishedFirst /\ DownsAndState)'
    <3>1. CallsAreUses'
      BY <1>2, <2>2, <2>3, <2>4, <2>5, <2>6, <2>7, <2>o DEF CallsAreUses
    <3>2. EstablishedFirst'
      BY <1>2, <2>2, <2>3, <2>4, <2>5, <2>6, <2>7, <2>o DEF EstablishedFirst, Up
    <3>3. DownsAndState'
      BY <1>2, <2>2, <2>3, <2>4, <2>5, <2>6, <2>7, <2>o DEF DownsAndState,
         EstablishedFirst, Types, TypeOK, Up
    <3> QED BY <3>1, <3>2, <3>3
  <2>10. OutputIInv'
    BY <1>2, <2>2, <2>3, <2>4, <2>5, <2>6, <2>7, <2>o, <2>8 DEF OutputIInv, OutputInv,
       WritingIffPending, FinAfterData, StreamIntact,
           Types, TypeOK, Up, EstablishedFirst, DownsAndState
  <2>11. AssertsIInv'
    <3>1. LoopClosesOnce'
      BY <1>2, <2>2, <2>3, <2>4, <2>5, <2>6, <2>7, <2>o DEF AssertsIInv, LoopClosesOnce,
         RemoteCloses, Up, DownsAndState
    <3>2. ReadsWhileUp'
      BY <1>2, <2>2, <2>3, <2>4, <2>5, <2>6, <2>7, <2>o DEF AssertsIInv, ReadsWhileUp, Up,
         DownsAndState
    <3>3. OnListIsUp'
      BY <1>2, <2>2, <2>3, <2>4, <2>5, <2>6, <2>7, <2>o DEF AssertsIInv, OnListIsUp,
         RemoteCloses, Up
    <3>4. QuietWhenDown'
      BY <1>2, <2>2, <2>3, <2>4, <2>5, <2>6, <2>7, <2>o DEF Types, TypeOK, Up,
         EstablishedFirst, DownsAndState, RemoteCloses, AssertsIInv, QuietWhenDown,
         LoopClosesOnce
    <3>5. DestroyedIsDown'
      BY <1>2, <2>2, <2>3, <2>4, <2>5, <2>6, <2>7, <2>o DEF AssertsIInv,
         DestroyedIsDown
    <3>6. UndoneIsClosed'
      BY <1>2, <2>2, <2>3, <2>4, <2>5, <2>6, <2>7, <2>o DEF AssertsIInv, UndoneIsClosed
    <3>7. AssertsHold'
      BY <1>2, <2>2, <2>3, <2>4, <2>5, <2>6, <2>7, <2>o DEF AssertsIInv, AssertsHold,
         Exposed, RemoteCloses
    <3>8. (failed = "none" => OutOfMap)'
      BY <1>2, <2>2, <2>3, <2>4, <2>5, <2>6, <2>7, <2>o DEF AssertsIInv, OutOfMap
    <3>9. (failed = "none" => OutOfPoller)'
      BY <1>2, <2>2, <2>3, <2>4, <2>5, <2>6, <2>7, <2>o DEF Types, TypeOK, Up,
         EstablishedFirst, DownsAndState, RemoteCloses, AssertsIInv, OutOfMap, OutOfPoller,
         CallsAreUses
    <3> QED BY <3>1, <3>2, <3>3, <3>4, <3>5, <3>6, <3>7, <3>8, <3>9 DEF AssertsIInv
  <2> QED BY <2>8, <2>9, <2>10, <2>11
<1> QED BY <1>1, <1>2

LEMMA SendStep ==
  ASSUME ConnIInv, NEW n \in Lens, Send(n)
  PROVE  ConnIInv'
<1>1. n \in Nat /\ sends + 1 \in Nat /\ sends + 1 \in 0..MaxSends
  BY ConnConstants DEF Send, ConnIInv, Types, TypeOK
<1>2. Message(sends + 1, n) \in Seq(Nat)
  BY <1>1, MessageType
<1> QED BY <1>1, <1>2, SendInLoopStep DEF Send, ConnIInv, Types

\* handleWrite takes at least one byte, so the write side is open.
LEMMA HandleWriteStep ==
  ASSUME ConnIInv, HandleWrite
  PROVE  ConnIInv'
<1> USE DEF ConnIInv, Running
<1> DEFINE rest(k) == SubSeq(output, k + 1, Len(output))
<1>1. PICK k \in CanTake(Len(output)) \ {0} :
        /\ wire' = wire \o SubSeq(output, 1, k) /\ output' = rest(k)
        /\ IF k = Len(output) THEN Update(events \ {"W"}) ELSE UNCHANGED <<events, index>>
        /\ fin' = (fin \/ (k = Len(output) /\ ShutdownAfterWrite))
        /\ functors' = functors \o Callback(k = Len(output), "complete")
  BY DEF HandleWrite
<1>k. ~fin /\ k \in 1..Len(output) /\ k \in 0..Len(output)
  BY DEF CanTake, Broken, Types
<1>2. UNCHANGED <<state, reading, peer, removals, inMap, serverUp, sharedLoop, use, delayed,
                  rc, failed, sends, accepted, dropped, downs, dead>>
  BY DEF HandleWrite, srv, setup, hist
<1>3. /\ functors' \in Seq(Functor)
      /\ \A n : n # "complete" => (Has(functors', n) <=> Has(functors, n))
  BY <1>1, CallbackHas DEF Types
<1>4. /\ output' \in Seq(Nat) /\ wire' \in Seq(Nat)
      /\ output' = <<>> <=> k = Len(output)
  <2>1. output \in Seq(Nat) /\ wire \in Seq(Nat)
    BY DEF Types
  <2>2. /\ SubSeq(output, 1, k) \in Seq(Nat) /\ rest(k) \in Seq(Nat)
        /\ rest(k) = <<>> <=> k = Len(output)
    BY <1>k, <2>1, WriteSplits
  <2> HIDE DEF rest
  <2> QED BY <1>1, <2>1, <2>2
<1>5. StreamIntact'
  <2>1. output \in Seq(Nat) /\ wire \in Seq(Nat)
    BY DEF Types
  <2>2. wire' \o output' = wire \o output
    BY <1>1, <1>k, <2>1, WriteThrough
  <2> QED BY <1>2, <2>2 DEF OutputIInv, StreamIntact
<1>6. /\ index = kAdded /\ "W" \in events /\ state # kConnecting
      /\ events' = IF k = Len(output) THEN events \ {"W"} ELSE events
      /\ index' \in {kAdded, kDeleted} /\ (events' # {} => index' = kAdded)
  BY <1>1 DEF HandleWrite, isWriting, Update, EstablishedFirst
<1>7. WritingIffPending' /\ FinAfterData'
  BY <1>1, <1>k, <1>2, <1>4, <1>6
     DEF OutputIInv, OutputInv, WritingIffPending, FinAfterData, Up, isWriting
<1>8. fin' \in BOOLEAN
  BY <1>1 DEF Types, TypeOK
<1> HIDE DEF rest
<1> USE DEF isReading
<1>9. Types'
  <2>1. (\A i \in DOMAIN functors : functors[i].op \in Ops)'
    BY <1>2, <1>3, <1>4, <1>5, <1>6, <1>7, <1>8, FunctorOps DEF Types
  <2> QED BY <1>2, <1>3, <1>4, <1>5, <1>6, <1>7, <1>8, <2>1 DEF Types, TypeOK
<1>10. (CallsAreUses /\ EstablishedFirst /\ DownsAndState)'
  <2>1. CallsAreUses'
    BY <1>2, <1>3, <1>4, <1>5, <1>6, <1>7, <1>8 DEF CallsAreUses
  <2>2. EstablishedFirst'
    BY <1>2, <1>3, <1>4, <1>5, <1>6, <1>7, <1>8 DEF EstablishedFirst, Up
  <2>3. DownsAndState'
    BY <1>2, <1>3, <1>4, <1>5, <1>6, <1>7, <1>8 DEF DownsAndState, EstablishedFirst, Types,
       TypeOK, Up
  <2> QED BY <2>1, <2>2, <2>3
<1>11. OutputIInv'
  BY <1>2, <1>3, <1>4, <1>5, <1>6, <1>7, <1>8, <1>9 DEF OutputIInv, OutputInv,
     WritingIffPending, FinAfterData, StreamIntact,
         Types, TypeOK, Up, EstablishedFirst, DownsAndState
<1>12. AssertsIInv'
  <2>1. LoopClosesOnce'
    BY <1>2, <1>3, <1>4, <1>5, <1>6, <1>7, <1>8 DEF AssertsIInv, LoopClosesOnce,
       RemoteCloses, Up, DownsAndState
  <2>2. ReadsWhileUp'
    BY <1>2, <1>3, <1>4, <1>5, <1>6, <1>7, <1>8 DEF AssertsIInv, ReadsWhileUp, Up,
       DownsAndState
  <2>3. OnListIsUp'
    BY <1>2, <1>3, <1>4, <1>5, <1>6, <1>7, <1>8 DEF AssertsIInv, OnListIsUp, RemoteCloses,
       Up
  <2>4. QuietWhenDown'
    BY <1>2, <1>3, <1>4, <1>5, <1>6, <1>7, <1>8 DEF AssertsIInv, QuietWhenDown,
       RemoteCloses
  <2>5. DestroyedIsDown'
    BY <1>2, <1>3, <1>4, <1>5, <1>6, <1>7, <1>8 DEF AssertsIInv, DestroyedIsDown
  <2>6. UndoneIsClosed'
    BY <1>2, <1>3, <1>4, <1>5, <1>6, <1>7, <1>8 DEF AssertsIInv, UndoneIsClosed
  <2>7. AssertsHold'
    BY <1>2, <1>3, <1>4, <1>5, <1>6, <1>7, <1>8 DEF AssertsIInv, AssertsHold, Exposed,
       RemoteCloses
  <2>8. (failed = "none" => OutOfMap)'
    BY <1>2, <1>3, <1>4, <1>5, <1>6, <1>7, <1>8 DEF AssertsIInv, OutOfMap
  <2>9. (failed = "none" => OutOfPoller)'
    BY <1>2, <1>3, <1>4, <1>5, <1>6, <1>7, <1>8 DEF AssertsIInv, OutOfPoller
  <2> QED BY <2>1, <2>2, <2>3, <2>4, <2>5, <2>6, <2>7, <2>8, <2>9 DEF AssertsIInv
<1> QED BY <1>9, <1>10, <1>11, <1>12

-----------------------------------------------------------------------------
(* The loop *)

\* connectEstablished is the first functor, and the only one that ever needs to be.
LEMMA ConnectEstablishedStep ==
  ASSUME ConnIInv, Running, functors # <<>>, Head(functors).op = "established",
         ConnectEstablished(Tail(functors))
  PROVE  ConnIInv'
<1> USE DEF ConnIInv, Running
<1> DEFINE q == Tail(functors)
<1>1. /\ q \in Seq(Functor)
      /\ \A n : Has(functors, n) <=> Head(functors).op = n \/ Has(q, n)
  BY TailHas DEF Types
<1>2. state = kConnecting
  BY <1>1 DEF EstablishedFirst
<1>3. \A n : n # "destroyed" => ~Has(q, n)
  BY <1>2, OnlyDestroyedHas DEF EstablishedFirst
<1>4. /\ state' = kConnected /\ events' = {"R"} /\ index' = kAdded /\ functors' = q
      /\ UNCHANGED <<reading, output, wire, fin, peer, removals, inMap, serverUp,
                      sharedLoop, use, delayed, rc, failed, sends, accepted, dropped,
                      downs, dead>>
  BY <1>2 DEF ConnectEstablished, Update, sock, srv, setup, hist
<1>5. Has(functors', "destroyed") <=> Has(functors, "destroyed")
  BY <1>1, <1>4
<1> HIDE DEF q
<1> USE DEF isReading, isWriting
<1>6. Types'
  <2>1. (\A i \in DOMAIN functors : functors[i].op \in Ops)'
    BY <1>1, <1>2, <1>3, <1>4, <1>5, FunctorOps DEF Types
  <2> QED BY <1>1, <1>2, <1>3, <1>4, <1>5, <2>1 DEF Types, TypeOK
<1>7. (CallsAreUses /\ EstablishedFirst /\ DownsAndState)'
  <2>1. CallsAreUses'
    BY <1>1, <1>2, <1>3, <1>4, <1>5 DEF CallsAreUses
  <2>2. EstablishedFirst'
    BY <1>1, <1>2, <1>3, <1>4, <1>5 DEF EstablishedFirst, Up
  <2>3. DownsAndState'
    BY <1>1, <1>2, <1>3, <1>4, <1>5 DEF DownsAndState, EstablishedFirst, Types, TypeOK, Up
  <2> QED BY <2>1, <2>2, <2>3
<1>8. OutputIInv'
  BY <1>1, <1>2, <1>3, <1>4, <1>5, <1>6 DEF OutputIInv, OutputInv, WritingIffPending,
     FinAfterData, StreamIntact,
         Types, TypeOK, Up, EstablishedFirst, DownsAndState
<1>9. AssertsIInv'
  <2>1. LoopClosesOnce'
    BY <1>1, <1>2, <1>3, <1>4, <1>5 DEF Types, TypeOK, Up, EstablishedFirst, DownsAndState,
       RemoteCloses, AssertsIInv, LoopClosesOnce
  <2>2. ReadsWhileUp'
    BY <1>1, <1>2, <1>3, <1>4, <1>5 DEF AssertsIInv, ReadsWhileUp, Up, DownsAndState
  <2>3. OnListIsUp'
    BY <1>1, <1>2, <1>3, <1>4, <1>5 DEF AssertsIInv, OnListIsUp, RemoteCloses, Up
  <2>4. QuietWhenDown'
    BY <1>1, <1>2, <1>3, <1>4, <1>5 DEF Types, TypeOK, Up, EstablishedFirst, DownsAndState,
       RemoteCloses, AssertsIInv, QuietWhenDown, LoopClosesOnce
  <2>5. DestroyedIsDown'
    BY <1>1, <1>2, <1>3, <1>4, <1>5 DEF AssertsIInv, DestroyedIsDown
  <2>6. UndoneIsClosed'
    BY <1>1, <1>2, <1>3, <1>4, <1>5 DEF AssertsIInv, UndoneIsClosed
  <2>7. AssertsHold'
    BY <1>1, <1>2, <1>3, <1>4, <1>5 DEF AssertsIInv, AssertsHold, Exposed, RemoteCloses
  <2>8. (failed = "none" => OutOfMap)'
    BY <1>1, <1>2, <1>3, <1>4, <1>5 DEF AssertsIInv, OutOfMap
  <2>9. (failed = "none" => OutOfPoller)'
    BY <1>1, <1>2, <1>3, <1>4, <1>5 DEF Types, TypeOK, Up, EstablishedFirst, DownsAndState,
       RemoteCloses, AssertsIInv, OutOfMap, OutOfPoller, CallsAreUses
  <2> QED BY <2>1, <2>2, <2>3, <2>4, <2>5, <2>6, <2>7, <2>8, <2>9 DEF AssertsIInv
<1> QED BY <1>6, <1>7, <1>8, <1>9

\* A functor that only takes itself out of the queue.
LEMMA QuietFunctorStep ==
  ASSUME ConnIInv, Running, state # kConnecting,
         NEW q \in Seq(Functor), functors' = q,
         \A n : Has(q, n) => Has(functors, n),
         \A n : n \in {"destroyed", "forceClose"} => (Has(q, n) <=> Has(functors, n))
                \/ (n = "forceClose" /\ ~Up),
         FinAfterData', fin' \in BOOLEAN,
         UNCHANGED <<state, chan, output, wire, peer, srv, delayed, rc, failed, sends, hist>>
  PROVE  ConnIInv'
<1> USE DEF ConnIInv, Running, chan, srv, setup, hist, isReading, isWriting
<1>1. Has(q, "destroyed") <=> Has(functors, "destroyed")
  OBVIOUS
<1>2. (Has(q, "forceClose") <=> Has(functors, "forceClose")) \/ ~Up
  OBVIOUS
<1>3. Types'
  <2>1. (\A i \in DOMAIN functors : functors[i].op \in Ops)'
    BY <1>1, <1>2, FunctorOps DEF Types
  <2> QED BY <1>1, <1>2, <2>1 DEF Types, TypeOK
<1>4. (CallsAreUses /\ EstablishedFirst /\ DownsAndState)'
  <2>1. CallsAreUses'
    BY <1>1, <1>2 DEF CallsAreUses
  <2>2. EstablishedFirst'
    BY <1>1, <1>2 DEF EstablishedFirst, Up
  <2>3. DownsAndState'
    BY <1>1, <1>2 DEF DownsAndState, EstablishedFirst, Types, TypeOK, Up
  <2> QED BY <2>1, <2>2, <2>3
<1>5. OutputIInv'
  BY <1>1, <1>2, <1>3 DEF OutputIInv, OutputInv, WritingIffPending, FinAfterData,
     StreamIntact,
         Types, TypeOK, Up, EstablishedFirst, DownsAndState
<1>6. AssertsIInv'
  <2>1. LoopClosesOnce'
    BY <1>1, <1>2 DEF AssertsIInv, LoopClosesOnce, RemoteCloses, Up, DownsAndState
  <2>2. ReadsWhileUp'
    BY <1>1, <1>2 DEF AssertsIInv, ReadsWhileUp, Up, DownsAndState
  <2>3. OnListIsUp'
    BY <1>1, <1>2 DEF AssertsIInv, OnListIsUp, RemoteCloses, Up
  <2>4. QuietWhenDown'
    BY <1>1, <1>2 DEF AssertsIInv, QuietWhenDown, RemoteCloses
  <2>5. DestroyedIsDown'
    BY <1>1, <1>2 DEF AssertsIInv, DestroyedIsDown
  <2>6. UndoneIsClosed'
    BY <1>1, <1>2 DEF Types, TypeOK, Up, EstablishedFirst, DownsAndState, RemoteCloses,
       AssertsIInv, UndoneIsClosed, CallsAreUses
  <2>7. AssertsHold'
    BY <1>1, <1>2 DEF AssertsIInv, AssertsHold, Exposed, RemoteCloses
  <2>8. (failed = "none" => OutOfMap)'
    BY <1>1, <1>2 DEF AssertsIInv, OutOfMap
  <2>9. (failed = "none" => OutOfPoller)'
    BY <1>1, <1>2 DEF AssertsIInv, OutOfPoller
  <2> QED BY <2>1, <2>2, <2>3, <2>4, <2>5, <2>6, <2>7, <2>8, <2>9 DEF AssertsIInv
<1> QED BY <1>3, <1>4, <1>5, <1>6

LEMMA RunFunctorStep ==
  ASSUME ConnIInv, RunFunctor
  PROVE  ConnIInv'
<1> DEFINE f == Head(functors)
           q == Tail(functors)
<1>1. /\ f \in Functor /\ q \in Seq(Functor)
      /\ \A n : Has(functors, n) <=> f.op = n \/ Has(q, n)
  BY TailHas DEF RunFunctor, ConnIInv, Types
<1>2. f.op # "established" => state # kConnecting
  BY DEF ConnIInv, EstablishedFirst
<1>3. Running /\ functors # <<>>
  BY DEF RunFunctor
<1>4. CASE f.op = "established" /\ ConnectEstablished(q)
  BY <1>3, <1>4, ConnectEstablishedStep
<1>5. CASE f.op = "send" /\ SendInLoop(f.data, q) /\ UNCHANGED sends
  <2>1. f.data \in Seq(Nat)
    BY <1>1, <1>5 DEF Functor
  <2>2. "send" \in use.remote /\ sends' \in 0..MaxSends
    BY <1>1, <1>5 DEF ConnIInv, CallsAreUses, Types, TypeOK
  <2>3. state # kConnecting
    BY <1>2, <1>5
  <2>4. /\ \A n : Has(q, n) => Has(functors, n)
        /\ \A n : n # "send" => (Has(q, n) <=> Has(functors, n))
    BY <1>1, <1>5
  <2> HIDE DEF f, q
  <2> QED BY <1>1, <1>3, <1>5, <2>1, <2>2, <2>3, <2>4, SendInLoopStep
<1>6. CASE f.op = "shutdown" /\ ShutdownInLoop(q)
  <2>1. FinAfterData' /\ fin' \in BOOLEAN
    BY <1>2, <1>6 DEF ShutdownInLoop, ShutdownNow, hist, ConnIInv, DownsAndState, Types,
       TypeOK,
       OutputIInv, OutputInv, WritingIffPending, FinAfterData, Up
  <2> QED BY <1>1, <1>2, <1>3, <1>6, <2>1, QuietFunctorStep DEF ShutdownInLoop
<1>7. CASE f.op = "forceClose" /\ ForceCloseInLoop(q)
  <2>1. CASE Up /\ HandleClose(q)
    BY <1>1, <1>2, <1>3, <1>7, <2>1, HandleCloseStep
  <2>2. CASE ~Up /\ functors' = q /\
             UNCHANGED <<state, chan, output, sock, srv, delayed, rc, failed, sends, hist>>
    <3>1. FinAfterData' /\ fin' \in BOOLEAN
      BY <2>2 DEF sock, hist, ConnIInv, Types, TypeOK, OutputIInv, OutputInv, FinAfterData
    <3> QED BY <1>1, <1>2, <1>3, <1>7, <2>2, <3>1, QuietFunctorStep DEF sock
  <2> QED BY <1>7, <2>1, <2>2 DEF ForceCloseInLoop
<1>8. CASE f.op = "destroyed" /\ ConnectDestroyed(q) /\ UNCHANGED srv
  BY <1>1, <1>2, <1>3, <1>8, ConnectDestroyedStep DEF srv
<1>9. CASE f.op \in {"complete", "highWater"} /\ UserCallback(q)
  <2>1. FinAfterData' /\ fin' \in BOOLEAN
    BY <1>9 DEF UserCallback, sock, hist, ConnIInv, Types, TypeOK, OutputIInv, OutputInv,
                FinAfterData
  <2> QED BY <1>1, <1>2, <1>3, <1>9, <2>1, QuietFunctorStep DEF UserCallback, sock
<1> QED BY <1>4, <1>5, <1>6, <1>7, <1>8, <1>9 DEF RunFunctor

LEMMA HandleReadEofStep ==
  ASSUME ConnIInv, HandleReadEof
  PROVE  ConnIInv'
<1>1. /\ Running /\ state # kConnecting /\ index = kAdded /\ HandleClose(functors)
      /\ functors \in Seq(Functor)
  BY DEF HandleReadEof, ConnIInv, EstablishedFirst, Types
<1> QED BY <1>1, HandleCloseStep

\* removeConnectionInLoop queues connectDestroyed for a connection that is down.
LEMMA RemoveConnectionStep ==
  ASSUME ConnIInv, RemoveConnectionInLoop
  PROVE  ConnIInv'
<1> USE DEF ConnIInv, Running
<1>1. CASE ~inMap /\ Fail("erase")
  <2>1. Exposed("erase")
    BY <1>1 DEF RemoveConnectionInLoop, AssertsIInv, LoopClosesOnce, Exposed
  <2> QED BY <1>1, <2>1, FailStep DEF RemoveConnectionInLoop
<1>2. CASE inMap
  <2>1. /\ removals > 0 /\ inMap' = FALSE /\ removals' = removals - 1
        /\ functors' = Append(functors, [op |-> "destroyed"])
        /\ UNCHANGED <<state, reading, events, index, output, wire, fin, peer, serverUp,
                        sharedLoop, use, delayed, rc, failed, sends, accepted, dropped,
                        downs, dead>>
    BY <1>2 DEF RemoveConnectionInLoop, Fail, Abort, chan, sock, setup, hist
  <2>2. /\ functors' \in Seq(Functor)
        /\ \A n : Has(functors', n) <=> Has(functors, n) \/ n = "destroyed"
    <3>1. [op |-> "destroyed"] \in Functor
      BY PlainFunctor DEF Ops
    <3> QED BY <2>1, <3>1, AppendHas DEF Types
  <2>3. state # kConnecting /\ removals' \in Nat /\ downs > 0
    BY <2>1 DEF Types, TypeOK, DownsAndState, EstablishedFirst
  <2>4. inMap' \in BOOLEAN
    BY <2>1
  <2> USE DEF isReading, isWriting
  <2>5. Types'
    <3>1. (\A i \in DOMAIN functors : functors[i].op \in Ops)'
      BY <2>1, <2>2, <2>3, <2>4, FunctorOps DEF Types
    <3> QED BY <2>1, <2>2, <2>3, <2>4, <3>1 DEF Types, TypeOK
  <2>6. (CallsAreUses /\ EstablishedFirst /\ DownsAndState)'
    <3>1. CallsAreUses'
      BY <2>1, <2>2, <2>3, <2>4 DEF CallsAreUses
    <3>2. EstablishedFirst'
      BY <2>1, <2>2, <2>3, <2>4 DEF EstablishedFirst, Up
    <3>3. DownsAndState'
      BY <2>1, <2>2, <2>3, <2>4 DEF DownsAndState, EstablishedFirst, Types, TypeOK, Up
    <3> QED BY <3>1, <3>2, <3>3
  <2>7. OutputIInv'
    BY <2>1, <2>2, <2>3, <2>4, <2>5 DEF OutputIInv, OutputInv, WritingIffPending,
       FinAfterData, StreamIntact,
           Types, TypeOK, Up, EstablishedFirst, DownsAndState
  <2>8. AssertsIInv'
    <3>1. LoopClosesOnce'
      BY <2>1, <2>2, <2>3, <2>4 DEF Types, TypeOK, Up, EstablishedFirst, DownsAndState,
         RemoteCloses, AssertsIInv, LoopClosesOnce
    <3>2. ReadsWhileUp'
      BY <2>1, <2>2, <2>3, <2>4 DEF AssertsIInv, ReadsWhileUp, Up, DownsAndState
    <3>3. OnListIsUp'
      BY <2>1, <2>2, <2>3, <2>4 DEF AssertsIInv, OnListIsUp, RemoteCloses, Up
    <3>4. QuietWhenDown'
      BY <2>1, <2>2, <2>3, <2>4 DEF AssertsIInv, QuietWhenDown, RemoteCloses
    <3>5. DestroyedIsDown'
      BY <2>1, <2>2, <2>3, <2>4 DEF AssertsIInv, DestroyedIsDown
    <3>6. UndoneIsClosed'
      BY <2>1, <2>2, <2>3, <2>4 DEF AssertsIInv, UndoneIsClosed
    <3>7. AssertsHold'
      BY <2>1, <2>2, <2>3, <2>4 DEF AssertsIInv, AssertsHold, Exposed, RemoteCloses
    <3>8. (failed = "none" => OutOfMap)'
      BY <2>1, <2>2, <2>3, <2>4 DEF AssertsIInv, OutOfMap
    <3>9. (failed = "none" => OutOfPoller)'
      BY <2>1, <2>2, <2>3, <2>4 DEF AssertsIInv, OutOfPoller
    <3> QED BY <3>1, <3>2, <3>3, <3>4, <3>5, <3>6, <3>7, <3>8, <3>9 DEF AssertsIInv
  <2> QED BY <2>5, <2>6, <2>7, <2>8
<1> QED BY <1>1, <1>2 DEF RemoveConnectionInLoop

-----------------------------------------------------------------------------
(* The user in the loop, the timer and the peer *)

LEMMA PeerClosesStep ==
  ASSUME ConnIInv, PeerCloses
  PROVE  ConnIInv'
<1> USE DEF ConnIInv, Running, PeerCloses, chan, sock, srv, setup, hist
<1>1. Types'
  BY DEF Types, TypeOK
<1>2. (CallsAreUses /\ EstablishedFirst /\ DownsAndState)'
  BY DEF CallsAreUses, EstablishedFirst, DownsAndState, Up
<1>3. OutputIInv'
  BY <1>1 DEF OutputIInv, OutputInv, WritingIffPending, FinAfterData, StreamIntact,
         Types, TypeOK, Up, DownsAndState, isWriting
<1>4. AssertsIInv'
  BY DEF AssertsIInv, LoopClosesOnce, ReadsWhileUp, OnListIsUp, QuietWhenDown,
         DestroyedIsDown, OutOfMap, UndoneIsClosed, OutOfPoller, AssertsHold,
         RemoteCloses, Exposed, Types, TypeOK, Up, CallsAreUses,
         DownsAndState, isReading
<1> QED BY <1>1, <1>2, <1>3, <1>4

\* shutdown() in the loop leaves the write side open while output waits.
LEMMA ShutdownStep ==
  ASSUME ConnIInv, Shutdown
  PROVE  ConnIInv'
<1> USE DEF ConnIInv, Running, Shutdown, chan, sock, srv, setup, hist, ShutdownNow
<1>1. Types'
  BY DEF Types, TypeOK
<1>2. (CallsAreUses /\ EstablishedFirst /\ DownsAndState)'
  BY DEF CallsAreUses, EstablishedFirst, DownsAndState, Up
<1>3. OutputIInv'
  BY <1>1 DEF OutputIInv, OutputInv, WritingIffPending, FinAfterData, StreamIntact,
         Types, TypeOK, Up, DownsAndState, isWriting
<1>4. AssertsIInv'
  BY DEF AssertsIInv, LoopClosesOnce, ReadsWhileUp, OnListIsUp, QuietWhenDown,
         DestroyedIsDown, OutOfMap, UndoneIsClosed, OutOfPoller, AssertsHold,
         RemoteCloses, Exposed, Types, TypeOK, Up, CallsAreUses,
         DownsAndState, isReading
<1> QED BY <1>1, <1>2, <1>3, <1>4

LEMMA ForceCloseWithDelayStep ==
  ASSUME ConnIInv, ForceCloseWithDelay
  PROVE  ConnIInv'
<1> USE DEF ConnIInv, Running, ForceCloseWithDelay, chan, sock, srv, setup, hist
<1>1. Types'
  BY DEF Types, TypeOK
<1>2. (CallsAreUses /\ EstablishedFirst /\ DownsAndState)'
  BY DEF CallsAreUses, EstablishedFirst, DownsAndState, Up
<1>3. OutputIInv'
  BY <1>1 DEF OutputIInv, OutputInv, WritingIffPending, FinAfterData, StreamIntact,
         Types, TypeOK, Up, DownsAndState, isWriting
<1>4. AssertsIInv'
  BY DEF AssertsIInv, LoopClosesOnce, ReadsWhileUp, OnListIsUp, QuietWhenDown,
         DestroyedIsDown, OutOfMap, UndoneIsClosed, OutOfPoller, AssertsHold,
         RemoteCloses, Exposed, Types, TypeOK, Up, CallsAreUses,
         DownsAndState, isReading
<1> QED BY <1>1, <1>2, <1>3, <1>4

\* forceClose() in the loop queues forceCloseInLoop.
LEMMA ForceCloseStep ==
  ASSUME ConnIInv, ForceClose
  PROVE  ConnIInv'
<1> USE DEF ConnIInv, Running, ForceClose, chan, sock, srv, setup, hist, isReading, isWriting
<1>1. Running /\ Up /\ state' = kDisconnecting
  OBVIOUS
<1>2. [op |-> "forceClose"] \in Functor
  BY PlainFunctor DEF Ops
<1>3. /\ functors' \in Seq(Functor)
      /\ \A n : Has(functors', n) <=> Has(functors, n) \/ n = "forceClose"
  BY <1>2, AppendHas DEF Types
<1>4. UNCHANGED <<reading, events, index, output, wire, fin, peer, removals, inMap, serverUp,
                  sharedLoop, use, delayed, rc, failed, sends, accepted, dropped, downs, dead>>
  OBVIOUS
<1> HIDE DEF ForceClose
<1>5. Types'
  <2>1. (\A i \in DOMAIN functors : functors[i].op \in Ops)'
    BY <1>1, <1>3, <1>4, FunctorOps DEF Types
  <2> QED BY <1>1, <1>3, <1>4, <2>1 DEF Types, TypeOK
<1>6. (CallsAreUses /\ EstablishedFirst /\ DownsAndState)'
  <2>1. CallsAreUses'
    BY <1>1, <1>3, <1>4 DEF CallsAreUses
  <2>2. EstablishedFirst'
    BY <1>1, <1>3, <1>4 DEF EstablishedFirst, Up
  <2>3. DownsAndState'
    BY <1>1, <1>3, <1>4 DEF DownsAndState, EstablishedFirst, Types, TypeOK, Up
  <2> QED BY <2>1, <2>2, <2>3
<1>7. OutputIInv'
  BY <1>1, <1>3, <1>4, <1>5 DEF OutputIInv, OutputInv, WritingIffPending, FinAfterData,
     StreamIntact,
         Types, TypeOK, Up, EstablishedFirst, DownsAndState
<1>8. AssertsIInv'
  <2>1. LoopClosesOnce'
    BY <1>1, <1>3, <1>4 DEF AssertsIInv, LoopClosesOnce, RemoteCloses, Up,
       DownsAndState
  <2>2. ReadsWhileUp'
    BY <1>1, <1>3, <1>4 DEF AssertsIInv, ReadsWhileUp, Up, DownsAndState
  <2>3. OnListIsUp'
    BY <1>1, <1>3, <1>4 DEF AssertsIInv, OnListIsUp, RemoteCloses, Up
  <2>4. QuietWhenDown'
    BY <1>1, <1>3, <1>4 DEF AssertsIInv, QuietWhenDown, RemoteCloses
  <2>5. DestroyedIsDown'
    BY <1>1, <1>3, <1>4 DEF AssertsIInv, DestroyedIsDown
  <2>6. UndoneIsClosed'
    BY <1>1, <1>3, <1>4 DEF AssertsIInv, UndoneIsClosed
  <2>7. AssertsHold'
    BY <1>1, <1>3, <1>4 DEF AssertsIInv, AssertsHold, Exposed, RemoteCloses
  <2>8. (failed = "none" => OutOfMap)'
    BY <1>1, <1>3, <1>4 DEF AssertsIInv, OutOfMap
  <2>9. (failed = "none" => OutOfPoller)'
    BY <1>1, <1>3, <1>4 DEF AssertsIInv, OutOfPoller
  <2> QED BY <2>1, <2>2, <2>3, <2>4, <2>5, <2>6, <2>7, <2>8, <2>9 DEF AssertsIInv
<1> QED BY <1>5, <1>6, <1>7, <1>8

\* The timer of forceCloseWithDelay does what forceClose does, if the connection is up.
LEMMA DelayExpiresStep ==
  ASSUME ConnIInv, DelayExpires
  PROVE  ConnIInv'
<1> USE DEF ConnIInv, isReading, isWriting
<1>1. /\ UNCHANGED <<reading, events, index, output, wire, fin, peer, removals, inMap, serverUp,
                      sharedLoop, use, rc, failed, sends, accepted, dropped, downs, dead>>
      /\ delayed' = "done" /\ failed = "none"
  BY DEF DelayExpires, chan, sock, srv, setup, hist
<1>2. CASE ~dead /\ Up
  <2>1. state' = kDisconnecting /\ functors' = Append(functors, [op |-> "forceClose"])
    BY <1>2 DEF DelayExpires
  <2>2. /\ functors' \in Seq(Functor)
        /\ \A n : Has(functors', n) <=> Has(functors, n) \/ n = "forceClose"
    <3>1. [op |-> "forceClose"] \in Functor
      BY PlainFunctor DEF Ops
    <3> QED BY <2>1, <3>1, AppendHas DEF Types
  <2>3. Types'
    <3>1. (\A i \in DOMAIN functors : functors[i].op \in Ops)'
      BY <1>1, <1>2, <2>1, <2>2, FunctorOps DEF Types
    <3> QED BY <1>1, <1>2, <2>1, <2>2, <3>1 DEF Types, TypeOK
  <2>4. (CallsAreUses /\ EstablishedFirst /\ DownsAndState)'
    <3>1. CallsAreUses'
      BY <1>1, <1>2, <2>1, <2>2 DEF CallsAreUses
    <3>2. EstablishedFirst'
      BY <1>1, <1>2, <2>1, <2>2 DEF EstablishedFirst, Up
    <3>3. DownsAndState'
      BY <1>1, <1>2, <2>1, <2>2 DEF DownsAndState, EstablishedFirst, Types, TypeOK, Up
    <3> QED BY <3>1, <3>2, <3>3
  <2>5. OutputIInv'
    BY <1>1, <1>2, <2>1, <2>2, <2>3 DEF OutputIInv, OutputInv, WritingIffPending,
       FinAfterData, StreamIntact,
           Types, TypeOK, Up, EstablishedFirst, DownsAndState
  <2>6. AssertsIInv'
    <3>1. LoopClosesOnce'
      BY <1>1, <1>2, <2>1, <2>2 DEF AssertsIInv, LoopClosesOnce, RemoteCloses, Up,
         DownsAndState
    <3>2. ReadsWhileUp'
      BY <1>1, <1>2, <2>1, <2>2 DEF AssertsIInv, ReadsWhileUp, Up, DownsAndState
    <3>3. OnListIsUp'
      BY <1>1, <1>2, <2>1, <2>2 DEF AssertsIInv, OnListIsUp, RemoteCloses, Up
    <3>4. QuietWhenDown'
      BY <1>1, <1>2, <2>1, <2>2 DEF AssertsIInv, QuietWhenDown, RemoteCloses
    <3>5. DestroyedIsDown'
      BY <1>1, <1>2, <2>1, <2>2 DEF AssertsIInv, DestroyedIsDown
    <3>6. UndoneIsClosed'
      BY <1>1, <1>2, <2>1, <2>2 DEF AssertsIInv, UndoneIsClosed
    <3>7. AssertsHold'
      BY <1>1, <1>2, <2>1, <2>2 DEF AssertsIInv, AssertsHold, Exposed, RemoteCloses
    <3>8. (failed = "none" => OutOfMap)'
      BY <1>1, <1>2, <2>1, <2>2 DEF AssertsIInv, OutOfMap
    <3>9. (failed = "none" => OutOfPoller)'
      BY <1>1, <1>2, <2>1, <2>2 DEF AssertsIInv, OutOfPoller
    <3> QED BY <3>1, <3>2, <3>3, <3>4, <3>5, <3>6, <3>7, <3>8, <3>9 DEF AssertsIInv
  <2> QED BY <2>3, <2>4, <2>5, <2>6
<1>3. CASE ~(~dead /\ Up)
  <2>1. UNCHANGED <<state, functors>>
    BY <1>3 DEF DelayExpires
  <2>2. Types'
    BY <1>1, <2>1 DEF Types, TypeOK
  <2>3. (CallsAreUses /\ EstablishedFirst /\ DownsAndState)'
    BY <1>1, <2>1 DEF CallsAreUses, EstablishedFirst, DownsAndState, Up
  <2>4. OutputIInv'
    BY <1>1, <2>1, <2>2 DEF OutputIInv, OutputInv, WritingIffPending, FinAfterData,
       StreamIntact,
           Types, TypeOK, Up, DownsAndState, isWriting
  <2>5. AssertsIInv'
    BY <1>1, <2>1 DEF AssertsIInv, LoopClosesOnce, ReadsWhileUp, OnListIsUp, QuietWhenDown,
           DestroyedIsDown, OutOfMap, UndoneIsClosed, OutOfPoller, AssertsHold,
           RemoteCloses, Exposed, Types, TypeOK, Up, CallsAreUses,
           DownsAndState, isReading
  <2> QED BY <2>2, <2>3, <2>4, <2>5
<1> QED BY <1>2, <1>3

LEMMA StartReadStep ==
  ASSUME ConnIInv, StartRead
  PROVE  ConnIInv'
<1> USE DEF ConnIInv, Running
<1>1. /\ events' = events \cup {"R"} /\ reading' = TRUE
      /\ index' \in {kAdded, kDeleted} /\ (events' # {} => index' = kAdded)
      /\ state # kConnecting /\ failed = "none" /\ use.reads # {}
      /\ state = kDisconnected => "down" \in use.reads
      /\ UNCHANGED <<state, output, wire, fin, peer, functors, removals, inMap, serverUp,
                      sharedLoop, use, delayed, rc, failed, sends, accepted, dropped, downs,
                      dead>>
  BY DEF StartRead, Established, MayCallRead, Update, sock, srv, setup, hist
<1>2. events' \subseteq {"R", "W"} /\ ("W" \in events' <=> "W" \in events)
  BY <1>1 DEF Types, TypeOK
<1>3. reading' \in BOOLEAN
  BY <1>1
<1> USE DEF isReading, isWriting
<1>4. Types'
  <2>1. (\A i \in DOMAIN functors : functors[i].op \in Ops)'
    BY <1>1, <1>2, <1>3, FunctorOps DEF Types
  <2> QED BY <1>1, <1>2, <1>3, <2>1 DEF Types, TypeOK
<1>5. (CallsAreUses /\ EstablishedFirst /\ DownsAndState)'
  <2>1. CallsAreUses'
    BY <1>1, <1>2, <1>3 DEF CallsAreUses
  <2>2. EstablishedFirst'
    BY <1>1, <1>2, <1>3 DEF EstablishedFirst, Up
  <2>3. DownsAndState'
    BY <1>1, <1>2, <1>3 DEF DownsAndState, EstablishedFirst, Types, TypeOK, Up
  <2> QED BY <2>1, <2>2, <2>3
<1>6. OutputIInv'
  BY <1>1, <1>2, <1>3, <1>4 DEF OutputIInv, OutputInv, WritingIffPending, FinAfterData,
     StreamIntact,
         Types, TypeOK, Up, EstablishedFirst, DownsAndState
<1>7. AssertsIInv'
  <2>1. LoopClosesOnce'
    BY <1>1, <1>2, <1>3 DEF AssertsIInv, LoopClosesOnce, RemoteCloses, Up,
       DownsAndState
  <2>2. ReadsWhileUp'
    BY <1>1, <1>2, <1>3 DEF AssertsIInv, ReadsWhileUp, Up, DownsAndState
  <2>3. OnListIsUp'
    BY <1>1, <1>2, <1>3 DEF AssertsIInv, OnListIsUp, RemoteCloses, Up
  <2>4. QuietWhenDown'
    BY <1>1, <1>2, <1>3 DEF Types, TypeOK, Up, EstablishedFirst, DownsAndState,
       RemoteCloses, AssertsIInv, QuietWhenDown, LoopClosesOnce
  <2>5. DestroyedIsDown'
    BY <1>1, <1>2, <1>3 DEF AssertsIInv, DestroyedIsDown
  <2>6. UndoneIsClosed'
    BY <1>1, <1>2, <1>3 DEF AssertsIInv, UndoneIsClosed
  <2>7. AssertsHold'
    BY <1>1, <1>2, <1>3 DEF AssertsIInv, AssertsHold, Exposed, RemoteCloses
  <2>8. (failed = "none" => OutOfMap)'
    BY <1>1, <1>2, <1>3 DEF AssertsIInv, OutOfMap
  <2>9. (failed = "none" => OutOfPoller)'
    BY <1>1, <1>2, <1>3 DEF Types, TypeOK, Up, EstablishedFirst, DownsAndState,
       RemoteCloses, AssertsIInv, OutOfMap, OutOfPoller, CallsAreUses
  <2> QED BY <2>1, <2>2, <2>3, <2>4, <2>5, <2>6, <2>7, <2>8, <2>9 DEF AssertsIInv
<1> QED BY <1>4, <1>5, <1>6, <1>7

LEMMA StopReadStep ==
  ASSUME ConnIInv, StopRead
  PROVE  ConnIInv'
<1> USE DEF ConnIInv, Running
<1>1. /\ events' = events \ {"R"} /\ reading' = FALSE
      /\ index' \in {kAdded, kDeleted} /\ (events' # {} => index' = kAdded)
      /\ state # kConnecting /\ failed = "none" /\ use.reads # {}
      /\ state = kDisconnected => "down" \in use.reads
      /\ UNCHANGED <<state, output, wire, fin, peer, functors, removals, inMap, serverUp,
                      sharedLoop, use, delayed, rc, failed, sends, accepted, dropped, downs,
                      dead>>
  BY DEF StopRead, Established, MayCallRead, Update, sock, srv, setup, hist
<1>2. events' \subseteq {"R", "W"} /\ ("W" \in events' <=> "W" \in events)
  BY <1>1 DEF Types, TypeOK
<1>3. reading' \in BOOLEAN
  BY <1>1
<1> USE DEF isReading, isWriting
<1>4. Types'
  <2>1. (\A i \in DOMAIN functors : functors[i].op \in Ops)'
    BY <1>1, <1>2, <1>3, FunctorOps DEF Types
  <2> QED BY <1>1, <1>2, <1>3, <2>1 DEF Types, TypeOK
<1>5. (CallsAreUses /\ EstablishedFirst /\ DownsAndState)'
  <2>1. CallsAreUses'
    BY <1>1, <1>2, <1>3 DEF CallsAreUses
  <2>2. EstablishedFirst'
    BY <1>1, <1>2, <1>3 DEF EstablishedFirst, Up
  <2>3. DownsAndState'
    BY <1>1, <1>2, <1>3 DEF DownsAndState, EstablishedFirst, Types, TypeOK, Up
  <2> QED BY <2>1, <2>2, <2>3
<1>6. OutputIInv'
  BY <1>1, <1>2, <1>3, <1>4 DEF OutputIInv, OutputInv, WritingIffPending, FinAfterData,
     StreamIntact,
         Types, TypeOK, Up, EstablishedFirst, DownsAndState
<1>7. AssertsIInv'
  <2>1. LoopClosesOnce'
    BY <1>1, <1>2, <1>3 DEF AssertsIInv, LoopClosesOnce, RemoteCloses, Up,
       DownsAndState
  <2>2. ReadsWhileUp'
    BY <1>1, <1>2, <1>3 DEF AssertsIInv, ReadsWhileUp, Up, DownsAndState
  <2>3. OnListIsUp'
    BY <1>1, <1>2, <1>3 DEF AssertsIInv, OnListIsUp, RemoteCloses, Up
  <2>4. QuietWhenDown'
    BY <1>1, <1>2, <1>3 DEF AssertsIInv, QuietWhenDown, RemoteCloses
  <2>5. DestroyedIsDown'
    BY <1>1, <1>2, <1>3 DEF AssertsIInv, DestroyedIsDown
  <2>6. UndoneIsClosed'
    BY <1>1, <1>2, <1>3 DEF AssertsIInv, UndoneIsClosed
  <2>7. AssertsHold'
    BY <1>1, <1>2, <1>3 DEF AssertsIInv, AssertsHold, Exposed, RemoteCloses
  <2>8. (failed = "none" => OutOfMap)'
    BY <1>1, <1>2, <1>3 DEF AssertsIInv, OutOfMap
  <2>9. (failed = "none" => OutOfPoller)'
    BY <1>1, <1>2, <1>3 DEF Types, TypeOK, Up, EstablishedFirst, DownsAndState,
       RemoteCloses, AssertsIInv, OutOfMap, OutOfPoller, CallsAreUses
  <2> QED BY <2>1, <2>2, <2>3, <2>4, <2>5, <2>6, <2>7, <2>8, <2>9 DEF AssertsIInv
<1> QED BY <1>4, <1>5, <1>6, <1>7

-----------------------------------------------------------------------------
(* Other threads *)

LEMMA RemoteTestStep ==
  ASSUME ConnIInv, NEW t \in Threads, NEW c \in use.remote, RemoteTest(t, c)
  PROVE  ConnIInv'
<1> USE DEF ConnIInv, Running
<1> DEFINE at == IF c = "send" THEN "push" ELSE "store"
<1>1. /\ failed = "none" /\ rc[t] = NoCall /\ state # kConnecting
      /\ c = "send" => sends < MaxSends
      /\ rc' = [rc EXCEPT ![t] = [call |-> c, at |-> at, msg |-> sends + 1]]
      /\ sends' = IF c = "send" THEN sends + 1 ELSE sends
      /\ UNCHANGED <<state, reading, events, index, output, wire, fin, peer, functors,
                      removals, inMap, serverUp, sharedLoop, use, delayed, failed, accepted,
                      dropped, downs, dead>>
  BY DEF RemoteTest, chan, sock, srv, setup
<1>2. c \in {"send", "shutdown", "forceClose"}
  BY DEF Types, Use
<1>3. sends \in Nat /\ sends' \in 0..MaxSends
  BY <1>1, ConnConstants DEF Types, TypeOK
<1>4. rc' \in [Threads -> Calls]
  BY <1>1, <1>2, <1>3 DEF Types, Calls
<1>5. \A u \in Threads : rc'[u].at \in {"idle", "store", "push", "done"}
  BY <1>4 DEF Calls
<1>6. /\ rc'[t].call = c /\ rc'[t].at = at
      /\ \A u \in Threads : u # t => rc'[u] = rc[u]
      /\ rc[t].at # "push"
  BY <1>1 DEF Types, NoCall
<1> HIDE DEF at
<1>7. at # "idle" /\ (c = "send" => at = "push")
  BY DEF at
<1>8. CallsAreUses'
  BY <1>1, <1>6, <1>7 DEF CallsAreUses
<1> USE DEF isReading, isWriting
<1>9. UndoneIsClosed'
  BY <1>1, <1>6 DEF AssertsIInv, UndoneIsClosed
<1>10. UNCHANGED <<state, reading, events, index, output, wire, fin, peer, functors, removals,
                   inMap, serverUp, sharedLoop, use, delayed, failed, accepted, dropped, downs,
                   dead>>
  BY <1>1
<1>11. Types'
  BY <1>3, <1>4, <1>5, <1>8, <1>9, <1>10 DEF Types, TypeOK
<1>12. (CallsAreUses /\ EstablishedFirst /\ DownsAndState)'
  BY <1>1, <1>3, <1>4, <1>5, <1>8, <1>9, <1>10 DEF EstablishedFirst, DownsAndState, Types,
     TypeOK
<1>13. OutputIInv'
  BY <1>3, <1>4, <1>5, <1>8, <1>9, <1>10, <1>11 DEF OutputIInv, OutputInv,
     WritingIffPending, FinAfterData, StreamIntact,
         Types, TypeOK, Up, DownsAndState, EstablishedFirst
<1>14. AssertsIInv'
  BY <1>3, <1>4, <1>5, <1>8, <1>9, <1>10, ZenonT(60) DEF AssertsIInv, LoopClosesOnce, ReadsWhileUp,
     OnListIsUp, QuietWhenDown,
         DestroyedIsDown, OutOfMap, OutOfPoller, AssertsHold,
         RemoteCloses, Exposed, Types, TypeOK, Up, EstablishedFirst, DownsAndState
<1> QED BY <1>11, <1>12, <1>13, <1>14

\* The store of a shutdown or a forceClose, whatever happened since its test.
LEMMA RemoteStoreStep ==
  ASSUME ConnIInv, NEW t \in Threads, RemoteStore(t)
  PROVE  ConnIInv'
<1> USE DEF ConnIInv, Running
<1>1. /\ failed = "none" /\ ~dead /\ rc[t].at = "store" /\ state' = kDisconnecting
      /\ rc' = [rc EXCEPT ![t].at = "push"]
      /\ UNCHANGED <<reading, events, index, output, wire, fin, peer, functors, removals,
                      inMap, serverUp, sharedLoop, use, delayed, failed, sends, accepted,
                      dropped, downs, dead>>
  BY DEF RemoteStore, chan, sock, srv, setup, hist
<1>2. rc[t] # NoCall
  BY <1>1 DEF NoCall
<1>3. /\ rc[t].call \in use.remote /\ rc[t].call # "send"
      /\ use.remote \subseteq {"send", "shutdown", "forceClose"}
  BY <1>1, <1>2 DEF CallsAreUses, Types, Use
<1>4. RemoteCloses /\ ("shutdown" \notin use.remote => rc[t].call = "forceClose")
  BY <1>3 DEF RemoteCloses
<1>5. rc' \in [Threads -> Calls]
  BY <1>1 DEF Types, Calls
<1>6. \A u \in Threads : rc'[u].at \in {"idle", "store", "push", "done"}
  BY <1>5 DEF Calls
<1>7. /\ rc'[t].call = rc[t].call /\ rc'[t].at = "push"
      /\ \A u \in Threads : u # t => rc'[u] = rc[u]
  BY <1>1 DEF Types, Calls
<1>8. state # kConnecting
  BY <1>2 DEF EstablishedFirst
<1>9. CallsAreUses' /\ UndoneIsClosed'
  BY <1>1, <1>3, <1>4, <1>7 DEF CallsAreUses, UndoneIsClosed
<1>10. /\ state' = kDisconnecting /\ RemoteCloses' /\ ~dead
       /\ UNCHANGED <<reading, events, index, output, wire, fin, peer, functors, removals,
                       inMap, serverUp, sharedLoop, use, delayed, failed, sends, accepted,
                       dropped, downs, dead>>
  BY <1>1, <1>4 DEF RemoteCloses
<1> USE DEF isReading, isWriting
<1>11. Types'
  BY <1>4, <1>5, <1>6, <1>8, <1>9, <1>10 DEF Types, TypeOK
<1>12. (CallsAreUses /\ EstablishedFirst /\ DownsAndState)'
  BY <1>4, <1>5, <1>6, <1>8, <1>9, <1>10 DEF EstablishedFirst, DownsAndState, Types, TypeOK
<1>13. OutputIInv'
  BY <1>4, <1>5, <1>6, <1>8, <1>9, <1>10, <1>11 DEF OutputIInv, OutputInv,
     WritingIffPending, FinAfterData, StreamIntact,
         Types, TypeOK, Up, DownsAndState, EstablishedFirst
<1>14. AssertsIInv'
  <2>1. LoopClosesOnce' /\ OnListIsUp'
    BY <1>10 DEF LoopClosesOnce, OnListIsUp
  <2>2. ReadsWhileUp'
    BY <1>8, <1>10 DEF AssertsIInv, ReadsWhileUp, Up, DownsAndState, Types, TypeOK
  <2>3. QuietWhenDown' /\ DestroyedIsDown' /\ AssertsHold'
    BY <1>10 DEF AssertsIInv, QuietWhenDown, DestroyedIsDown, AssertsHold, RemoteCloses,
       Exposed
  <2>4. (failed = "none" => OutOfMap /\ OutOfPoller)'
    BY <1>10 DEF AssertsIInv, OutOfMap, OutOfPoller
  <2> QED BY <1>9, <2>1, <2>2, <2>3, <2>4 DEF AssertsIInv
<1> QED BY <1>11, <1>12, <1>13, <1>14

\* The functor of a call is queued.
LEMMA RemotePushStep ==
  ASSUME ConnIInv, NEW t \in Threads, NEW n \in Lens, RemotePush(t, n)
  PROVE  ConnIInv'
<1> USE DEF ConnIInv, Running
<1> DEFINE c == rc[t].call
           f == [op |-> c, data |-> IF c = "send" THEN Message(rc[t].msg, n) ELSE <<>>]
           r == IF c = "send" THEN NoCall ELSE [rc[t] EXCEPT !.at = "done"]
<1>1. /\ failed = "none" /\ rc[t].at = "push"
      /\ functors' = Append(functors, f) /\ rc' = [rc EXCEPT ![t] = r]
      /\ UNCHANGED <<state, reading, events, index, output, wire, fin, peer, removals,
                      inMap, serverUp, sharedLoop, use, delayed, failed, sends, accepted,
                      dropped, downs, dead>>
  BY DEF RemotePush, chan, sock, srv, setup, hist
<1>2. rc[t] # NoCall /\ rc[t] \in Calls
  BY <1>1 DEF NoCall, Types
<1>3. c \in use.remote /\ c \in {"send", "shutdown", "forceClose"}
  BY <1>2 DEF CallsAreUses, Types, Use
<1>4. f \in Functor /\ f.op = c
  <2>1. rc[t].msg \in Nat /\ n \in Nat
    BY <1>2, ConnConstants DEF Calls
  <2>2. f.data \in Seq(Nat)
    <3>1. CASE c = "send"
      BY <2>1, <3>1, MessageType
    <3>2. CASE c # "send"
      BY <3>2
    <3> QED BY <3>1, <3>2
  <2> QED BY <1>3, <2>2 DEF Functor, Ops
<1>5. r \in Calls /\ (r = NoCall \/ (r.call = c /\ r.at = "done" /\ c # "send"))
  <2>1. CASE c = "send"
    BY <2>1 DEF Calls, NoCall
  <2>2. CASE c # "send"
    BY <1>2, <2>2 DEF Calls
  <2> QED BY <2>1, <2>2
<1> HIDE DEF f, r
<1>6. /\ functors' \in Seq(Functor)
      /\ \A m : Has(functors', m) <=> Has(functors, m) \/ m = c
  BY <1>1, <1>4, AppendHas DEF Types
<1>7. rc' \in [Threads -> Calls] /\ rc'[t] = r /\ \A u \in Threads : u # t => rc'[u] = rc[u]
  BY <1>1, <1>5 DEF Types
<1>8. \A u \in Threads : rc'[u].at \in {"idle", "store", "push", "done"}
  BY <1>7 DEF Calls
<1>9. state # kConnecting
  BY <1>2 DEF EstablishedFirst
<1>10. CallsAreUses'
  BY <1>1, <1>3, <1>5, <1>6, <1>7 DEF CallsAreUses
<1>11. UndoneIsClosed'
  BY <1>1, <1>6, <1>7 DEF AssertsIInv, UndoneIsClosed
<1>12. /\ functors' \in Seq(Functor) /\ \A i \in DOMAIN functors' : functors'[i].op \in Ops
       /\ Has(functors', "destroyed") <=> Has(functors, "destroyed")
       /\ Has(functors', "established") <=> Has(functors, "established")
  BY <1>3, <1>6, FunctorOps
<1>13. UNCHANGED <<state, reading, events, index, output, wire, fin, peer, removals, inMap,
                   serverUp, sharedLoop, use, delayed, failed, sends, accepted, dropped, downs,
                   dead>>
  BY <1>1
<1> USE DEF isReading, isWriting
<1>14. Types'
  BY <1>7, <1>8, <1>9, <1>10, <1>11, <1>12, <1>13 DEF Types, TypeOK
<1>15. (CallsAreUses /\ EstablishedFirst /\ DownsAndState)'
  BY <1>7, <1>8, <1>9, <1>10, <1>11, <1>12, <1>13 DEF EstablishedFirst, DownsAndState,
     Types, TypeOK
<1>16. OutputIInv'
  BY <1>7, <1>8, <1>9, <1>10, <1>11, <1>12, <1>13, <1>14 DEF OutputIInv, OutputInv,
     WritingIffPending, FinAfterData, StreamIntact,
         Types, TypeOK, Up, DownsAndState, EstablishedFirst
<1>17. AssertsIInv'
  BY <1>7, <1>8, <1>9, <1>10, <1>11, <1>12, <1>13, ZenonT(60) DEF AssertsIInv, LoopClosesOnce,
     ReadsWhileUp, OnListIsUp, QuietWhenDown,
         DestroyedIsDown, OutOfMap, OutOfPoller, AssertsHold,
         RemoteCloses, Exposed, Types, TypeOK, Up, EstablishedFirst, DownsAndState
<1> QED BY <1>14, <1>15, <1>16, <1>17

-----------------------------------------------------------------------------
(* The end *)

LEMMA ServerDestroyedStep ==
  ASSUME ConnIInv, ServerDestroyed
  PROVE  ConnIInv'
<1> USE DEF ConnIInv, Running
<1>1. /\ failed = "none" /\ use.dies /\ serverUp' = FALSE /\ inMap' = FALSE
      /\ sharedLoop => state # kConnecting
      /\ UNCHANGED <<removals, sharedLoop, use>>
  BY DEF ServerDestroyed, setup
<1>2. CASE /\ ~inMap
           /\ UNCHANGED <<state, chan, output, sock, functors, delayed, rc, failed, sends,
                           hist>>
  <2>1. UNCHANGED <<state, reading, events, index, output, wire, fin, peer, functors, removals,
                    inMap, sharedLoop, use, delayed, rc, failed, sends, accepted, dropped,
                    downs, dead>>
    BY <1>1, <1>2 DEF chan, sock, hist, Types, TypeOK
  <2>2. serverUp' \in BOOLEAN /\ ~serverUp' /\ ~inMap'
    BY <1>1
  <2> USE DEF isReading, isWriting
  <2>3. Types'
    <3>1. (\A i \in DOMAIN functors : functors[i].op \in Ops)'
      BY <1>1, <2>1, <2>2, FunctorOps DEF Types
    <3> QED BY <1>1, <2>1, <2>2, <3>1 DEF Types, TypeOK
  <2>4. (CallsAreUses /\ EstablishedFirst /\ DownsAndState)'
    <3>1. CallsAreUses'
      BY <1>1, <2>1, <2>2 DEF CallsAreUses
    <3>2. EstablishedFirst'
      BY <1>1, <2>1, <2>2 DEF EstablishedFirst, Up
    <3>3. DownsAndState'
      BY <1>1, <2>1, <2>2 DEF DownsAndState, EstablishedFirst, Types, TypeOK, Up
    <3> QED BY <3>1, <3>2, <3>3
  <2>5. OutputIInv'
    BY <1>1, <2>1, <2>2, <2>3 DEF OutputIInv, OutputInv, WritingIffPending, FinAfterData,
       StreamIntact,
           Types, TypeOK, Up, EstablishedFirst, DownsAndState
  <2>6. AssertsIInv'
    <3>1. LoopClosesOnce'
      BY <1>1, <2>1, <2>2 DEF AssertsIInv, LoopClosesOnce, RemoteCloses, Up,
         DownsAndState
    <3>2. ReadsWhileUp'
      BY <1>1, <2>1, <2>2 DEF AssertsIInv, ReadsWhileUp, Up, DownsAndState
    <3>3. OnListIsUp'
      BY <1>1, <2>1, <2>2 DEF AssertsIInv, OnListIsUp, RemoteCloses, Up
    <3>4. QuietWhenDown'
      BY <1>1, <2>1, <2>2 DEF AssertsIInv, QuietWhenDown, RemoteCloses
    <3>5. DestroyedIsDown'
      BY <1>1, <2>1, <2>2 DEF AssertsIInv, DestroyedIsDown
    <3>6. UndoneIsClosed'
      BY <1>1, <2>1, <2>2 DEF AssertsIInv, UndoneIsClosed
    <3>7. AssertsHold'
      BY <1>1, <2>1, <2>2 DEF AssertsIInv, AssertsHold, Exposed, RemoteCloses
    <3>8. (failed = "none" => OutOfMap)'
      BY <1>1, <2>1, <2>2 DEF AssertsIInv, OutOfMap
    <3>9. (failed = "none" => OutOfPoller)'
      BY <1>1, <2>1, <2>2 DEF AssertsIInv, OutOfPoller
    <3> QED BY <3>1, <3>2, <3>3, <3>4, <3>5, <3>6, <3>7, <3>8, <3>9 DEF AssertsIInv
  <2> QED BY <2>3, <2>4, <2>5, <2>6
<1>3. CASE inMap /\ sharedLoop /\ ConnectDestroyed(functors)
  BY <1>1, <1>3, ConnectDestroyedStep DEF ServerDestroyed, Types
<1>4. CASE /\ inMap /\ ~sharedLoop
           /\ functors' = Append(functors, [op |-> "destroyed"])
           /\ UNCHANGED <<state, chan, output, sock, delayed, rc, failed, sends, hist>>
  <2>1. /\ functors' = Append(functors, [op |-> "destroyed"])
        /\ UNCHANGED <<state, reading, events, index, output, wire, fin, peer, removals,
                        sharedLoop, use, delayed, rc, failed, sends, accepted, dropped,
                        downs, dead>>
    BY <1>1, <1>4 DEF chan, sock, hist
  <2>2. /\ functors' \in Seq(Functor)
        /\ \A n : Has(functors', n) <=> Has(functors, n) \/ n = "destroyed"
        /\ functors # <<>> /\ OnlyDestroyed(Tail(functors)) =>
             /\ functors' # <<>> /\ Head(functors') = Head(functors)
             /\ OnlyDestroyed(Tail(functors'))
    <3>1. [op |-> "destroyed"] \in Functor
      BY PlainFunctor DEF Ops
    <3> QED BY <2>1, <3>1, AppendHas, WaitingAppend DEF Types
  <2>3. serverUp' \in BOOLEAN /\ ~serverUp' /\ inMap' \in BOOLEAN
    BY <1>1
  <2> USE DEF isReading, isWriting
  <2>4. Types'
    <3>1. (\A i \in DOMAIN functors : functors[i].op \in Ops)'
      BY <1>1, <2>1, <2>2, <2>3, FunctorOps DEF Types
    <3> QED BY <1>1, <2>1, <2>2, <2>3, <3>1 DEF Types, TypeOK
  <2>5. (CallsAreUses /\ EstablishedFirst /\ DownsAndState)'
    <3>1. CallsAreUses'
      BY <1>1, <2>1, <2>2, <2>3 DEF CallsAreUses
    <3>2. EstablishedFirst'
      BY <1>1, <2>1, <2>2, <2>3 DEF EstablishedFirst, Up
    <3>3. DownsAndState'
      BY <1>1, <2>1, <2>2, <2>3 DEF DownsAndState, EstablishedFirst, Types, TypeOK, Up
    <3> QED BY <3>1, <3>2, <3>3
  <2>6. OutputIInv'
    BY <1>1, <2>1, <2>2, <2>3, <2>4 DEF OutputIInv, OutputInv, WritingIffPending,
       FinAfterData, StreamIntact,
           Types, TypeOK, Up, EstablishedFirst, DownsAndState
  <2>7. AssertsIInv'
    <3>1. LoopClosesOnce'
      BY <1>1, <2>1, <2>2, <2>3 DEF AssertsIInv, LoopClosesOnce, RemoteCloses, Up,
         DownsAndState
    <3>2. ReadsWhileUp'
      BY <1>1, <2>1, <2>2, <2>3 DEF AssertsIInv, ReadsWhileUp, Up, DownsAndState
    <3>3. OnListIsUp'
      BY <1>1, <2>1, <2>2, <2>3 DEF AssertsIInv, OnListIsUp, RemoteCloses, Up
    <3>4. QuietWhenDown'
      BY <1>1, <2>1, <2>2, <2>3 DEF AssertsIInv, QuietWhenDown, RemoteCloses
    <3>5. DestroyedIsDown'
      BY <1>1, <2>1, <2>2, <2>3 DEF AssertsIInv, DestroyedIsDown
    <3>6. UndoneIsClosed'
      BY <1>1, <2>1, <2>2, <2>3 DEF AssertsIInv, UndoneIsClosed
    <3>7. AssertsHold'
      BY <1>1, <2>1, <2>2, <2>3 DEF AssertsIInv, AssertsHold, Exposed, RemoteCloses
    <3>8. (failed = "none" => OutOfMap)'
      BY <1>1, <2>1, <2>2, <2>3 DEF AssertsIInv, OutOfMap
    <3>9. (failed = "none" => OutOfPoller)'
      BY <1>1, <2>1, <2>2, <2>3 DEF AssertsIInv, OutOfPoller
    <3> QED BY <3>1, <3>2, <3>3, <3>4, <3>5, <3>6, <3>7, <3>8, <3>9 DEF AssertsIInv
  <2> QED BY <2>4, <2>5, <2>6, <2>7
<1> QED BY <1>2, <1>3, <1>4 DEF ServerDestroyed

\* The last TcpConnectionPtr goes: a connection that may be destroyed has been down
\* and is out of the poller.
LEMMA DestroyStep ==
  ASSUME ConnIInv, Destroy
  PROVE  ConnIInv'
<1> USE DEF ConnIInv, Running
<1>1. /\ failed = "none" /\ ~inMap /\ functors = <<>> /\ removals = 0
      /\ \A t \in Threads : rc[t].at \in {"idle", "done"}
  BY DEF Destroy
<1>2. \A n : ~Has(functors, n)
  BY <1>1, HasEmpty
<1>3. CASE (state # kDisconnected \/ addedToLoop) /\ Fail("destructor")
  <2>1. Exposed("destructor")
    <3>1. SUFFICES ASSUME "shutdown" \notin use.remote, "down" \notin use.reads,
                          ~(use.dies /\ use.reads # {})
                   PROVE  state = kDisconnected /\ index = kNew
      BY <1>3 DEF Exposed, addedToLoop
    <3>2. downs > 0 /\ state # kConnecting
      BY <1>1, <1>2, <3>1 DEF AssertsIInv, OutOfMap, EstablishedFirst
    <3>3. state # kDisconnecting
      BY <1>1, <1>2, <3>1, <3>2 DEF AssertsIInv, UndoneIsClosed
    <3>4. state = kDisconnected
      BY <3>2, <3>3 DEF DownsAndState, Types, TypeOK
    <3> QED BY <1>1, <1>2, <3>1, <3>4 DEF AssertsIInv, OutOfPoller
  <2> QED BY <1>1, <1>3, <2>1, FailStep
<1>4. CASE state = kDisconnected /\ ~addedToLoop
  <2>1. /\ dead' = TRUE
        /\ UNCHANGED <<state, reading, events, index, output, wire, fin, peer, functors,
                        removals, inMap, serverUp, sharedLoop, use, delayed, rc, failed, sends,
                        accepted, dropped, downs>>
    BY <1>4 DEF Destroy, chan, sock, srv, setup
  <2>2. dead' \in BOOLEAN
    BY <2>1
  <2>3. Types'
    BY <1>4, <2>1, <2>2 DEF Types, TypeOK
  <2>4. (CallsAreUses /\ EstablishedFirst /\ DownsAndState)'
    BY <1>4, <2>1, <2>2 DEF CallsAreUses, EstablishedFirst, DownsAndState, Up
  <2>5. OutputIInv'
    BY <1>4, <2>1, <2>2, <2>3 DEF OutputIInv, OutputInv, WritingIffPending, FinAfterData,
       StreamIntact,
           Types, TypeOK, Up, DownsAndState, isWriting
  <2>6. AssertsIInv'
    BY <1>4, <2>1, <2>2 DEF AssertsIInv, LoopClosesOnce, ReadsWhileUp, OnListIsUp,
       QuietWhenDown,
           DestroyedIsDown, OutOfMap, UndoneIsClosed, OutOfPoller, AssertsHold,
           RemoteCloses, Exposed, Types, TypeOK, Up, CallsAreUses,
           DownsAndState, isReading
  <2> QED BY <2>3, <2>4, <2>5, <2>6
<1> QED BY <1>3, <1>4 DEF Destroy

-----------------------------------------------------------------------------
(* The theorems *)

LEMMA NextConnIInv ==
  ConnIInv /\ [Next]_vars => ConnIInv'
<1> SUFFICES ASSUME ConnIInv, [Next]_vars PROVE ConnIInv'
  OBVIOUS
<1>1. CASE UNCHANGED vars
  <2>1. UNCHANGED <<state, reading, events, index, output, wire, fin, peer, functors, removals,
                    inMap, serverUp, sharedLoop, use, delayed, rc, failed, sends, accepted,
                    dropped, downs, dead>>
    BY <1>1 DEF vars, chan, sock, srv, setup, hist
  <2> USE DEF ConnIInv, isReading, isWriting
  <2>2. Types'
    BY <2>1 DEF Types, TypeOK
  <2>3. (CallsAreUses /\ EstablishedFirst /\ DownsAndState)'
    BY <2>1 DEF CallsAreUses, EstablishedFirst, DownsAndState, Up
  <2>4. OutputIInv'
    BY <2>1, <2>2 DEF OutputIInv, OutputInv, WritingIffPending, FinAfterData, StreamIntact,
           Types, TypeOK, Up, DownsAndState, isWriting
  <2>5. AssertsIInv'
    <3>1. (LoopClosesOnce /\ ReadsWhileUp /\ OnListIsUp /\ QuietWhenDown)'
      BY <2>1 DEF AssertsIInv, LoopClosesOnce, ReadsWhileUp, OnListIsUp, QuietWhenDown,
                  RemoteCloses, Up
    <3>2. (DestroyedIsDown /\ UndoneIsClosed /\ AssertsHold)'
      BY <2>1 DEF AssertsIInv, DestroyedIsDown, UndoneIsClosed, AssertsHold, Exposed,
                  RemoteCloses
    <3>3. (failed = "none" => OutOfMap /\ OutOfPoller)'
      BY <2>1 DEF AssertsIInv, OutOfMap, OutOfPoller
    <3> QED BY <3>1, <3>2, <3>3 DEF AssertsIInv
  <2> QED BY <2>2, <2>3, <2>4, <2>5
<1>2. CASE LoopStep
  BY <1>2, RunFunctorStep, HandleReadEofStep DEF LoopStep
<1>3. CASE UserStep
  BY <1>3, SendStep, ShutdownStep, ForceCloseStep, ForceCloseWithDelayStep, StartReadStep,
     StopReadStep DEF UserStep
<1>4. CASE HandleWrite \/ RemoveConnectionInLoop \/ DelayExpires
  BY <1>4, HandleWriteStep, RemoveConnectionStep, DelayExpiresStep
<1>5. CASE PeerCloses \/ ServerDestroyed \/ Destroy
  BY <1>5, PeerClosesStep, ServerDestroyedStep, DestroyStep
<1>6. ASSUME NEW t \in Threads, RemoteStep(t) PROVE ConnIInv'
  BY <1>6, RemoteTestStep, RemoteStoreStep, RemotePushStep DEF RemoteStep, RemoteGoesOn
<1> QED BY <1>1, <1>2, <1>3, <1>4, <1>5, <1>6 DEF Next

\* The inductive invariant holds in every state of a connection, from newConnection
\* to its destructor.
THEOREM ConnIInvHolds == Spec => []ConnIInv
BY InitConnIInv, NextConnIInv, PTL DEF Spec

\* While a connection is up, POLLOUT is asked for exactly while bytes wait in
\* outputBuffer_, and the write side is never shut before they are out, however
\* sends, shutdowns and partial writes interleave.
THEOREM OutputCorrect == Spec => []OutputInv
<1>1. ConnIInv => OutputInv
  BY DEF ConnIInv, OutputIInv
<1> QED BY <1>1, ConnIInvHolds, PTL

\* Until a write fails, the kernel and outputBuffer_ together hold the accepted
\* messages, in order and whole: sendInLoop never writes past waiting bytes.
THEOREM StreamStaysIntact == Spec => []StreamIntact
<1>1. ConnIInv => StreamIntact
  BY DEF ConnIInv, OutputIInv
<1> QED BY <1>1, ConnIInvHolds, PTL

\* A program that closes connections in their loop sees one down callback per
\* connection, and sees it before the destructor.
THEOREM GoesDownOnce == Spec => []DownOnce
<1>1. ConnIInv => DownOnce
  <2> SUFFICES ASSUME ConnIInv, use.remote \subseteq {"send"}
               PROVE  downs <= 1 /\ (dead => downs = 1)
    BY DEF DownOnce
  <2>1. ~RemoteCloses
    BY DEF RemoteCloses
  <2> QED BY <2>1 DEF ConnIInv, Types, TypeOK, DownsAndState, AssertsIInv, LoopClosesOnce
<1> QED BY <1>1, ConnIInvHolds, PTL

\* No use of a connection fails an assert it is not exposed to; in particular a
\* program that closes connections in their loop, leaves reading alone and keeps
\* its server fails none.
THEOREM AssertsAlwaysHold == Spec => []AssertsHold
<1>1. ConnIInv => AssertsHold
  BY DEF ConnIInv, AssertsIInv
<1> QED BY <1>1, ConnIInvHolds, PTL
=============================================================================
