-------------------------- MODULE TcpServerProofs --------------------------
(***************************************************************************)
(* Proofs about TcpServer: the ownership of descriptors and the stages of  *)
(* connections (ServerInv), the distribution over the loops (RoundRobin)   *)
(* and the asserts (ServerAssertsHold), for any number of clients, threads *)
(* and descriptors.                                                        *)
(*                                                                         *)
(* StagesInTurn speaks of a server that is there; its asserts must hold    *)
(* through ~TcpServer too.  ServerIInv therefore says, for each connection *)
(* and at any time, which functors are on their way in which queue, in     *)
(* which order, and that a connection that is alive is pointed to.         *)
(***************************************************************************)
EXTENDS TcpServer, FiniteSetTheorems, SequenceTheorems, WellFoundedInduction, TLAPS

-----------------------------------------------------------------------------
(* The functors in the queues *)

Ops == {"established", "destroyed", "removal"}

Fn(op, c) == [op |-> op, c |-> c]

Has(q, f) == \E i \in DOMAIN q : q[i] = f

Once(q, f) == \A i, j \in DOMAIN q : q[i] = f /\ q[j] = f => i = j

Before(q, f, g) == \A i, j \in DOMAIN q : q[i] = f /\ q[j] = g => i < j

Queues == [Loops -> Seq(Functors)]

\* No functor is in a queue twice, and a connection is established before it is
\* destroyed.
InOrder(q) ==
  \A l \in Loops, c \in Conns :
    /\ \A op \in Ops : Once(q[l], Fn(op, c))
    /\ Before(q[l], Fn("established", c), Fn("destroyed", c))

-----------------------------------------------------------------------------
(* The inductive invariant *)

\* The functors of a connection: those that establish and destroy it are in the
\* queue of its loop; the removal from the map is in loop 0's.
In(l, op, c) == Has(functors[l], Fn(op, c))

Est(c) == In(loopOf[c], "established", c)
Des(c) == In(loopOf[c], "destroyed", c)
Rem(c) == In(Base, "removal", c)

Placed ==
  \A l \in Loops, c \in Conns :
    /\ In(l, "established", c) => l = loopOf[c] /\ l # Base
    /\ In(l, "destroyed", c) => l = loopOf[c]
    /\ In(l, "removal", c) => l = Base /\ loopOf[c] # Base

\* Somebody points to the connection.
Ref(c) == c \in connections \/ \E l \in Loops, op \in Ops : In(l, op, c)

Types ==
  /\ TypeOK
  /\ functors \in Queues /\ batch \in [IoLoops -> Nat]

\* The pool and the numbers of the connections.
Numbers ==
  /\ ~started => loopsSize = 0 /\ next = 0 /\ nextConnId = 1 /\ ~listenning
  /\ nextConnId + backlog <= arrived + 1
  /\ \A c \in Conns : stage[c] = "none" <=> c >= nextConnId
  /\ \A c \in Conns : c < nextConnId =>
       IF loopsSize = 0 THEN loopOf[c] = Base ELSE loopOf[c] \in 1..loopsSize

\* ~TcpServer: threads are quit after the map is empty, joined in turn, and leave
\* an empty queue.
Ending == pc \in {"quit", "join", "gone"}

EndInTurn ==
  /\ Ending => connections = {}
  /\ \A l \in IoLoops : quit[l] => Ending
  /\ \A l \in IoLoops : phase[l] = "exited" => quit[l] /\ functors[l] = <<>>
  /\ Ending => joining > 0 /\ \A l \in IoLoops : l < joining => phase[l] = "exited"
  /\ pc = "join" => joining <= loopsSize
  /\ pc = "gone" => joining > loopsSize

\* What is on its way for a connection, by its stage.
StageOf(c) ==
  /\ stage[c] \in {"none", "dead"} => ~Est(c) /\ ~Des(c) /\ ~Rem(c) /\ c \notin connections
  /\ stage[c] = "connecting" <=> Est(c)
  /\ stage[c] = "connecting" => ~Rem(c) /\ (c \in connections \/ Des(c))
  /\ stage[c] \in Up => ~Rem(c) /\ (c \in connections \/ (Des(c) /\ loopOf[c] # Base))
  /\ stage[c] \in Down => Rem(c) \/ Des(c)
  /\ stage[c] \in Down /\ c \in connections => Rem(c)
  /\ stage[c] = "destroyed" => Rem(c) /\ ~Des(c) /\ c \notin connections
  /\ c \in connections => ~Des(c)
  /\ Serving => (Rem(c) => c \in connections) /\ (Des(c) => stage[c] \in Down /\ ~Rem(c))

StagesOf == Running => \A c \in Conns : StageOf(c)

\* The EMFILE branch has no reserved descriptor, the others are owned.
Descriptors ==
  /\ pc \in {"refuse", "reopen"} => idleFd = NoFd
  /\ OneOwner

\* Loads differ by the connections that the current round has handed out.
Rounds ==
  loopsSize > 0 =>
    /\ Load(Base) = 0
    /\ \E k \in Nat : \A l \in 1..loopsSize : Load(l) = IF l <= next THEN k + 1 ELSE k

ServerIInv ==
  /\ Types /\ Numbers /\ InOrder(functors) /\ Placed /\ EndInTurn /\ StagesOf /\ Descriptors /\ FailsAsNamed

-----------------------------------------------------------------------------
(* Facts about the queues *)

USE DEF Base, Up, Down

LEMMA FnFacts ==
  ASSUME NEW a, NEW b, NEW c, NEW d
  PROVE  Fn(a, c) = Fn(b, d) <=> a = b /\ c = d
BY DEF Fn

LEMMA FnIsFunctor ==
  /\ \A op \in Ops, c \in Conns : Fn(op, c) \in Functors
  /\ \A f \in Functors : f.op \in Ops /\ f.c \in Conns /\ f = Fn(f.op, f.c)
BY DEF Fn, Functors, Ops

\* queueInLoop: the functor is added, behind those that were there.
LEMMA AppendHas ==
  ASSUME NEW s \in Seq(Functors), NEW f \in Functors
  PROVE  /\ Append(s, f) \in Seq(Functors) /\ Len(Append(s, f)) = Len(s) + 1
         /\ \A g : Has(Append(s, f), g) <=> Has(s, g) \/ g = f
         /\ \A g : Once(s, g) /\ (g = f => ~Has(s, f)) => Once(Append(s, f), g)
         /\ \A g, h : Before(s, g, h) /\ (g = f => ~Has(s, h)) /\ g # h
               => Before(Append(s, f), g, h)
<1> DEFINE t == Append(s, f)
<1>1. /\ t \in Seq(Functors) /\ Len(t) = Len(s) + 1 /\ Len(s) \in Nat
      /\ DOMAIN s = 1..Len(s) /\ DOMAIN t = 1..(Len(s) + 1)
      /\ \A i \in 1..Len(s) : t[i] = s[i]
      /\ t[Len(s) + 1] = f
  OBVIOUS
<1> HIDE DEF t
<1>2. ASSUME NEW g PROVE Has(t, g) <=> Has(s, g) \/ g = f
  <2>1. Has(t, g) => Has(s, g) \/ g = f
    BY <1>1 DEF Has
  <2>2. Has(s, g) => Has(t, g)
    BY <1>1 DEF Has
  <2>3. g = f => Has(t, g)
    BY <1>1 DEF Has
  <2> QED
    BY <2>1, <2>2, <2>3
<1>3. ASSUME NEW g, Once(s, g), g = f => ~Has(s, f) PROVE Once(t, g)
  BY <1>1, <1>3 DEF Once, Has
<1>4. ASSUME NEW g, NEW h, Before(s, g, h), g = f => ~Has(s, h), g # h
      PROVE  Before(t, g, h)
  BY <1>1, <1>4 DEF Before, Has
<1> QED
  BY <1>1, <1>2, <1>3, <1>4 DEF t

LEMMA PushOrder ==
  ASSUME NEW q \in Queues, NEW l \in Loops, NEW op \in Ops, NEW c \in Conns,
         InOrder(q), ~Has(q[l], Fn(op, c)),
         op = "established" => ~Has(q[l], Fn("destroyed", c))
  PROVE  /\ Push(q, l, op, c) \in Queues
         /\ InOrder(Push(q, l, op, c))
         /\ \A k \in Loops : Len(Push(q, l, op, c)[k]) >= Len(q[k])
         /\ \A k \in Loops : k # l => Push(q, l, op, c)[k] = q[k]
         /\ \A k \in Loops, o \in Ops, d \in Conns :
              Has(Push(q, l, op, c)[k], Fn(o, d))
                <=> Has(q[k], Fn(o, d)) \/ (k = l /\ o = op /\ d = c)
<1> DEFINE f == Fn(op, c)
           r == Push(q, l, op, c)
           t == Append(q[l], f)
<1>1. f \in Functors /\ q[l] \in Seq(Functors)
  BY FnIsFunctor DEF Queues
<1>2. r = [q EXCEPT ![l] = t]
  BY DEF Push, Fn
<1>3. /\ t \in Seq(Functors) /\ Len(t) = Len(q[l]) + 1 /\ Len(q[l]) \in Nat
      /\ \A g : Has(t, g) <=> Has(q[l], g) \/ g = f
      /\ \A g : Once(q[l], g) /\ (g = f => ~Has(q[l], f)) => Once(t, g)
      /\ \A g, h : Before(q[l], g, h) /\ (g = f => ~Has(q[l], h)) /\ g # h
               => Before(t, g, h)
  BY <1>1, AppendHas
<1> HIDE DEF t, r
<1>4. r \in Queues /\ r[l] = t /\ \A k \in Loops : k # l => r[k] = q[k]
  BY <1>2, <1>3 DEF Queues
<1>5. \A k \in Loops : Len(r[k]) >= Len(q[k])
  <2> SUFFICES ASSUME NEW k \in Loops PROVE Len(r[k]) >= Len(q[k])
    OBVIOUS
  <2>1. q[k] \in Seq(Functors) /\ Len(q[k]) \in Nat
    BY DEF Queues
  <2> QED
    BY <2>1, <1>3, <1>4
<1>6. ASSUME NEW k \in Loops, NEW o \in Ops, NEW d \in Conns
      PROVE  Has(r[k], Fn(o, d)) <=> Has(q[k], Fn(o, d)) \/ (k = l /\ o = op /\ d = c)
  BY <1>3, <1>4, FnFacts
<1>7. ASSUME NEW k \in Loops, NEW d \in Conns
      PROVE  /\ \A o \in Ops : Once(r[k], Fn(o, d))
             /\ Before(r[k], Fn("established", d), Fn("destroyed", d))
  <2>1. /\ \A o \in Ops : Once(q[k], Fn(o, d))
        /\ Before(q[k], Fn("established", d), Fn("destroyed", d))
    BY DEF InOrder
  <2>2. ASSUME k = l, NEW o \in Ops PROVE Once(r[k], Fn(o, d))
    BY <2>1, <2>2, <1>3, <1>4
  <2>3. Fn("established", d) # Fn("destroyed", d)
    BY FnFacts
  <2>4. Fn("established", d) = f => ~Has(q[l], Fn("destroyed", d))
    BY FnFacts
  <2>5. CASE k = l
    BY <2>1, <2>2, <2>3, <2>4, <2>5, <1>3, <1>4
  <2>6. CASE k # l
    BY <2>1, <2>6, <1>4
  <2> QED
    BY <2>5, <2>6
<1> QED
  BY <1>4, <1>5, <1>6, <1>7 DEF InOrder, r

\* doPendingFunctors: the first functor is taken, and it was there once only.
LEMMA TailHas ==
  ASSUME NEW s \in Seq(Functors), s # <<>>
  PROVE  /\ Tail(s) \in Seq(Functors) /\ Len(Tail(s)) = Len(s) - 1
         /\ Head(s) \in Functors /\ Has(s, Head(s))
         /\ \A g : g # Head(s) => (Has(Tail(s), g) <=> Has(s, g))
         /\ Once(s, Head(s)) => ~Has(Tail(s), Head(s))
         /\ \A g : Once(s, g) => Once(Tail(s), g)
         /\ \A g, h : Before(s, g, h) => Before(Tail(s), g, h)
         /\ \A g : Before(s, g, Head(s)) => ~Has(s, g)
<1> DEFINE t == Tail(s)
           f == Head(s)
<1>1. /\ t \in Seq(Functors) /\ Len(t) = Len(s) - 1 /\ Len(s) \in Nat /\ Len(s) >= 1
      /\ DOMAIN s = 1..Len(s) /\ DOMAIN t = 1..(Len(s) - 1)
      /\ \A i \in 1..(Len(s) - 1) : t[i] = s[i + 1]
      /\ s[1] = f /\ f \in Functors
  OBVIOUS
<1> HIDE DEF t, f
<1>2. Has(s, f)
  BY <1>1 DEF Has
<1>3. ASSUME NEW g, g # f PROVE Has(t, g) <=> Has(s, g)
  <2>1. Has(t, g) => Has(s, g)
    BY <1>1 DEF Has
  <2>2. ASSUME Has(s, g) PROVE Has(t, g)
    <3>1. PICK i \in 1..Len(s) : s[i] = g
      BY <2>2, <1>1 DEF Has
    <3>2. i - 1 \in 1..(Len(s) - 1) /\ i = (i - 1) + 1
      BY <3>1, <1>1, <1>3
    <3>3. t[i - 1] = g
      BY <3>1, <3>2, <1>1
    <3> QED
      BY <3>2, <3>3, <1>1 DEF Has
  <2> QED
    BY <2>1, <2>2
<1>4. Once(s, f) => ~Has(t, f)
  BY <1>1 DEF Once, Has
<1>5. ASSUME NEW g, Once(s, g) PROVE Once(t, g)
  BY <1>1, <1>5, SMTT(40) DEF Once
<1>6. ASSUME NEW g, NEW h, Before(s, g, h) PROVE Before(t, g, h)
  <2> SUFFICES ASSUME NEW i \in 1..(Len(s) - 1), NEW j \in 1..(Len(s) - 1), t[i] = g, t[j] = h
               PROVE  i < j
    BY <1>1 DEF Before
  <2>1. i + 1 \in 1..Len(s) /\ j + 1 \in 1..Len(s) /\ s[i + 1] = g /\ s[j + 1] = h
    BY <1>1
  <2>2. i + 1 < j + 1
    BY <2>1, <1>1, <1>6 DEF Before
  <2> QED
    BY <2>2
<1>7. ASSUME NEW g, Before(s, g, f) PROVE ~Has(s, g)
  BY <1>1, <1>7 DEF Before, Has
<1> QED
  BY <1>1, <1>2, <1>3, <1>4, <1>5, <1>6, <1>7 DEF t, f

Pop(q, l) == [q EXCEPT ![l] = Tail(@)]

LEMMA PopOrder ==
  ASSUME NEW q \in Queues, NEW l \in Loops, InOrder(q), q[l] # <<>>,
         NEW r, r = Pop(q, l)
  PROVE  /\ r \in Queues /\ InOrder(r)
         /\ Head(q[l]).op \in Ops /\ Head(q[l]).c \in Conns
         /\ Has(q[l], Fn(Head(q[l]).op, Head(q[l]).c))
         /\ Head(q[l]).op = "destroyed" => ~Has(q[l], Fn("established", Head(q[l]).c))
         /\ Len(r[l]) = Len(q[l]) - 1
         /\ \A k \in Loops : k # l => r[k] = q[k]
         /\ \A k \in Loops, o \in Ops, d \in Conns :
              Has(r[k], Fn(o, d))
                <=> Has(q[k], Fn(o, d)) /\ ~(k = l /\ o = Head(q[l]).op /\ d = Head(q[l]).c)
<1> DEFINE s == q[l]
           f == Head(s)
           t == Tail(s)
<1>1. s \in Seq(Functors) /\ s # <<>>
  BY DEF Queues
<1>2. /\ t \in Seq(Functors) /\ Len(t) = Len(s) - 1
      /\ f \in Functors /\ Has(s, f)
      /\ \A g : g # f => (Has(t, g) <=> Has(s, g))
      /\ Once(s, f) => ~Has(t, f)
      /\ \A g : Once(s, g) => Once(t, g)
      /\ \A g, h : Before(s, g, h) => Before(t, g, h)
      /\ \A g : Before(s, g, f) => ~Has(s, g)
  BY <1>1, TailHas
<1>3. r = [q EXCEPT ![l] = t]
  BY DEF Pop
<1> HIDE DEF f, t
<1>4. r \in Queues /\ r[l] = t /\ \A k \in Loops : k # l => r[k] = q[k]
  BY <1>2, <1>3 DEF Queues
<1>5. f.op \in Ops /\ f.c \in Conns /\ f = Fn(f.op, f.c)
  BY <1>2, FnIsFunctor
<1>6. Once(s, f)
  BY <1>5 DEF InOrder
<1>7. ASSUME f.op = "destroyed" PROVE ~Has(s, Fn("established", f.c))
  <2>1. Before(s, Fn("established", f.c), f)
    BY <1>5, <1>7 DEF InOrder
  <2> QED
    BY <2>1, <1>2
<1>8. ASSUME NEW k \in Loops, NEW o \in Ops, NEW d \in Conns
      PROVE  Has(r[k], Fn(o, d)) <=> Has(q[k], Fn(o, d)) /\ ~(k = l /\ o = f.op /\ d = f.c)
  <2>1. Fn(o, d) = f <=> o = f.op /\ d = f.c
    BY <1>5, FnFacts
  <2>2. CASE k = l
    BY <2>1, <2>2, <1>2, <1>4, <1>6
  <2>3. CASE k # l
    BY <2>3, <1>4
  <2> QED
    BY <2>2, <2>3
<1>9. ASSUME NEW k \in Loops, NEW d \in Conns
      PROVE  /\ \A o \in Ops : Once(r[k], Fn(o, d))
             /\ Before(r[k], Fn("established", d), Fn("destroyed", d))
  <2>1. /\ \A o \in Ops : Once(q[k], Fn(o, d))
        /\ Before(q[k], Fn("established", d), Fn("destroyed", d))
    BY DEF InOrder
  <2>2. CASE k = l
    BY <2>1, <2>2, <1>2, <1>4
  <2>3. CASE k # l
    BY <2>1, <2>3, <1>4
  <2> QED
    BY <2>2, <2>3
<1>10. InOrder(r)
  BY <1>9 DEF InOrder
<1>11. Has(q[l], Fn(f.op, f.c))
  BY <1>2, <1>5
<1> QED
  BY <1>2, <1>4, <1>5, <1>7, <1>8, <1>10, <1>11 DEF f

\* ~EventLoop: a queue is destroyed with what is in it.
LEMMA ClearOrder ==
  ASSUME NEW q \in Queues, NEW l \in Loops, InOrder(q),
         NEW r, r = [q EXCEPT ![l] = <<>>]
  PROVE  /\ r \in Queues /\ InOrder(r) /\ r[l] = <<>>
         /\ \A k \in Loops : k # l => r[k] = q[k]
         /\ \A f : ~Has(r[l], f)
<1>1. r \in Queues /\ r[l] = <<>> /\ \A k \in Loops : k # l => r[k] = q[k]
  BY DEF Queues
<1>2. DOMAIN r[l] = {}
  BY <1>1
<1>3. ASSUME NEW k \in Loops, NEW d \in Conns
      PROVE  /\ \A o \in Ops : Once(r[k], Fn(o, d))
             /\ Before(r[k], Fn("established", d), Fn("destroyed", d))
  <2>1. /\ \A o \in Ops : Once(q[k], Fn(o, d))
        /\ Before(q[k], Fn("established", d), Fn("destroyed", d))
    BY DEF InOrder
  <2>2. CASE k = l
    BY <2>2, <1>2 DEF Once, Before
  <2>3. CASE k # l
    BY <2>1, <2>3, <1>1
  <2> QED
    BY <2>2, <2>3
<1>4. InOrder(r)
  BY <1>3 DEF InOrder
<1>5. \A f : ~Has(r[l], f)
  BY <1>2 DEF Has
<1> QED
  BY <1>1, <1>4, <1>5

-----------------------------------------------------------------------------
(* Descriptors, references and the end of a step *)

\* A set of naturals that is not empty has a least element.
LEMMA LeastNat ==
  ASSUME NEW T \in SUBSET Nat, T # {}
  PROVE  Least(T) \in T
<1> DEFINE R == OpToRel(<, Nat)
<1>1. IsWellFoundedOn(R, Nat)
  BY NatLessThanWellFounded
<1>2. \A x, y \in Nat : x < y => <<x, y>> \in R
  BY DEF OpToRel
<1> HIDE DEF R
<1>3. PICK x \in T : \A y \in T : ~(<<y, x>> \in R)
  BY <1>1, WFMin
<1>4. \A y \in T : y \in Nat /\ x \in Nat /\ ~(y < x)
  BY <1>2, <1>3
<1>5. \A y \in T : x <= y
  BY <1>4
<1> QED
  BY <1>5 DEF Least

\* The kernel hands out a descriptor that is not open.
LEMMA LeastFree == Free # {} => Least(Free) \in Fds \ open
<1> SUFFICES ASSUME Free # {} PROVE Least(Free) \in Fds \ open
  OBVIOUS
<1>1. Free \in SUBSET Nat
  BY ServerConstants DEF Free, Fds
<1> QED
  BY <1>1, LeastNat DEF Free

LEMMA LoopsType == Base \in Loops /\ IoLoops \subseteq Loops /\ Base \notin IoLoops
                   /\ Loops \subseteq Nat /\ \A l \in Loops : l # Base => l \in IoLoops
BY ServerConstants DEF Loops, IoLoops

\* A reference is a key of the map or a functor with a bound TcpConnectionPtr.
LEMMA ReferencedMeans ==
  ASSUME NEW q \in Queues, NEW map, NEW c \in Conns
  PROVE  Referenced(c, map, q)
           <=> c \in map \/ \E l \in Loops, op \in Ops : Has(q[l], Fn(op, c))
<1>1. ASSUME NEW l \in Loops
      PROVE  Holds(q[l], c) <=> \E op \in Ops : Has(q[l], Fn(op, c))
  <2>1. /\ q[l] \in Seq(Functors)
        /\ \A i \in DOMAIN q[l] : q[l][i] \in Functors
    BY DEF Queues
  <2>2. \A i \in DOMAIN q[l] : q[l][i].op \in Ops /\ q[l][i] = Fn(q[l][i].op, q[l][i].c)
    BY <2>1, FnIsFunctor
  <2>3. ASSUME NEW i \in DOMAIN q[l], q[l][i].c = c
        PROVE  \E op \in Ops : Has(q[l], Fn(op, c))
    BY <2>2, <2>3 DEF Has
  <2>4. ASSUME NEW op \in Ops, NEW i \in DOMAIN q[l], q[l][i] = Fn(op, c)
        PROVE  Holds(q[l], c)
    BY <2>4 DEF Fn, Holds
  <2> QED
    BY <2>3, <2>4 DEF Has, Holds
<1> QED
  BY <1>1 DEF Referenced

\* What Settle does, in terms of the next state: connections that are alive and
\* nobody points to are dead.
Settled(st) ==
  /\ stage' \in [Conns -> Stages]
  /\ \A c \in Conns : stage'[c] = IF st[c] \in Alive /\ ~Ref(c)' THEN "dead" ELSE st[c]
  /\ (\A c \in Conns : st[c] \in Alive /\ ~Ref(c)' => st[c] = "destroyed") => failed' = failed
  /\ (\E c \in Conns : st[c] \in Alive /\ ~Ref(c)' /\ st[c] # "destroyed")
        => failed' = "destructor"

LEMMA SettleMeans ==
  ASSUME NEW st \in [Conns -> Stages], NEW q \in Queues, NEW map,
         Settle(st, map, q)
  PROVE  Settled(st) /\ connections' = map /\ functors' = q
<1>1. connections' = map /\ functors' = q
  BY DEF Settle
<1>2. \A c \in Conns : Referenced(c, map, q) <=> Ref(c)'
  BY <1>1, ReferencedMeans DEF Ref, In
<1> DEFINE last == {c \in Conns : st[c] \in Alive /\ ~Referenced(c, map, q)}
<1>3. /\ stage' = [c \in Conns |-> IF c \in last THEN "dead" ELSE st[c]]
      /\ failed' = IF \A c \in last : st[c] = "destroyed" THEN failed ELSE "destructor"
  BY DEF Settle
<1>4. \A c \in Conns : c \in last <=> st[c] \in Alive /\ ~Ref(c)'
  BY <1>2
<1> HIDE DEF last
<1>5. stage' \in [Conns -> Stages]
  BY <1>3 DEF Stages
<1>6. \A c \in Conns : stage'[c] = IF st[c] \in Alive /\ ~Ref(c)' THEN "dead" ELSE st[c]
  BY <1>3, <1>4
<1>7. last \subseteq Conns
  BY DEF last
<1>8. (\A c \in Conns : st[c] \in Alive /\ ~Ref(c)' => st[c] = "destroyed") => failed' = failed
  BY <1>3, <1>4, <1>7
<1>9. (\E c \in Conns : st[c] \in Alive /\ ~Ref(c)' /\ st[c] # "destroyed")
        => failed' = "destructor"
  BY <1>3, <1>4, <1>7
<1> QED
  BY <1>1, <1>5, <1>6, <1>8, <1>9 DEF Settled

\* The descriptors of the connections that die are closed, and no others.
LEMMA SettleOwners ==
  ASSUME NEW st \in [Conns -> Stages], NEW q, NEW map, Settle(st, map, q), TypeOK, Descriptors,
         \A c \in Conns : st[c] \in Alive <=> stage[c] \in Alive,
         UNCHANGED <<fdOf, idleFd, others, pc>>
  PROVE  Descriptors' /\ open' \subseteq Fds /\ (others \subseteq open)'
<1> DEFINE last == {c \in Conns : st[c] \in Alive /\ ~Referenced(c, map, q)}
<1>1. /\ stage' = [c \in Conns |-> IF c \in last THEN "dead" ELSE st[c]]
      /\ open' = open \ {fdOf[c] : c \in last}
  BY DEF Settle
<1>2. last \subseteq Live
  BY DEF Live
<1> HIDE DEF last
<1>3. Live' = Live \ last
  <2>1. \A c \in Conns : stage'[c] = IF c \in last THEN "dead" ELSE st[c]
    BY <1>1
  <2>2. \A c \in Conns : c \in Live' <=> c \in Live /\ c \notin last
    BY <2>1 DEF Live, Alive
  <2>3. Live' \subseteq Conns /\ Live \subseteq Conns
    BY DEF Live
  <2> QED
    BY <2>2, <2>3
<1>4. Idle' = Idle /\ others' = others /\ fdOf' = fdOf /\ idleFd' = idleFd /\ pc' = pc
  BY DEF Idle
<1>5. OneOwner
  BY DEF Descriptors
<1>6. /\ Owned = Idle \cup others \cup {fdOf[c] : c \in Live}
      /\ Owned' = Idle \cup others \cup {fdOf[c] : c \in Live \ last}
  BY <1>3, <1>4 DEF Owned
<1>7. OneOwner'
  <2>1. Owned' \subseteq open'
    BY <1>1, <1>2, <1>5, <1>6 DEF OneOwner
  <2>2. open' \ Owned' \subseteq {0}
    BY <1>1, <1>2, <1>5, <1>6 DEF OneOwner
  <2>3. \A c \in Live \ last : fdOf[c] \notin Idle \cup others
    BY <1>5 DEF OneOwner
  <2>4. \A c, d \in Live \ last : fdOf[c] = fdOf[d] => c = d
    BY <1>5 DEF OneOwner
  <2>5. Idle \cap others = {}
    BY <1>5 DEF OneOwner
  <2> QED
    BY <2>1, <2>2, <2>3, <2>4, <2>5, <1>3, <1>4 DEF OneOwner
<1>8. (others \subseteq open)'
  BY <1>7 DEF OneOwner, Owned
<1>9. open' \subseteq Fds
  BY <1>1 DEF TypeOK
<1> QED
  BY <1>4, <1>7, <1>8, <1>9 DEF Descriptors

\* A connection that is alive is pointed to.
LEMMA AliveRef ==
  ASSUME NEW c \in Conns, StageOf(c), TypeOK, stage[c] \in Alive
  PROVE  Ref(c)
<1>1. loopOf[c] \in Loops /\ Base \in Loops
  BY LoopsType DEF TypeOK
<1>2. (c \in connections \/ Est(c) \/ Des(c) \/ Rem(c)) => Ref(c)
  BY <1>1 DEF Ref, Est, Des, Rem, Ops
<1> QED
  BY <1>2 DEF StageOf, Alive

\* A functor of a connection is one of three.
LEMMA PlacedIn ==
  ASSUME NEW c \in Conns, Placed, TypeOK
  PROVE  /\ loopOf[c] \in Loops /\ Base \in Loops
         /\ \A l \in Loops :
              /\ In(l, "established", c) <=> l = loopOf[c] /\ Est(c)
              /\ In(l, "destroyed", c) <=> l = loopOf[c] /\ Des(c)
              /\ In(l, "removal", c) <=> l = Base /\ Rem(c)
         /\ Est(c) => loopOf[c] # Base
         /\ Rem(c) => loopOf[c] # Base
<1>1. loopOf[c] \in Loops /\ Base \in Loops
  BY LoopsType DEF TypeOK
<1> QED
  BY <1>1 DEF Placed, Est, Des, Rem

-----------------------------------------------------------------------------
(* The steps that leave connections and queues alone *)

LEMMA QuietFrame ==
  ASSUME ServerIInv, Running, Serving' => Serving,
         UNCHANGED <<connections, functors, stage, failed, loopOf>>
  PROVE  InOrder(functors)' /\ Placed' /\ StagesOf' /\ FailsAsNamed'
<1>1. InOrder(functors)'
  BY DEF ServerIInv, InOrder
<1>2. Placed'
  BY DEF ServerIInv, Placed, In
<1>3. StagesOf'
  <2> SUFFICES ASSUME NEW c \in Conns PROVE StageOf(c)'
    BY DEF StagesOf
  <2>1. StageOf(c)
    BY DEF ServerIInv, StagesOf
  <2>2. /\ (Est(c)' <=> Est(c)) /\ (Des(c)' <=> Des(c)) /\ (Rem(c)' <=> Rem(c))
        /\ stage'[c] = stage[c] /\ loopOf'[c] = loopOf[c] /\ connections' = connections
    BY DEF Est, Des, Rem, In
  <2> QED
    BY <2>1, <2>2 DEF StageOf
<1>4. FailsAsNamed'
  BY DEF FailsAsNamed, Running
<1> QED
  BY <1>1, <1>2, <1>3, <1>4

\* The numbers that the handler of the listening socket does not touch.
LEMMA NumbersFrame ==
  ASSUME Numbers, TypeOK, UNCHANGED <<started, loopsSize, next, nextConnId, stage, loopOf, arrived>>,
         listenning' = listenning \/ ~listenning', backlog' \in Nat, backlog' <= backlog
  PROVE  Numbers'
<1>1. nextConnId \in Nat /\ arrived \in Nat /\ backlog \in Nat
  BY ServerConstants DEF TypeOK
<1>2. nextConnId + backlog' <= arrived + 1
  <2>1. nextConnId + backlog <= arrived + 1
    BY DEF Numbers
  <2>2. \A n, a, b, d \in Nat : n + b <= a + 1 /\ d <= b => n + d <= a + 1
    OBVIOUS
  <2>3. backlog' <= backlog /\ backlog' \in Nat
    OBVIOUS
  <2> HIDE DEF Numbers
  <2> QED
    BY <2>1, <2>2, <2>3, <1>1, Zenon
<1>3. ~started => loopsSize = 0 /\ next = 0 /\ nextConnId = 1 /\ ~listenning'
  BY DEF Numbers
<1> QED
  BY <1>2, <1>3 DEF Numbers

LEMMA EndFrame ==
  ASSUME EndInTurn, UNCHANGED <<connections, quit, phase, functors, joining, loopsSize>>,
         pc' = pc \/ (pc' \notin {"quit", "join", "gone"} /\ pc \notin {"quit", "join", "gone"})
  PROVE  EndInTurn'
<1>1. Ending' <=> Ending
  BY DEF Ending
<1>2. (pc' = "join" <=> pc = "join") /\ (pc' = "gone" <=> pc = "gone")
  OBVIOUS
<1> QED
  BY <1>1, <1>2 DEF EndInTurn

LEMMA OwnersFrame ==
  ASSUME Descriptors, UNCHANGED <<stage, fdOf, idleFd, others, open>>,
         pc' \in {"refuse", "reopen"} => pc \in {"refuse", "reopen"}
  PROVE  Descriptors'
<1>1. OneOwner'
  BY DEF Descriptors, OneOwner, Owned, Live, Idle
<1> QED
  BY <1>1 DEF Descriptors

LEMMA SetThreadNumKeeps ==
  ASSUME ServerIInv, NEW n \in 0..MaxThreads, SetThreadNum(n)
  PROVE  ServerIInv'
<1>1. /\ Running
      /\ numThreads' = n
      /\ UNCHANGED <<pc, started, next, loopsSize, listenning, idleFd,
                      nextConnId, connections, joining, phase, batch, functors,
                      quit, stage, loopOf, fdOf, open, backlog, arrived, others,
                      failed, dropped>>
  BY DEF SetThreadNum, poolVars, acceptVars, srvVars, loopVars, kernelVars, connVars
<1>2. Types /\ TypeOK /\ Numbers /\ EndInTurn /\ Descriptors
  BY DEF ServerIInv, Types
<1> HIDE DEF SetThreadNum
<1>3. InOrder(functors)' /\ Placed' /\ StagesOf' /\ FailsAsNamed'
  BY <1>1, QuietFrame DEF Serving
<1>4. Numbers'
  BY <1>1, <1>2 DEF Numbers
<1>5. EndInTurn'
  BY <1>1, <1>2, EndFrame
<1>6. Descriptors'
  BY <1>1, <1>2, OwnersFrame
<1>7. Types'
  BY <1>1, <1>2, <1>6, ServerConstants DEF Types, TypeOK, PCs
<1> QED
  BY <1>3, <1>4, <1>5, <1>6, <1>7 DEF ServerIInv

LEMMA StartKeeps ==
  ASSUME ServerIInv, Start
  PROVE  ServerIInv'
<1>1. /\ Running
      /\ pc = "loop" /\ ~started
      /\ started' = TRUE /\ loopsSize' = numThreads /\ listenning' = TRUE
      /\ phase' = [l \in IoLoops |-> IF l <= numThreads THEN "poll" ELSE "none"]
      /\ UNCHANGED <<pc, numThreads, next, idleFd, nextConnId, connections,
                      joining, batch, functors, quit, stage, loopOf, fdOf, open,
                      backlog, arrived, others, failed, dropped>>
  BY DEF Start, poolVars, acceptVars, srvVars, loopVars, kernelVars, connVars
<1>2. Types /\ TypeOK /\ Numbers /\ EndInTurn /\ Descriptors
  BY DEF ServerIInv, Types
<1> HIDE DEF Start
<1>3. InOrder(functors)' /\ Placed' /\ StagesOf' /\ FailsAsNamed'
  BY <1>1, QuietFrame DEF Serving
<1>4. Numbers'
  <2>1. /\ next = 0 /\ nextConnId = 1 /\ started' = TRUE
        /\ nextConnId + backlog <= arrived + 1
        /\ \A c \in Conns : stage[c] = "none" <=> c >= nextConnId
    BY <1>1, <1>2 DEF Numbers
  <2>2. \A c \in Conns : ~(c < nextConnId)
    BY <2>1 DEF Conns
  <2> QED
    BY <2>1, <2>2, <1>1 DEF Numbers
<1>5. EndInTurn'
  <2>1. ~Ending /\ ~Ending' /\ pc' = "loop"
    BY <1>1 DEF Ending
  <2>2. \A l \in IoLoops : phase'[l] # "exited"
    BY <1>1
  <2> QED
    BY <2>1, <2>2, <1>1, <1>2 DEF EndInTurn
<1>6. Descriptors'
  BY <1>1, <1>2, OwnersFrame
<1>7. Types'
  <2>1. next = 0
    BY <1>1, <1>2 DEF Numbers
  <2>2. phase' \in [IoLoops -> {"none", "poll", "run", "exited"}]
    BY <1>1
  <2> QED
    BY <2>1, <2>2, <1>1, <1>2, ServerConstants DEF Types, TypeOK, PCs
<1> QED
  BY <1>3, <1>4, <1>5, <1>6, <1>7 DEF ServerIInv

LEMMA ClientArrivesKeeps ==
  ASSUME ServerIInv, ClientArrives
  PROVE  ServerIInv'
<1>1. /\ Running
      /\ listenning /\ arrived < MaxClients
      /\ arrived' = arrived + 1 /\ backlog' = backlog + 1
      /\ UNCHANGED <<pc, started, numThreads, next, loopsSize, listenning,
                      idleFd, nextConnId, connections, joining, phase, batch,
                      functors, quit, stage, loopOf, fdOf, open, others, failed,
                      dropped>>
  BY DEF ClientArrives, poolVars, acceptVars, srvVars, loopVars, kernelVars, connVars
<1>2. Types /\ TypeOK /\ Numbers /\ EndInTurn /\ Descriptors
  BY DEF ServerIInv, Types
<1> HIDE DEF ClientArrives
<1>3. InOrder(functors)' /\ Placed' /\ StagesOf' /\ FailsAsNamed'
  BY <1>1, QuietFrame DEF Serving
<1>4. Numbers'
  <2>1. nextConnId \in Nat /\ arrived \in Nat /\ backlog \in Nat
    BY <1>2, ServerConstants DEF TypeOK
  <2>2. nextConnId + backlog' <= arrived' + 1
    BY <2>1, <1>1, <1>2 DEF Numbers
  <2> QED
    BY <2>2, <1>1, <1>2 DEF Numbers
<1>5. EndInTurn'
  BY <1>1, <1>2, EndFrame
<1>6. Descriptors'
  BY <1>1, <1>2, OwnersFrame
<1>7. Types'
  BY <1>1, <1>2, <1>6, ServerConstants DEF Types, TypeOK, PCs
<1> QED
  BY <1>3, <1>4, <1>5, <1>6, <1>7 DEF ServerIInv

LEMMA AcceptAbortedKeeps ==
  ASSUME ServerIInv, AcceptAborted
  PROVE  ServerIInv'
<1>1. /\ Running
      /\ backlog > 0 /\ backlog' = backlog - 1
      /\ UNCHANGED <<pc, started, numThreads, next, loopsSize, listenning,
                      idleFd, nextConnId, connections, joining, phase, batch,
                      functors, quit, stage, loopOf, fdOf, open, arrived,
                      others, failed, dropped>>
  BY DEF AcceptAborted, Readable, poolVars, acceptVars, srvVars, loopVars, kernelVars, connVars
<1>2. Types /\ TypeOK /\ Numbers /\ EndInTurn /\ Descriptors
  BY DEF ServerIInv, Types
<1> HIDE DEF AcceptAborted
<1>3. InOrder(functors)' /\ Placed' /\ StagesOf' /\ FailsAsNamed'
  BY <1>1, QuietFrame DEF Serving
<1>4. Numbers'
  <2>1. backlog \in Nat /\ backlog' \in Nat /\ backlog' <= backlog
    BY <1>1, <1>2, ServerConstants DEF TypeOK
  <2> QED
    BY <2>1, <1>1, <1>2, NumbersFrame
<1>5. EndInTurn'
  BY <1>1, <1>2, EndFrame
<1>6. Descriptors'
  BY <1>1, <1>2, OwnersFrame
<1>7. Types'
  BY <1>1, <1>2, <1>6, ServerConstants DEF Types, TypeOK, PCs
<1> QED
  BY <1>3, <1>4, <1>5, <1>6, <1>7 DEF ServerIInv

LEMMA RefuseKeeps ==
  ASSUME ServerIInv, Refuse
  PROVE  ServerIInv'
<1>1. /\ Running
      /\ pc = "refuse" /\ pc' = "reopen"
      /\ backlog' = backlog \/ (backlog > 0 /\ backlog' = backlog - 1)
      /\ UNCHANGED <<started, numThreads, next, loopsSize, listenning, idleFd,
                      nextConnId, connections, joining, phase, batch, functors,
                      quit, stage, loopOf, fdOf, open, arrived, others, failed,
                      dropped>>
  BY DEF Refuse, poolVars, acceptVars, srvVars, loopVars, kernelVars, connVars
<1>2. Types /\ TypeOK /\ Numbers /\ EndInTurn /\ Descriptors
  BY DEF ServerIInv, Types
<1> HIDE DEF Refuse
<1>3. InOrder(functors)' /\ Placed' /\ StagesOf' /\ FailsAsNamed'
  BY <1>1, QuietFrame DEF Serving
<1>4. Numbers'
  <2>1. backlog \in Nat /\ backlog' \in Nat /\ backlog' <= backlog
    BY <1>1, <1>2, ServerConstants DEF TypeOK
  <2> QED
    BY <2>1, <1>1, <1>2, NumbersFrame
<1>5. EndInTurn'
  BY <1>1, <1>2, EndFrame
<1>6. Descriptors'
  BY <1>1, <1>2, OwnersFrame
<1>7. Types'
  BY <1>1, <1>2, <1>6, ServerConstants DEF Types, TypeOK, PCs
<1> QED
  BY <1>3, <1>4, <1>5, <1>6, <1>7 DEF ServerIInv

LEMMA DestroyServerKeeps ==
  ASSUME ServerIInv, DestroyServer
  PROVE  ServerIInv'
<1>1. /\ Running
      /\ pc = "loop" /\ pc' = "dtor"
      /\ UNCHANGED <<started, numThreads, next, loopsSize, listenning, idleFd,
                      nextConnId, connections, joining, phase, batch, functors,
                      quit, stage, loopOf, fdOf, open, backlog, arrived, others,
                      failed, dropped>>
  BY DEF DestroyServer, poolVars, acceptVars, srvVars, loopVars, kernelVars, connVars
<1>2. Types /\ TypeOK /\ Numbers /\ EndInTurn /\ Descriptors
  BY DEF ServerIInv, Types
<1> HIDE DEF DestroyServer
<1>3. InOrder(functors)' /\ Placed' /\ StagesOf' /\ FailsAsNamed'
  BY <1>1, QuietFrame DEF Serving
<1>4. Numbers'
  BY <1>1, <1>2 DEF Numbers
<1>5. EndInTurn'
  BY <1>1, <1>2, EndFrame
<1>6. Descriptors'
  BY <1>1, <1>2, OwnersFrame
<1>7. Types'
  BY <1>1, <1>2, <1>6, ServerConstants DEF Types, TypeOK, PCs
<1> QED
  BY <1>3, <1>4, <1>5, <1>6, <1>7 DEF ServerIInv

LEMMA DestroyPoolKeeps ==
  ASSUME ServerIInv, DestroyPool
  PROVE  ServerIInv'
<1>1. /\ Running
      /\ pc = "dtor" /\ connections = {}
      /\ pc' = "quit" /\ joining' = 1
      /\ UNCHANGED <<started, numThreads, next, loopsSize, listenning, idleFd,
                      nextConnId, connections, phase, batch, functors, quit,
                      stage, loopOf, fdOf, open, backlog, arrived, others,
                      failed, dropped>>
  BY DEF DestroyPool, poolVars, acceptVars, srvVars, loopVars, kernelVars, connVars
<1>2. Types /\ TypeOK /\ Numbers /\ EndInTurn /\ Descriptors
  BY DEF ServerIInv, Types
<1> HIDE DEF DestroyPool
<1>3. InOrder(functors)' /\ Placed' /\ StagesOf' /\ FailsAsNamed'
  BY <1>1, QuietFrame DEF Serving
<1>4. Numbers'
  BY <1>1, <1>2 DEF Numbers
<1>5. EndInTurn'
  <2>1. ~Ending /\ Ending' /\ pc' = "quit"
    BY <1>1 DEF Ending
  <2>2. \A l \in IoLoops : ~(l < joining') /\ joining' > 0
    BY <1>1 DEF IoLoops
  <2> QED
    BY <2>1, <2>2, <1>1, <1>2 DEF EndInTurn
<1>6. Descriptors'
  BY <1>1, <1>2, OwnersFrame
<1>7. Types'
  BY <1>1, <1>2, <1>6, ServerConstants DEF Types, TypeOK, PCs
<1> QED
  BY <1>3, <1>4, <1>5, <1>6, <1>7 DEF ServerIInv

LEMMA QuitThreadKeeps ==
  ASSUME ServerIInv, QuitThread
  PROVE  ServerIInv'
<1>1. /\ Running
      /\ pc = "quit" /\ joining <= loopsSize
      /\ quit' = [quit EXCEPT ![joining] = TRUE] /\ pc' = "join"
      /\ UNCHANGED <<started, numThreads, next, loopsSize, listenning, idleFd,
                      nextConnId, connections, joining, phase, batch, functors,
                      stage, loopOf, fdOf, open, backlog, arrived, others,
                      failed, dropped>>
  BY DEF QuitThread, poolVars, acceptVars, srvVars, loopVars, kernelVars, connVars
<1>2. Types /\ TypeOK /\ Numbers /\ EndInTurn /\ Descriptors
  BY DEF ServerIInv, Types
<1> HIDE DEF QuitThread
<1>3. InOrder(functors)' /\ Placed' /\ StagesOf' /\ FailsAsNamed'
  BY <1>1, QuietFrame DEF Serving
<1>4. Numbers'
  BY <1>1, <1>2 DEF Numbers
<1>5. EndInTurn'
  <2>1. Ending /\ Ending' /\ pc' = "join"
    BY <1>1 DEF Ending
  <2>2. \A l \in IoLoops : quit'[l] <=> quit[l] \/ l = joining
    BY <1>1, <1>2 DEF TypeOK
  <2> QED
    BY <2>1, <2>2, <1>1, <1>2 DEF EndInTurn
<1>6. Descriptors'
  BY <1>1, <1>2, OwnersFrame
<1>7. Types'
  BY <1>1, <1>2, <1>6, ServerConstants DEF Types, TypeOK, PCs
<1> QED
  BY <1>3, <1>4, <1>5, <1>6, <1>7 DEF ServerIInv

LEMMA JoinThreadKeeps ==
  ASSUME ServerIInv, JoinThread
  PROVE  ServerIInv'
<1>1. /\ Running
      /\ pc = "join" /\ phase[joining] = "exited"
      /\ pc' = "quit" /\ joining' = joining + 1
      /\ UNCHANGED <<started, numThreads, next, loopsSize, listenning, idleFd,
                      nextConnId, connections, phase, batch, functors, quit,
                      stage, loopOf, fdOf, open, backlog, arrived, others,
                      failed, dropped>>
  BY DEF JoinThread, poolVars, acceptVars, srvVars, loopVars, kernelVars, connVars
<1>2. Types /\ TypeOK /\ Numbers /\ EndInTurn /\ Descriptors
  BY DEF ServerIInv, Types
<1> HIDE DEF JoinThread
<1>3. InOrder(functors)' /\ Placed' /\ StagesOf' /\ FailsAsNamed'
  BY <1>1, QuietFrame DEF Serving
<1>4. Numbers'
  BY <1>1, <1>2 DEF Numbers
<1>5. EndInTurn'
  <2>1. Ending /\ Ending' /\ pc' = "quit"
    BY <1>1 DEF Ending
  <2>2. joining \in Nat /\ joining' > 0
    BY <1>1, <1>2, ServerConstants DEF TypeOK
  <2>3. \A l \in IoLoops : l < joining' => phase'[l] = "exited"
    <3> SUFFICES ASSUME NEW l \in IoLoops, l < joining + 1 PROVE phase[l] = "exited"
      BY <1>1
    <3>1. l < joining \/ l = joining
      BY <2>2 DEF IoLoops
    <3> QED
      BY <3>1, <2>1, <1>1, <1>2 DEF EndInTurn
  <2> QED
    BY <2>1, <2>2, <2>3, <1>1, <1>2 DEF EndInTurn
<1>6. Descriptors'
  BY <1>1, <1>2, OwnersFrame
<1>7. Types'
  <2>1. joining <= loopsSize
    BY <1>1, <1>2 DEF EndInTurn
  <2>2. joining' \in 0..(MaxThreads + 1)
    BY <2>1, <1>1, <1>2, ServerConstants DEF TypeOK
  <2> QED
    BY <2>2, <1>1, <1>2 DEF Types, TypeOK, PCs
<1> QED
  BY <1>3, <1>4, <1>5, <1>6, <1>7 DEF ServerIInv

LEMMA SwapKeeps ==
  ASSUME ServerIInv, NEW l \in IoLoops, Swap(l)
  PROVE  ServerIInv'
<1>1. /\ Running
      /\ phase[l] = "poll"
      /\ phase' = [phase EXCEPT ![l] = "run"]
      /\ batch' = [batch EXCEPT ![l] = Len(functors[l])]
      /\ UNCHANGED <<pc, started, numThreads, next, loopsSize, listenning,
                      idleFd, nextConnId, connections, joining, functors, quit,
                      stage, loopOf, fdOf, open, backlog, arrived, others,
                      failed, dropped>>
  BY DEF Swap, Handling, IoLoops, poolVars, acceptVars, srvVars, loopVars, kernelVars, connVars
<1>2. Types /\ TypeOK /\ Numbers /\ EndInTurn /\ Descriptors
  BY DEF ServerIInv, Types
<1> HIDE DEF Swap
<1>3. InOrder(functors)' /\ Placed' /\ StagesOf' /\ FailsAsNamed'
  BY <1>1, QuietFrame DEF Serving
<1>4. Numbers'
  BY <1>1, <1>2 DEF Numbers
<1>5. EndInTurn'
  <2>1. \A k \in IoLoops : phase'[k] = "exited" <=> phase[k] = "exited"
    BY <1>1, <1>2 DEF TypeOK
  <2>2. Ending' <=> Ending
    BY <1>1 DEF Ending
  <2> QED
    BY <2>1, <2>2, <1>1, <1>2 DEF EndInTurn
<1>6. Descriptors'
  BY <1>1, <1>2, OwnersFrame
<1>7. Types'
  <2>1. /\ l \in Loops /\ Len(functors[l]) \in Nat
        /\ \A k \in IoLoops : batch'[k] = IF k = l THEN Len(functors[l]) ELSE batch[k]
    BY <1>1, <1>2, LoopsType DEF Types, TypeOK
  <2>2. \A k \in IoLoops : batch'[k] \in 0..Len(functors[k])
    BY <2>1, <1>2 DEF TypeOK
  <2>3. batch' \in [IoLoops -> Nat]
    BY <2>1, <1>1, <1>2 DEF Types
  <2>4. phase' \in [IoLoops -> {"none", "poll", "run", "exited"}]
    BY <1>1, <1>2 DEF TypeOK
  <2> QED
    BY <2>2, <2>3, <2>4, <1>1, <1>2 DEF Types, TypeOK
<1> QED
  BY <1>3, <1>4, <1>5, <1>6, <1>7 DEF ServerIInv

LEMMA NextIterationKeeps ==
  ASSUME ServerIInv, NEW l \in IoLoops, NextIteration(l)
  PROVE  ServerIInv'
<1>1. /\ Running
      /\ phase[l] = "run"
      /\ phase' = [phase EXCEPT ![l] = "poll"]
      /\ UNCHANGED <<pc, started, numThreads, next, loopsSize, listenning,
                      idleFd, nextConnId, connections, joining, batch, functors,
                      quit, stage, loopOf, fdOf, open, backlog, arrived, others,
                      failed, dropped>>
  BY DEF NextIteration, poolVars, acceptVars, srvVars, loopVars, kernelVars, connVars
<1>2. Types /\ TypeOK /\ Numbers /\ EndInTurn /\ Descriptors
  BY DEF ServerIInv, Types
<1> HIDE DEF NextIteration
<1>3. InOrder(functors)' /\ Placed' /\ StagesOf' /\ FailsAsNamed'
  BY <1>1, QuietFrame DEF Serving
<1>4. Numbers'
  BY <1>1, <1>2 DEF Numbers
<1>5. EndInTurn'
  <2>1. \A k \in IoLoops : phase'[k] = "exited" <=> phase[k] = "exited"
    BY <1>1, <1>2 DEF TypeOK
  <2>2. Ending' <=> Ending
    BY <1>1 DEF Ending
  <2> QED
    BY <2>1, <2>2, <1>1, <1>2 DEF EndInTurn
<1>6. Descriptors'
  BY <1>1, <1>2, OwnersFrame
<1>7. Types'
  <2>1. phase' \in [IoLoops -> {"none", "poll", "run", "exited"}]
    BY <1>1, <1>2 DEF TypeOK
  <2> QED
    BY <2>1, <1>1, <1>2 DEF Types, TypeOK
<1> QED
  BY <1>3, <1>4, <1>5, <1>6, <1>7 DEF ServerIInv

-----------------------------------------------------------------------------
(* The steps that open and close descriptors without a connection *)

\* A descriptor is opened for, or closed by, one of the owners that are not
\* connections.
LEMMA OwnersChange ==
  ASSUME Descriptors, UNCHANGED <<stage, fdOf>>,
         \/ \* opened for another thread
            /\ \E f \in Free : open' = open \cup {f} /\ others' = others \cup {f}
            /\ idleFd' = idleFd
         \/ \* closed by it
            /\ \E f \in others : open' = open \ {f} /\ others' = others \ {f}
            /\ idleFd' = idleFd
         \/ \* the reserved descriptor is closed; 0 may have been opened
            /\ open' \in {open \ {idleFd}, (open \cup {0}) \ {idleFd}}
            /\ 0 \in Free \/ open' = open \ {idleFd}
            /\ idleFd' = NoFd /\ others' = others
         \/ \* 0 is opened
            open' = open \cup {0} /\ 0 \in Free /\ UNCHANGED <<idleFd, others>>
         \/ \* the reserved descriptor is opened again
            /\ idleFd = NoFd /\ \E f \in Free : open' = open \cup {f} /\ idleFd' = f
            /\ others' = others,
         NoFd \notin open
  PROVE  OneOwner'
<1>1. OneOwner /\ Live' = Live /\ \A c \in Live : fdOf'[c] = fdOf[c]
  BY DEF Descriptors, Live
<1> DEFINE L == {fdOf[c] : c \in Live}
<1>2. Owned = Idle \cup others \cup L /\ Owned' = Idle' \cup others' \cup L
  BY <1>1 DEF Owned
<1>3. /\ Owned \subseteq open /\ open \ Owned \subseteq {0}
      /\ Idle \cap others = {} /\ L \cap (Idle \cup others) = {}
      /\ \A c, d \in Live : fdOf[c] = fdOf[d] => c = d
  BY <1>1 DEF OneOwner
<1> SUFFICES /\ Owned' \subseteq open' /\ open' \ Owned' \subseteq {0}
             /\ Idle' \cap others' = {} /\ L \cap (Idle' \cup others') = {}
  BY <1>1, <1>3 DEF OneOwner
<1> HIDE DEF L
<1>4. ASSUME NEW f \in Free, open' = open \cup {f}, others' = others \cup {f}, idleFd' = idleFd
      PROVE  /\ Owned' \subseteq open' /\ open' \ Owned' \subseteq {0}
             /\ Idle' \cap others' = {} /\ L \cap (Idle' \cup others') = {}
  <2>1. f \notin open /\ Idle' = Idle
    BY <1>4 DEF Free, Idle
  <2> QED
    BY <2>1, <1>2, <1>3, <1>4
<1>5. ASSUME NEW f \in others, open' = open \ {f}, others' = others \ {f}, idleFd' = idleFd
      PROVE  /\ Owned' \subseteq open' /\ open' \ Owned' \subseteq {0}
             /\ Idle' \cap others' = {} /\ L \cap (Idle' \cup others') = {}
  <2>1. Idle' = Idle
    BY <1>5 DEF Idle
  <2> QED
    BY <2>1, <1>2, <1>3, <1>5
<1>6. ASSUME open' \in {open \ {idleFd}, (open \cup {0}) \ {idleFd}},
             0 \in Free \/ open' = open \ {idleFd}, idleFd' = NoFd, others' = others
      PROVE  /\ Owned' \subseteq open' /\ open' \ Owned' \subseteq {0}
             /\ Idle' \cap others' = {} /\ L \cap (Idle' \cup others') = {}
  <2>1. Idle' = {} /\ \A x \in open : x = idleFd <=> x \in Idle
    BY <1>6 DEF Idle
  <2>2. \A x \in others \cup L : x \in open /\ x # idleFd
    BY <2>1, <1>2, <1>3
  <2> QED
    BY <2>1, <2>2, <1>2, <1>3, <1>6
<1>7. ASSUME open' = open \cup {0}, 0 \in Free, UNCHANGED <<idleFd, others>>
      PROVE  /\ Owned' \subseteq open' /\ open' \ Owned' \subseteq {0}
             /\ Idle' \cap others' = {} /\ L \cap (Idle' \cup others') = {}
  <2>1. Idle' = Idle
    BY <1>7 DEF Idle
  <2> QED
    BY <2>1, <1>2, <1>3, <1>7
<1>8. ASSUME idleFd = NoFd, NEW f \in Free, open' = open \cup {f}, idleFd' = f, others' = others
      PROVE  /\ Owned' \subseteq open' /\ open' \ Owned' \subseteq {0}
             /\ Idle' \cap others' = {} /\ L \cap (Idle' \cup others') = {}
  <2>1. f \notin open /\ Idle = {} /\ Idle' \subseteq {f}
    BY <1>8 DEF Free, Idle
  <2>2. f # NoFd
    BY ServerConstants DEF Free, Fds, NoFd
  <2>3. Idle' = {f}
    BY <2>2, <1>8 DEF Idle
  <2> QED
    BY <2>1, <2>3, <1>2, <1>3, <1>8
<1> QED
  BY <1>4, <1>5, <1>6, <1>7, <1>8

LEMMA AcceptZeroKeeps ==
  ASSUME ServerIInv, AcceptZero
  PROVE  ServerIInv'
<1>1. /\ Running
      /\ pc = "loop" /\ 0 \in Free /\ backlog > 0 /\ backlog' = backlog - 1
      /\ \/ open' = open \cup {0} /\ UNCHANGED <<pc, idleFd>>
         \/ open' = (open \cup {0}) \ {idleFd} /\ pc' = "refuse" /\ idleFd' = NoFd
      /\ UNCHANGED <<started, numThreads, next, loopsSize, listenning,
                      nextConnId, connections, joining, phase, batch, functors,
                      quit, stage, loopOf, fdOf, arrived, others, failed,
                      dropped>>
  BY DEF AcceptZero, Readable, CloseIdle, poolVars, acceptVars, srvVars, loopVars, kernelVars, connVars
<1>2. Types /\ TypeOK /\ Numbers /\ EndInTurn /\ Descriptors
  BY DEF ServerIInv, Types
<1> HIDE DEF AcceptZero
<1>3. InOrder(functors)' /\ Placed' /\ StagesOf' /\ FailsAsNamed'
  BY <1>1, QuietFrame DEF Serving
<1>4. Numbers'
  <2>1. backlog \in Nat /\ backlog' \in Nat /\ backlog' <= backlog
    BY <1>1, <1>2, ServerConstants DEF TypeOK
  <2> QED
    BY <2>1, <1>1, <1>2, NumbersFrame
<1>5. EndInTurn'
  BY <1>1, <1>2, EndFrame
<1>6. Descriptors'
  <2>1. NoFd \notin open
    BY <1>2, ServerConstants DEF TypeOK, Fds, NoFd
  <2>2. OneOwner'
    BY <2>1, <1>1, <1>2, OwnersChange
  <2> QED
    BY <2>2, <1>1, <1>2 DEF Descriptors
<1>7. Types'
  <2>1. (others \subseteq open)'
    BY <1>6 DEF Descriptors, OneOwner, Owned
  <2>2. open' \subseteq Fds
    BY <1>1, <1>2 DEF TypeOK, Free
  <2> QED
    BY <2>1, <2>2, <1>1, <1>2, ServerConstants DEF Types, TypeOK, PCs, Free
<1> QED
  BY <1>3, <1>4, <1>5, <1>6, <1>7 DEF ServerIInv

LEMMA AcceptEmfileKeeps ==
  ASSUME ServerIInv, AcceptEmfile
  PROVE  ServerIInv'
<1>1. /\ Running
      /\ pc = "loop" /\ pc' = "refuse" /\ idleFd' = NoFd /\ open' = open \ {idleFd}
      /\ UNCHANGED <<started, numThreads, next, loopsSize, listenning,
                      nextConnId, connections, joining, phase, batch, functors,
                      quit, stage, loopOf, fdOf, backlog, arrived, others,
                      failed, dropped>>
  BY DEF AcceptEmfile, Readable, CloseIdle, poolVars, acceptVars, srvVars, loopVars, kernelVars, connVars
<1>2. Types /\ TypeOK /\ Numbers /\ EndInTurn /\ Descriptors
  BY DEF ServerIInv, Types
<1> HIDE DEF AcceptEmfile
<1>3. InOrder(functors)' /\ Placed' /\ StagesOf' /\ FailsAsNamed'
  BY <1>1, QuietFrame DEF Serving
<1>4. Numbers'
  <2>1. backlog \in Nat /\ backlog' \in Nat /\ backlog' <= backlog
    BY <1>1, <1>2, ServerConstants DEF TypeOK
  <2> QED
    BY <2>1, <1>1, <1>2, NumbersFrame
<1>5. EndInTurn'
  BY <1>1, <1>2, EndFrame
<1>6. Descriptors'
  <2>1. NoFd \notin open
    BY <1>2, ServerConstants DEF TypeOK, Fds, NoFd
  <2>2. OneOwner'
    BY <2>1, <1>1, <1>2, OwnersChange
  <2> QED
    BY <2>2, <1>1, <1>2 DEF Descriptors
<1>7. Types'
  <2>1. (others \subseteq open)'
    BY <1>6 DEF Descriptors, OneOwner, Owned
  <2>2. open' \subseteq Fds
    BY <1>1, <1>2 DEF TypeOK, Free
  <2> QED
    BY <2>1, <2>2, <1>1, <1>2, ServerConstants DEF Types, TypeOK, PCs, Free
<1> QED
  BY <1>3, <1>4, <1>5, <1>6, <1>7 DEF ServerIInv

LEMMA ReopenKeeps ==
  ASSUME ServerIInv, Reopen
  PROVE  ServerIInv'
<1>1. /\ Running
      /\ pc = "reopen" /\ pc' = "loop"
      /\ \/ Free = {} /\ idleFd' = NoFd /\ open' = open \ {NoFd}
         \/ Free # {} /\ idleFd' = Least(Free) /\ open' = (open \cup {Least(Free)}) \ {NoFd}
      /\ UNCHANGED <<started, numThreads, next, loopsSize, listenning,
                      nextConnId, connections, joining, phase, batch, functors,
                      quit, stage, loopOf, fdOf, backlog, arrived, others,
                      failed, dropped>>
  BY DEF Reopen, poolVars, acceptVars, srvVars, loopVars, kernelVars, connVars
<1>2. Types /\ TypeOK /\ Numbers /\ EndInTurn /\ Descriptors
  BY DEF ServerIInv, Types
<1> HIDE DEF Reopen
<1>3. InOrder(functors)' /\ Placed' /\ StagesOf' /\ FailsAsNamed'
  BY <1>1, QuietFrame DEF Serving
<1>4. Numbers'
  <2>1. backlog \in Nat /\ backlog' \in Nat /\ backlog' <= backlog
    BY <1>1, <1>2, ServerConstants DEF TypeOK
  <2> QED
    BY <2>1, <1>1, <1>2, NumbersFrame
<1>5. EndInTurn'
  BY <1>1, <1>2, EndFrame
<1>6. Descriptors'
  <2>1. NoFd \notin open /\ NoFd \notin Fds
    BY <1>2, ServerConstants DEF TypeOK, Fds, NoFd
  <2>2. idleFd = NoFd
    BY <1>1, <1>2 DEF Descriptors
  <2>3. CASE Free = {}
    <3>1. open' = open /\ idleFd' = idleFd
      BY <2>1, <2>2, <2>3, <1>1
    <3> QED
      BY <3>1, <1>1, <1>2, OwnersFrame
  <2>4. CASE Free # {}
    <3>1. Least(Free) \in Fds \ open
      BY <2>4, LeastFree
    <3>2. Least(Free) \in Free /\ open' = open \cup {Least(Free)} /\ idleFd' = Least(Free)
      BY <3>1, <2>1, <2>4, <1>1 DEF Free
    <3>3. OneOwner'
      BY <3>2, <2>1, <2>2, <1>1, <1>2, OwnersChange
    <3> QED
      BY <3>3, <1>1 DEF Descriptors
  <2> QED
    BY <2>3, <2>4
<1>7. Types'
  <2>1. (others \subseteq open)'
    BY <1>6 DEF Descriptors, OneOwner, Owned
  <2>2. Free # {} => Least(Free) \in Fds
    BY LeastFree
  <2>3. open' \subseteq Fds /\ idleFd' \in Fds \cup {NoFd}
    BY <2>2, <1>1, <1>2 DEF TypeOK
  <2> QED
    BY <2>1, <2>3, <1>1, <1>2 DEF Types, TypeOK, PCs
<1> QED
  BY <1>3, <1>4, <1>5, <1>6, <1>7 DEF ServerIInv

LEMMA OtherOpensKeeps ==
  ASSUME ServerIInv, OtherOpens
  PROVE  ServerIInv'
<1>1. /\ Running
      /\ Free # {}
      /\ others' = others \cup {Least(Free)} /\ open' = open \cup {Least(Free)}
      /\ UNCHANGED <<pc, started, numThreads, next, loopsSize, listenning,
                      idleFd, nextConnId, connections, joining, phase, batch,
                      functors, quit, stage, loopOf, fdOf, backlog, arrived,
                      failed, dropped>>
  BY DEF OtherOpens, poolVars, acceptVars, srvVars, loopVars, kernelVars, connVars
<1>2. Types /\ TypeOK /\ Numbers /\ EndInTurn /\ Descriptors
  BY DEF ServerIInv, Types
<1> HIDE DEF OtherOpens
<1>3. InOrder(functors)' /\ Placed' /\ StagesOf' /\ FailsAsNamed'
  BY <1>1, QuietFrame DEF Serving
<1>4. Numbers'
  BY <1>1, <1>2 DEF Numbers
<1>5. EndInTurn'
  BY <1>1, <1>2, EndFrame
<1>6. Descriptors'
  <2>1. NoFd \notin open
    BY <1>2, ServerConstants DEF TypeOK, Fds, NoFd
  <2>2. Least(Free) \in Free
    BY <1>1, LeastFree DEF Free
  <2>3. OneOwner'
    BY <2>1, <2>2, <1>1, <1>2, OwnersChange
  <2> QED
    BY <2>3, <1>1, <1>2 DEF Descriptors
<1>7. Types'
  <2>1. (others \subseteq open)'
    BY <1>6 DEF Descriptors, OneOwner, Owned
  <2>2. Least(Free) \in Fds
    BY <1>1, LeastFree
  <2> QED
    BY <2>1, <2>2, <1>1, <1>2 DEF Types, TypeOK, PCs
<1> QED
  BY <1>3, <1>4, <1>5, <1>6, <1>7 DEF ServerIInv

LEMMA OtherClosesKeeps ==
  ASSUME ServerIInv, NEW f \in Fds, OtherCloses(f)
  PROVE  ServerIInv'
<1>1. /\ Running
      /\ f \in others /\ others' = others \ {f} /\ open' = open \ {f}
      /\ UNCHANGED <<pc, started, numThreads, next, loopsSize, listenning,
                      idleFd, nextConnId, connections, joining, phase, batch,
                      functors, quit, stage, loopOf, fdOf, backlog, arrived,
                      failed, dropped>>
  BY DEF OtherCloses, poolVars, acceptVars, srvVars, loopVars, kernelVars, connVars
<1>2. Types /\ TypeOK /\ Numbers /\ EndInTurn /\ Descriptors
  BY DEF ServerIInv, Types
<1> HIDE DEF OtherCloses
<1>3. InOrder(functors)' /\ Placed' /\ StagesOf' /\ FailsAsNamed'
  BY <1>1, QuietFrame DEF Serving
<1>4. Numbers'
  BY <1>1, <1>2 DEF Numbers
<1>5. EndInTurn'
  BY <1>1, <1>2, EndFrame
<1>6. Descriptors'
  <2>1. NoFd \notin open
    BY <1>2, ServerConstants DEF TypeOK, Fds, NoFd
  <2>2. OneOwner'
    BY <2>1, <1>1, <1>2, OwnersChange
  <2> QED
    BY <2>2, <1>1, <1>2 DEF Descriptors
<1>7. Types'
  <2>1. (others \subseteq open)'
    BY <1>6 DEF Descriptors, OneOwner, Owned
  <2>2. open' \subseteq Fds
    BY <1>1, <1>2 DEF TypeOK, Free
  <2> QED
    BY <2>1, <2>2, <1>1, <1>2, ServerConstants DEF Types, TypeOK, PCs, Free
<1> QED
  BY <1>3, <1>4, <1>5, <1>6, <1>7 DEF ServerIInv

LEMMA DestroyAcceptorKeeps ==
  ASSUME ServerIInv, DestroyAcceptor
  PROVE  ServerIInv'
<1>1. /\ Running
      /\ pc = "quit" /\ joining > loopsSize
      /\ pc' = "gone" /\ listenning' = FALSE /\ idleFd' = NoFd
      /\ open' = open \ {idleFd} /\ backlog' = 0
      /\ UNCHANGED <<started, numThreads, next, loopsSize, nextConnId,
                      connections, joining, phase, batch, functors, quit, stage,
                      loopOf, fdOf, arrived, others, failed, dropped>>
  BY DEF DestroyAcceptor, poolVars, acceptVars, srvVars, loopVars, kernelVars, connVars
<1>2. Types /\ TypeOK /\ Numbers /\ EndInTurn /\ Descriptors
  BY DEF ServerIInv, Types
<1> HIDE DEF DestroyAcceptor
<1>3. InOrder(functors)' /\ Placed' /\ StagesOf' /\ FailsAsNamed'
  BY <1>1, QuietFrame DEF Serving
<1>4. Numbers'
  <2>1. backlog \in Nat /\ backlog' \in Nat /\ backlog' <= backlog
    BY <1>1, <1>2, ServerConstants DEF TypeOK
  <2> QED
    BY <2>1, <1>1, <1>2, NumbersFrame
<1>5. EndInTurn'
  <2>1. Ending /\ Ending' /\ pc' = "gone"
    BY <1>1 DEF Ending
  <2> QED
    BY <2>1, <1>1, <1>2 DEF EndInTurn
<1>6. Descriptors'
  <2>1. NoFd \notin open
    BY <1>2, ServerConstants DEF TypeOK, Fds, NoFd
  <2>2. OneOwner'
    BY <2>1, <1>1, <1>2, OwnersChange
  <2> QED
    BY <2>2, <1>1, <1>2 DEF Descriptors
<1>7. Types'
  <2>1. (others \subseteq open)'
    BY <1>6 DEF Descriptors, OneOwner, Owned
  <2>2. open' \subseteq Fds
    BY <1>1, <1>2 DEF TypeOK, Free
  <2>3. idleFd' \in Fds \cup {NoFd} /\ backlog' \in 0..arrived
    BY <1>1, <1>2, ServerConstants DEF TypeOK
  <2> QED
    BY <2>1, <2>2, <2>3, <1>1, <1>2 DEF Types, TypeOK, PCs, Free
<1> QED
  BY <1>3, <1>4, <1>5, <1>6, <1>7 DEF ServerIInv

-----------------------------------------------------------------------------
(* The steps in which an assert fails, and the half close *)

LEMMA AbortKeeps ==
  ASSUME ServerIInv, NEW what, Abort(what), what # "none", FailsAsNamed',
         UNCHANGED <<pc, started, numThreads, next, loopsSize, listenning, idleFd, nextConnId,
                     joining, phase, quit, loopOf, fdOf, backlog, arrived, others, dropped>>,
         batch' \in [IoLoops -> Nat], \A l \in IoLoops : batch'[l] \in 0..Len(functors[l])
  PROVE  ServerIInv'
<1>1. UNCHANGED <<connections, functors, stage, open>> /\ failed' = what
  BY DEF Abort
<1>2. Types'
  BY <1>1 DEF ServerIInv, Types, TypeOK
<1>3. Numbers'
  BY <1>1 DEF ServerIInv, Numbers
<1>4. Descriptors'
  BY <1>1, OwnersFrame DEF ServerIInv
<1>5. InOrder(functors)'
  BY <1>1 DEF ServerIInv, InOrder
<1>6. Placed'
  BY <1>1 DEF ServerIInv, Placed, In
<1>7. EndInTurn'
  BY <1>1, EndFrame DEF ServerIInv
<1>8. StagesOf'
  BY <1>1 DEF StagesOf, Running
<1> QED
  BY <1>2, <1>3, <1>4, <1>5, <1>6, <1>7, <1>8 DEF ServerIInv

\* The second handleClose of a connection that was put back into the poller.
LEMMA HangUpKeeps ==
  ASSUME ServerIInv, NEW c \in Conns, HangUp(c)
  PROVE  ServerIInv'
<1>1. /\ stage[c] = "relisted" /\ Abort("double close")
      /\ UNCHANGED <<pc, started, numThreads, next, loopsSize, listenning, idleFd, nextConnId,
                     joining, phase, quit, loopOf, fdOf, backlog, arrived, others, dropped>>
      /\ batch' = batch
  BY DEF HangUp, poolVars, acceptVars, srvVars, loopVars, kernelVars
<1>2. batch' \in [IoLoops -> Nat] /\ \A l \in IoLoops : batch'[l] \in 0..Len(functors[l])
  BY <1>1 DEF ServerIInv, Types, TypeOK
<1>3. FailsAsNamed'
  BY <1>1 DEF FailsAsNamed, Abort
<1> QED
  BY <1>1, <1>2, <1>3, AbortKeeps

\* shutdown() and forceClose(): the functors that are on their way do not change.
LEMMA DisconnectKeeps ==
  ASSUME ServerIInv, NEW c \in Conns, Disconnect(c)
  PROVE  ServerIInv'
<1>1. /\ Running /\ stage[c] = "up" /\ stage' = [stage EXCEPT ![c] = "half"]
      /\ UNCHANGED <<pc, started, numThreads, next, loopsSize, listenning, idleFd, nextConnId,
                     connections, joining, phase, batch, functors, quit, loopOf, fdOf, open,
                     backlog, arrived, others, failed, dropped>>
  BY DEF Disconnect, Calling, poolVars, acceptVars, srvVars, loopVars, kernelVars
<1>2. Types /\ TypeOK /\ Numbers /\ EndInTurn /\ Descriptors
  BY DEF ServerIInv, Types
<1> HIDE DEF Disconnect
<1>3. /\ stage' \in [Conns -> Stages] /\ stage'[c] = "half"
      /\ \A d \in Conns : d # c => stage'[d] = stage[d]
  BY <1>1, <1>2 DEF TypeOK, Stages
<1>4. Types'
  BY <1>1, <1>2, <1>3 DEF Types, TypeOK
<1>5. Numbers'
  <2>1. \A d \in Conns : stage'[d] = "none" <=> stage[d] = "none"
    BY <1>1, <1>3
  <2> QED
    BY <2>1, <1>1, <1>2 DEF Numbers
<1>6. InOrder(functors)' /\ Placed'
  BY <1>1 DEF ServerIInv, InOrder, Placed, In
<1>7. EndInTurn'
  BY <1>1, <1>2, EndFrame
<1>8. Descriptors'
  <2>1. Live' = Live
    BY <1>1, <1>3 DEF Live, Alive
  <2>2. OneOwner'
    BY <2>1, <1>1, <1>2 DEF Descriptors, OneOwner, Owned, Idle
  <2> QED
    BY <2>2, <1>1, <1>2 DEF Descriptors
<1>9. StagesOf'
  <2> SUFFICES ASSUME NEW d \in Conns PROVE StageOf(d)'
    BY DEF StagesOf
  <2>1. StageOf(d)
    BY <1>1 DEF ServerIInv, StagesOf
  <2>2. /\ (Est(d)' <=> Est(d)) /\ (Des(d)' <=> Des(d)) /\ (Rem(d)' <=> Rem(d))
        /\ loopOf'[d] = loopOf[d] /\ connections' = connections /\ (Serving' <=> Serving)
    BY <1>1 DEF Est, Des, Rem, In, Serving
  <2>3. CASE d = c
    BY <2>1, <2>2, <2>3, <1>1, <1>3 DEF StageOf
  <2>4. CASE d # c
    BY <2>1, <2>2, <2>4, <1>3 DEF StageOf
  <2> QED
    BY <2>3, <2>4
<1>10. FailsAsNamed'
  BY <1>1 DEF FailsAsNamed, Running
<1> QED
  BY <1>4, <1>5, <1>6, <1>7, <1>8, <1>9, <1>10 DEF ServerIInv

-----------------------------------------------------------------------------
(* The steps of one connection *)

\* The queues and the map that a step of connection c leaves behind.
StepOf(c, st, map, q) ==
  /\ st \in [Conns -> Stages] /\ map \subseteq connections /\ q \in Queues /\ InOrder(q)
  /\ stage[c] \in Alive /\ st[c] \in Alive
  /\ \A d \in Conns : d # c =>
       /\ st[d] = stage[d] /\ (d \in map <=> d \in connections)
       /\ \A k \in Loops, o \in Ops : Has(q[k], Fn(o, d)) <=> In(k, o, d)
  /\ \A k \in Loops :
       /\ Has(q[k], Fn("established", c)) => k = loopOf[c] /\ k # Base
       /\ Has(q[k], Fn("destroyed", c)) => k = loopOf[c]
       /\ Has(q[k], Fn("removal", c)) => k = Base /\ loopOf[c] # Base
  /\ c \in map \/ st[c] = "destroyed" \/ \E k \in Loops, o \in Ops : Has(q[k], Fn(o, c))
  /\ \A l \in IoLoops : phase[l] = "exited" => q[l] = <<>>

\* Such a step concerns c only: the others are still pointed to, and what is
\* known of them is not disturbed.
LEMMA OneConnection ==
  ASSUME ServerIInv, Running, NEW c \in Conns, NEW st, NEW map, NEW q,
         StepOf(c, st, map, q), Settle(st, map, q),
         UNCHANGED <<pc, started, numThreads, next, loopsSize, listenning, idleFd, nextConnId,
                     joining, phase, quit, loopOf, fdOf, backlog, arrived, others, dropped>>,
         batch' \in [IoLoops -> Nat], \A l \in IoLoops : batch'[l] \in 0..Len(q[l])
  PROVE  /\ connections' = map /\ functors' = q /\ Running'
         /\ \A k \in Loops, o \in Ops, d \in Conns : In(k, o, d)' <=> Has(q[k], Fn(o, d))
         /\ stage'[c] = IF Ref(c)' THEN st[c] ELSE "dead"
         /\ StageOf(c)' => ServerIInv'
<1>1. Types /\ TypeOK /\ Numbers /\ Placed /\ EndInTurn /\ Descriptors
  BY DEF ServerIInv, Types
<1>2. \A d \in Conns : StageOf(d)
  BY DEF ServerIInv, StagesOf
<1>3. /\ st \in [Conns -> Stages] /\ map \subseteq connections /\ q \in Queues /\ InOrder(q)
      /\ stage[c] \in Alive /\ st[c] \in Alive
  BY DEF StepOf
<1>4. Settled(st) /\ connections' = map /\ functors' = q
  BY <1>3, SettleMeans
<1>5. \A k, o, d : In(k, o, d)' <=> Has(q[k], Fn(o, d))
  BY <1>4 DEF In
<1>6. ASSUME NEW d \in Conns, d # c
      PROVE  /\ st[d] = stage[d] /\ (d \in connections' <=> d \in connections)
             /\ \A k \in Loops, o \in Ops : In(k, o, d)' <=> In(k, o, d)
             /\ Ref(d)' <=> Ref(d)
  <2>1. /\ st[d] = stage[d] /\ (d \in connections' <=> d \in connections)
        /\ \A k \in Loops, o \in Ops : In(k, o, d)' <=> In(k, o, d)
    BY <1>4, <1>5, <1>6 DEF StepOf
  <2> QED
    BY <2>1 DEF Ref
<1>7. ASSUME NEW d \in Conns, d # c, st[d] \in Alive PROVE Ref(d)'
  BY <1>1, <1>2, <1>6, <1>7, AliveRef
<1>8. Ref(c)' \/ st[c] = "destroyed"
  <2>1. c \in map \/ st[c] = "destroyed" \/ \E k \in Loops, o \in Ops : Has(q[k], Fn(o, c))
    BY DEF StepOf
  <2> QED
    BY <2>1, <1>4, <1>5 DEF Ref
<1>9. failed' = failed /\ failed = "none"
  <2>1. \A d \in Conns : st[d] \in Alive /\ ~Ref(d)' => st[d] = "destroyed"
    BY <1>7, <1>8
  <2> QED
    BY <2>1, <1>4 DEF Settled, Running
<1>10. /\ stage' \in [Conns -> Stages]
       /\ stage'[c] = IF Ref(c)' THEN st[c] ELSE "dead"
       /\ \A d \in Conns : d # c => stage'[d] = stage[d]
  <2>1. stage' \in [Conns -> Stages]
    BY <1>4 DEF Settled
  <2>2. \A d \in Conns : stage'[d] = IF st[d] \in Alive /\ ~Ref(d)' THEN "dead" ELSE st[d]
    BY <1>4 DEF Settled
  <2>3. stage'[c] = IF Ref(c)' THEN st[c] ELSE "dead"
    BY <2>2, <1>3
  <2>4. \A d \in Conns : d # c => stage'[d] = stage[d]
    BY <2>2, <1>6, <1>7
  <2> QED
    BY <2>1, <2>3, <2>4
<1>11. Descriptors' /\ open' \subseteq Fds /\ (others \subseteq open)'
  <2>1. \A d \in Conns : st[d] \in Alive <=> stage[d] \in Alive
    BY <1>3, <1>6
  <2> QED
    BY <2>1, <1>1, <1>3, SettleOwners
<1>12. Types'
  <2>1. connections' \subseteq Conns
    BY <1>1, <1>3, <1>4 DEF TypeOK
  <2>2. \A l \in Loops : functors'[l] \in Seq(Functors)
    BY <1>3, <1>4 DEF Queues
  <2>3. functors' \in Queues /\ \A l \in IoLoops : batch'[l] \in 0..Len(functors'[l])
    BY <1>3, <1>4
  <2> QED
    BY <2>1, <2>2, <2>3, <1>1, <1>10, <1>11 DEF Types, TypeOK
<1>13. Numbers'
  <2>1. \A d \in Conns : stage'[d] = "none" <=> stage[d] = "none"
    BY <1>3, <1>10 DEF Alive
  <2> QED
    BY <2>1, <1>1 DEF Numbers
<1>14. Placed'
  <2> SUFFICES ASSUME NEW l \in Loops, NEW d \in Conns
               PROVE  /\ In(l, "established", d)' => l = loopOf[d] /\ l # Base
                      /\ In(l, "destroyed", d)' => l = loopOf[d]
                      /\ In(l, "removal", d)' => l = Base /\ loopOf[d] # Base
    BY DEF Placed
  <2>1. CASE d = c
    BY <2>1, <1>5 DEF StepOf
  <2>2. CASE d # c
    BY <2>2, <1>1, <1>6 DEF Placed, Ops
  <2> QED
    BY <2>1, <2>2
<1>15. EndInTurn'
  <2>1. Ending' <=> Ending
    BY DEF Ending
  <2>2. Ending => connections' = {}
    BY <1>1, <1>3, <1>4 DEF EndInTurn
  <2>3. \A l \in IoLoops : phase[l] = "exited" => functors'[l] = <<>>
    BY <1>4 DEF StepOf
  <2> QED
    BY <2>1, <2>2, <2>3, <1>1 DEF EndInTurn
<1>16. ASSUME NEW d \in Conns, d # c PROVE StageOf(d)'
  <2>1. /\ loopOf[d] \in Loops /\ Base \in Loops /\ loopOf'[d] = loopOf[d]
    BY <1>1, LoopsType DEF TypeOK
  <2>2. (Est(d)' <=> Est(d)) /\ (Des(d)' <=> Des(d)) /\ (Rem(d)' <=> Rem(d))
    <3>1. (Est(d)' <=> In(loopOf[d], "established", d)') /\ (Des(d)' <=> In(loopOf[d], "destroyed", d)')
      BY <2>1 DEF Est, Des, In
    <3> QED
      BY <3>1, <2>1, <1>6, <1>16 DEF Est, Des, Rem, Ops
  <2>3. stage'[d] = stage[d] /\ (d \in connections' <=> d \in connections)
    BY <1>6, <1>10, <1>16
  <2>4. Serving' <=> Serving
    BY DEF Serving
  <2>5. StageOf(d)
    BY <1>2
  <2> QED
    BY <2>1, <2>2, <2>3, <2>4, <2>5 DEF StageOf
<1>17. InOrder(functors)' /\ FailsAsNamed' /\ Running'
  <2>1. InOrder(functors)'
    BY <1>3, <1>4 DEF InOrder
  <2> QED
    BY <2>1, <1>9 DEF FailsAsNamed, Running
<1>18. StageOf(c)' => StagesOf'
  BY <1>16 DEF StagesOf
<1> QED
  BY <1>4, <1>5, <1>10, <1>11, <1>12, <1>13, <1>14, <1>15, <1>17, <1>18 DEF ServerIInv

\* A functor is queued for c: what PushOrder says, for the queues q from which
\* at most functors of c were taken.
Pushable(c, st, map, q, l, op) ==
  /\ st \in [Conns -> Stages] /\ map \subseteq connections /\ connections \ {c} \subseteq map
  /\ stage[c] \in Alive /\ st[c] \in Alive /\ \A d \in Conns : d # c => st[d] = stage[d]
  /\ q \in Queues /\ InOrder(q)
  /\ \A k \in Loops, o \in Ops, d \in Conns : Has(q[k], Fn(o, d)) => In(k, o, d)
  /\ \A k \in Loops, o \in Ops, d \in Conns : d # c /\ In(k, o, d) => Has(q[k], Fn(o, d))
  /\ \A k \in IoLoops : phase[k] = "exited" => q[k] = <<>> /\ k # l
  /\ ~Has(q[l], Fn(op, c)) /\ op # "established"
  /\ op = "destroyed" => l = loopOf[c]
  /\ op = "removal" => l = Base /\ loopOf[c] # Base

Pushed(q, r, l, op, c) ==
  /\ \A k \in Loops : Len(r[k]) >= Len(q[k])
  /\ \A k \in Loops, o \in Ops, d \in Conns :
       Has(r[k], Fn(o, d)) <=> Has(q[k], Fn(o, d)) \/ (k = l /\ o = op /\ d = c)

LEMMA PushStep ==
  ASSUME ServerIInv, Running, NEW c \in Conns, NEW st, NEW map, NEW q, NEW l \in Loops, NEW op \in Ops,
         Pushable(c, st, map, q, l, op)
  PROVE  /\ StepOf(c, st, map, Push(q, l, op, c))
         /\ Pushed(q, Push(q, l, op, c), l, op, c)
<1> DEFINE r == Push(q, l, op, c)
<1>1. /\ r \in Queues /\ InOrder(r)
      /\ \A k \in Loops : Len(r[k]) >= Len(q[k])
      /\ \A k \in Loops : k # l => r[k] = q[k]
      /\ \A k \in Loops, o \in Ops, d \in Conns :
           Has(r[k], Fn(o, d)) <=> Has(q[k], Fn(o, d)) \/ (k = l /\ o = op /\ d = c)
  BY PushOrder DEF Pushable
<1> HIDE DEF r
<1>2. Placed /\ TypeOK
  BY DEF ServerIInv, Types
<1>3. \A d \in Conns : d # c =>
        /\ st[d] = stage[d] /\ (d \in map <=> d \in connections)
        /\ \A k \in Loops, o \in Ops : Has(r[k], Fn(o, d)) <=> In(k, o, d)
  BY <1>1 DEF Pushable
<1>4. ASSUME NEW k \in Loops
      PROVE  /\ Has(r[k], Fn("established", c)) => k = loopOf[c] /\ k # Base
             /\ Has(r[k], Fn("destroyed", c)) => k = loopOf[c]
             /\ Has(r[k], Fn("removal", c)) => k = Base /\ loopOf[c] # Base
  <2>1. /\ In(k, "established", c) => k = loopOf[c] /\ k # Base
        /\ In(k, "destroyed", c) => k = loopOf[c]
        /\ In(k, "removal", c) => k = Base /\ loopOf[c] # Base
    BY <1>2 DEF Placed
  <2>2. \A o \in Ops : Has(r[k], Fn(o, c)) => In(k, o, c) \/ (k = l /\ o = op)
    BY <1>1 DEF Pushable
  <2> QED
    BY <2>1, <2>2 DEF Ops, Pushable
<1>5. \E k \in Loops, o \in Ops : Has(r[k], Fn(o, c))
  BY <1>1
<1>6. \A k \in IoLoops : phase[k] = "exited" => r[k] = <<>>
  BY <1>1, LoopsType DEF Pushable
<1>7. StepOf(c, st, map, r)
  BY <1>1, <1>3, <1>4, <1>5, <1>6 DEF StepOf, Pushable
<1> QED
  BY <1>1, <1>7 DEF r, Pushed

\* handleClose, from an event or from forceCloseInLoop.
LEMMA CloseKeeps ==
  ASSUME ServerIInv, NEW c \in Conns, NEW s \in Down, Running, stage[c] \in Up, Close(c, s)
  PROVE  ServerIInv'
<1>0. PICK l \in Loops : l = loopOf[c]
  BY DEF ServerIInv, Types, TypeOK
<1> DEFINE st == [stage EXCEPT ![c] = s]
<1>1. /\ Running /\ stage[c] \in Up
      /\ \/ l = Base /\ c \notin connections
         \/ /\ l = Base /\ c \in connections
            /\ Settle(st, connections \ {c}, Push(functors, Base, "destroyed", c))
         \/ l # Base /\ Settle(st, connections, Push(functors, Base, "removal", c))
      /\ UNCHANGED <<pc, started, numThreads, next, loopsSize, listenning, idleFd, nextConnId,
                     joining, phase, quit, loopOf, fdOf, backlog, arrived, others, dropped>>
      /\ batch' = batch
  BY <1>0 DEF Close, poolVars, acceptVars, srvVars, loopVars, kernelVars
<1> HIDE DEF Close
<1>2. Types /\ TypeOK /\ Placed /\ EndInTurn /\ InOrder(functors) /\ StageOf(c)
  BY <1>1 DEF ServerIInv, Types, StagesOf
<1>3. /\ st \in [Conns -> Stages] /\ st[c] \in Down /\ \A d \in Conns : d # c => st[d] = stage[d]
      /\ stage[c] \in Alive /\ st[c] \in Alive
  BY <1>1, <1>2 DEF TypeOK, Stages, Alive
<1>4. /\ functors \in Queues /\ batch \in [IoLoops -> Nat]
      /\ \A k, o, d : In(k, o, d) <=> Has(functors[k], Fn(o, d))
      /\ \A k \in IoLoops : phase[k] = "exited" => functors[k] = <<>> /\ k # Base
      /\ \A k \in IoLoops : batch[k] \in 0..Len(functors[k])
  BY <1>2, LoopsType DEF Types, TypeOK, In, EndInTurn
<1>5. /\ l \in Loops /\ Base \in Loops
      /\ \A k \in Loops :
              /\ In(k, "established", c) <=> k = loopOf[c] /\ Est(c)
              /\ In(k, "destroyed", c) <=> k = loopOf[c] /\ Des(c)
              /\ In(k, "removal", c) <=> k = Base /\ Rem(c)
      /\ Est(c) => loopOf[c] # Base
      /\ Rem(c) => loopOf[c] # Base
  BY <1>0, <1>2, PlacedIn
<1>6. ~Est(c) /\ ~Rem(c) /\ (c \in connections \/ (Des(c) /\ loopOf[c] # Base))
      /\ (c \in connections => ~Des(c)) /\ (Serving => ~Des(c))
  BY <1>1, <1>2 DEF StageOf
<1> HIDE DEF st
<1>7. CASE l = Base
  <2> DEFINE r == Push(functors, Base, "destroyed", c)
  <2>1. c \in connections /\ Settle(st, connections \ {c}, r)
    BY <1>0, <1>1, <1>6, <1>7
  <2>2. ~Has(functors[Base], Fn("destroyed", c))
    BY <2>1, <1>4, <1>5, <1>6
  <2>3. "destroyed" \in Ops /\ "destroyed" # "established" /\ "destroyed" # "removal" /\ Base = loopOf[c]
    BY <1>0, <1>7 DEF Ops
  <2>4. /\ StepOf(c, st, connections \ {c}, r)
        /\ \A k \in Loops : Len(r[k]) >= Len(functors[k])
        /\ \A k \in Loops, o \in Ops, d \in Conns :
             Has(r[k], Fn(o, d)) <=> Has(functors[k], Fn(o, d)) \/ (k = Base /\ o = "destroyed" /\ d = c)
    <3>1. Pushable(c, st, connections \ {c}, functors, Base, "destroyed")
      BY <2>2, <2>3, <1>2, <1>3, <1>4, <1>5 DEF Pushable
    <3>2. Running /\ Base \in Loops
      BY <1>1, <1>5
    <3> HIDE DEF r, Base
    <3>3. StepOf(c, st, connections \ {c}, r) /\ Pushed(functors, r, Base, "destroyed", c)
      BY <3>1, <3>2, <2>3, PushStep DEF r
    <3> QED
      BY <3>3 DEF Pushed
  <2> HIDE DEF r
  <2>5. batch' \in [IoLoops -> Nat] /\ \A k \in IoLoops : batch'[k] \in 0..Len(r[k])
    <3>1. r \in Queues /\ IoLoops \subseteq Loops /\ \A k \in IoLoops : Len(r[k]) \in Nat
      BY <2>4, LoopsType DEF StepOf, Queues
    <3> QED
      BY <3>1, <2>4, <1>1, <1>4
  <2>6. /\ connections' = connections \ {c} /\ functors' = r
        /\ \A k \in Loops, o \in Ops, d \in Conns : In(k, o, d)' <=> Has(r[k], Fn(o, d))
        /\ stage'[c] = IF Ref(c)' THEN st[c] ELSE "dead"
        /\ StageOf(c)' => ServerIInv'
    BY <2>1, <2>4, <2>5, <1>1, OneConnection
  <2>7. \A k \in Loops, o \in Ops : In(k, o, c)' <=> In(k, o, c) \/ (k = Base /\ o = "destroyed")
    BY <2>4, <2>6, <1>4
  <2>8. /\ ~Est(c)' /\ Des(c)' /\ ~Rem(c)' /\ Ref(c)'
    <3>1. Ref(c)'
      BY <2>3, <2>7, <1>5 DEF Ref
    <3>2. loopOf' = loopOf /\ l = loopOf[c]
      BY <1>0, <1>1
    <3>3. Est(c)' <=> In(l, "established", c)'
      BY <3>2 DEF Est, In
    <3>4. Des(c)' <=> In(l, "destroyed", c)'
      BY <3>2 DEF Des, In
    <3>5. Rem(c)' <=> In(Base, "removal", c)'
      BY DEF Rem
    <3> QED
      BY <3>1, <3>3, <3>4, <3>5, <1>0, <2>7, <2>3, <1>5, <1>6, <1>7 DEF Ops
  <2>9. stage'[c] \in Down /\ c \notin connections'
    BY <2>6, <2>8, <1>3
  <2>10. StageOf(c)'
    BY <2>8, <2>9 DEF StageOf
  <2> QED
    BY <2>6, <2>10
<1>8. CASE l # Base
  <2> DEFINE r == Push(functors, Base, "removal", c)
  <2>1. Settle(st, connections, r)
    BY <1>1, <1>8
  <2>2. ~Has(functors[Base], Fn("removal", c))
    BY <1>4, <1>5, <1>6
  <2>3. "removal" \in Ops /\ "removal" # "established" /\ "removal" # "destroyed" /\ loopOf[c] # Base
    BY <1>0, <1>8 DEF Ops
  <2>4. /\ StepOf(c, st, connections, r)
        /\ \A k \in Loops : Len(r[k]) >= Len(functors[k])
        /\ \A k \in Loops, o \in Ops, d \in Conns :
             Has(r[k], Fn(o, d)) <=> Has(functors[k], Fn(o, d)) \/ (k = Base /\ o = "removal" /\ d = c)
    <3>1. Pushable(c, st, connections, functors, Base, "removal")
      BY <2>2, <2>3, <1>2, <1>3, <1>4, <1>5 DEF Pushable
    <3>2. Running /\ Base \in Loops
      BY <1>1, <1>5
    <3> HIDE DEF r, Base
    <3>3. StepOf(c, st, connections, r) /\ Pushed(functors, r, Base, "removal", c)
      BY <3>1, <3>2, <2>3, PushStep DEF r
    <3> QED
      BY <3>3 DEF Pushed
  <2> HIDE DEF r
  <2>5. batch' \in [IoLoops -> Nat] /\ \A k \in IoLoops : batch'[k] \in 0..Len(r[k])
    <3>1. r \in Queues /\ IoLoops \subseteq Loops /\ \A k \in IoLoops : Len(r[k]) \in Nat
      BY <2>4, LoopsType DEF StepOf, Queues
    <3> QED
      BY <3>1, <2>4, <1>1, <1>4
  <2>6. /\ connections' = connections /\ functors' = r
        /\ \A k \in Loops, o \in Ops, d \in Conns : In(k, o, d)' <=> Has(r[k], Fn(o, d))
        /\ stage'[c] = IF Ref(c)' THEN st[c] ELSE "dead"
        /\ StageOf(c)' => ServerIInv'
    BY <2>1, <2>4, <2>5, <1>1, OneConnection
  <2>7. \A k \in Loops, o \in Ops : In(k, o, c)' <=> In(k, o, c) \/ (k = Base /\ o = "removal")
    BY <2>4, <2>6, <1>4
  <2>8. ~Est(c)' /\ (Des(c)' <=> Des(c)) /\ Rem(c)' /\ Ref(c)'
    <3>1. Ref(c)'
      BY <2>3, <2>7, <1>5 DEF Ref
    <3>2. loopOf' = loopOf /\ l = loopOf[c]
      BY <1>0, <1>1
    <3>3. Est(c)' <=> In(l, "established", c)'
      BY <3>2 DEF Est, In
    <3>4. Des(c)' <=> In(l, "destroyed", c)'
      BY <3>2 DEF Des, In
    <3>5. Rem(c)' <=> In(Base, "removal", c)'
      BY DEF Rem
    <3> QED
      BY <3>1, <3>3, <3>4, <3>5, <1>0, <2>7, <2>3, <1>5, <1>6, <1>8 DEF Ops
  <2>9. stage'[c] \in Down
    BY <2>6, <2>8, <1>3
  <2>10. Serving' <=> Serving
    BY <1>1 DEF Serving
  <2>11. StageOf(c)'
    BY <2>6, <2>8, <2>9, <2>10, <1>6 DEF StageOf
  <2> QED
    BY <2>6, <2>11
<1> QED
  BY <1>7, <1>8

\* ~TcpServer and one connection: one of its own loop is destroyed and has no
\* reference left, one of another loop gets its last functor.
LEMMA DestroyConnectionKeeps ==
  ASSUME ServerIInv, NEW c \in Conns, DestroyConnection(c)
  PROVE  ServerIInv'
<1>0. PICK l \in Loops : l = loopOf[c]
  BY DEF ServerIInv, Types, TypeOK
<1> DEFINE map == connections \ {c}
<1>1. /\ Running /\ pc = "dtor" /\ c \in connections
      /\ \/ l = Base /\ stage[c] = "half" /\ Abort("half closed")
         \/ l = Base /\ stage[c] \notin Up \cup Down
         \/ l = Base /\ stage[c] # "half" /\ Settle([stage EXCEPT ![c] = "destroyed"], map, functors)
         \/ l # Base /\ Settle(stage, map, Push(functors, l, "destroyed", c))
      /\ UNCHANGED <<pc, started, numThreads, next, loopsSize, listenning, idleFd, nextConnId,
                     joining, phase, quit, loopOf, fdOf, backlog, arrived, others, dropped>>
      /\ batch' = batch
  BY <1>0 DEF DestroyConnection, ConnectDestroyed, poolVars, acceptVars, srvVars, loopVars, kernelVars
<1> HIDE DEF DestroyConnection
<1>10. /\ Running /\ batch' = batch
       /\ UNCHANGED <<pc, started, numThreads, next, loopsSize, listenning, idleFd, nextConnId,
                      joining, phase, quit, loopOf, fdOf, backlog, arrived, others, dropped>>
  BY <1>1
<1>2. Types /\ TypeOK /\ Placed /\ EndInTurn /\ InOrder(functors) /\ StageOf(c)
  BY <1>1 DEF ServerIInv, Types, StagesOf
<1>3. \A k \in IoLoops : phase[k] # "exited"
  BY <1>1, <1>2 DEF EndInTurn, Ending
<1>4. /\ functors \in Queues /\ batch \in [IoLoops -> Nat]
      /\ \A k, o, d : In(k, o, d) <=> Has(functors[k], Fn(o, d))
      /\ \A k \in IoLoops : batch[k] \in 0..Len(functors[k])
      /\ stage \in [Conns -> Stages] /\ connections \subseteq Conns
  BY <1>2 DEF Types, TypeOK, In
<1>5. /\ l \in Loops /\ Base \in Loops
      /\ \A k \in Loops :
              /\ In(k, "established", c) <=> k = loopOf[c] /\ Est(c)
              /\ In(k, "destroyed", c) <=> k = loopOf[c] /\ Des(c)
              /\ In(k, "removal", c) <=> k = Base /\ Rem(c)
      /\ Est(c) => loopOf[c] # Base
      /\ Rem(c) => loopOf[c] # Base
  BY <1>0, <1>2, PlacedIn
<1>6. /\ ~Des(c) /\ stage[c] \in {"connecting"} \cup Up \cup Down
      /\ stage[c] = "connecting" <=> Est(c)
      /\ stage[c] = "connecting" => ~Rem(c)
      /\ stage[c] \in Up => ~Rem(c)
      /\ stage[c] \in Down => Rem(c)
  <2>1. stage[c] \in Stages
    BY <1>4
  <2> QED
    BY <2>1, <1>1, <1>2 DEF StageOf, Stages
<1>9. CASE l = Base /\ stage[c] = "half"
  <2>1. Abort("half closed")
    BY <1>1, <1>9
  <2>2. FailsAsNamed'
    BY <2>1, <1>1, <1>9 DEF FailsAsNamed, Abort, Serving
  <2>3. batch' \in [IoLoops -> Nat] /\ \A k \in IoLoops : batch'[k] \in 0..Len(functors[k])
    BY <1>1, <1>4
  <2> QED
    BY <2>1, <2>2, <2>3, <1>1, AbortKeeps
<1>7. CASE l = Base /\ stage[c] # "half"
  <2> DEFINE st == [stage EXCEPT ![c] = "destroyed"]
  <2>1. stage[c] = "up" /\ ~Est(c) /\ ~Rem(c)
    BY <1>0, <1>5, <1>6, <1>7
  <2>2. Settle(st, map, functors)
    BY <2>1, <1>1, <1>7
  <2>3. /\ st \in [Conns -> Stages] /\ st[c] = "destroyed" /\ \A d \in Conns : d # c => st[d] = stage[d]
        /\ stage[c] \in Alive /\ st[c] \in Alive
    BY <2>1, <1>4 DEF Stages, Alive
  <2> HIDE DEF st
  <2>4. \A k \in Loops, o \in Ops : ~In(k, o, c)
    BY <2>1, <1>5, <1>6 DEF Ops
  <2>5. \A k \in Loops :
          /\ ~Has(functors[k], Fn("established", c))
          /\ ~Has(functors[k], Fn("destroyed", c))
          /\ ~Has(functors[k], Fn("removal", c))
    BY <2>4, <1>4 DEF Ops
  <2>6. \A d \in Conns : d # c =>
             /\ st[d] = stage[d] /\ (d \in map <=> d \in connections)
             /\ \A k \in Loops, o \in Ops : Has(functors[k], Fn(o, d)) <=> In(k, o, d)
    BY <2>3, <1>4
  <2>7. StepOf(c, st, map, functors)
    BY <2>3, <2>5, <2>6, <1>2, <1>3, <1>4 DEF StepOf
  <2>8. batch' \in [IoLoops -> Nat] /\ \A k \in IoLoops : batch'[k] \in 0..Len(functors[k])
    BY <1>10, <1>4
  <2> HIDE DEF map
  <2>9. /\ connections' = map /\ functors' = functors
        /\ \A k \in Loops, o \in Ops, d \in Conns : In(k, o, d)' <=> Has(functors[k], Fn(o, d))
        /\ stage'[c] = IF Ref(c)' THEN st[c] ELSE "dead"
        /\ StageOf(c)' => ServerIInv'
    BY <2>2, <2>7, <2>8, <1>10, OneConnection
  <2>10. c \notin connections' /\ \A k \in Loops, o \in Ops : ~In(k, o, c)'
    BY <2>4, <2>9, <1>4 DEF map
  <2>11. stage'[c] = "dead"
    BY <2>9, <2>10 DEF Ref
  <2>12. ~Est(c)' /\ ~Des(c)' /\ ~Rem(c)'
    <3>1. loopOf' = loopOf /\ l = loopOf[c]
      BY <1>0, <1>1
    <3>2. Est(c)' <=> In(l, "established", c)'
      BY <3>1 DEF Est, In
    <3>3. Des(c)' <=> In(l, "destroyed", c)'
      BY <3>1 DEF Des, In
    <3>4. Rem(c)' <=> In(Base, "removal", c)'
      BY DEF Rem
    <3> QED
      BY <3>2, <3>3, <3>4, <1>0, <2>10, <1>5 DEF Ops
  <2>13. StageOf(c)'
    BY <2>10, <2>11, <2>12 DEF StageOf
  <2> QED
    BY <2>9, <2>13
<1>8. CASE l # Base
  <2> DEFINE r == Push(functors, l, "destroyed", c)
  <2>1. Settle(stage, map, r)
    BY <1>1, <1>8
  <2>2. ~Has(functors[l], Fn("destroyed", c)) /\ stage[c] \in Alive
    BY <1>0, <1>4, <1>5, <1>6 DEF Alive
  <2>3. "destroyed" \in Ops /\ "destroyed" # "established" /\ "destroyed" # "removal" /\ l = loopOf[c]
    BY <1>0 DEF Ops
  <2>4. map \subseteq connections /\ connections \ {c} \subseteq map
    OBVIOUS
  <2>5. /\ StepOf(c, stage, map, r)
        /\ \A k \in Loops : Len(r[k]) >= Len(functors[k])
        /\ \A k \in Loops, o \in Ops, d \in Conns :
             Has(r[k], Fn(o, d)) <=> Has(functors[k], Fn(o, d)) \/ (k = l /\ o = "destroyed" /\ d = c)
    <3>1. Pushable(c, stage, map, functors, l, "destroyed")
      BY <2>2, <2>3, <2>4, <1>2, <1>3, <1>4, <1>5 DEF Pushable
    <3>2. Running /\ Base \in Loops
      BY <1>1, <1>5
    <3> HIDE DEF r, Base
    <3>3. StepOf(c, stage, map, r) /\ Pushed(functors, r, l, "destroyed", c)
      BY <3>1, <3>2, <2>3, PushStep DEF r
    <3> QED
      BY <3>3 DEF Pushed
  <2> HIDE DEF r, map
  <2>6. batch' \in [IoLoops -> Nat] /\ \A k \in IoLoops : batch'[k] \in 0..Len(r[k])
    <3>1. r \in Queues /\ IoLoops \subseteq Loops /\ \A k \in IoLoops : Len(r[k]) \in Nat
      BY <2>5, LoopsType DEF StepOf, Queues
    <3> QED
      BY <3>1, <2>5, <1>10, <1>4
  <2>7. /\ connections' = map /\ functors' = r
        /\ \A k \in Loops, o \in Ops, d \in Conns : In(k, o, d)' <=> Has(r[k], Fn(o, d))
        /\ stage'[c] = IF Ref(c)' THEN stage[c] ELSE "dead"
        /\ StageOf(c)' => ServerIInv'
    BY <2>1, <2>5, <2>6, <1>10, OneConnection
  <2>8. \A k \in Loops, o \in Ops : In(k, o, c)' <=> In(k, o, c) \/ (k = l /\ o = "destroyed")
    BY <2>5, <2>7, <1>4
  <2>9. (Est(c)' <=> Est(c)) /\ Des(c)' /\ (Rem(c)' <=> Rem(c)) /\ Ref(c)'
    <3>1. Ref(c)'
      BY <2>3, <2>8, <1>5 DEF Ref
    <3>2. loopOf' = loopOf /\ l = loopOf[c]
      BY <1>0, <1>1
    <3>3. Est(c)' <=> In(l, "established", c)'
      BY <3>2 DEF Est, In
    <3>4. Des(c)' <=> In(l, "destroyed", c)'
      BY <3>2 DEF Des, In
    <3>5. Rem(c)' <=> In(Base, "removal", c)'
      BY DEF Rem
    <3> QED
      BY <3>1, <3>3, <3>4, <3>5, <1>0, <2>8, <2>3, <1>5, <1>8 DEF Ops
  <2>10. stage'[c] = stage[c] /\ c \notin connections'
    BY <2>7, <2>9 DEF map
  <2>11. ~Serving' /\ loopOf'[c] # Base
    BY <1>0, <1>1, <1>8 DEF Serving
  <2>12. StageOf(c)'
    BY <2>9, <2>10, <2>11, <1>6 DEF StageOf
  <2> QED
    BY <2>7, <2>12
<1> QED
  BY <1>7, <1>8, <1>9

-----------------------------------------------------------------------------
(* doPendingFunctors *)

\* The step of a loop that runs its first functor, of connection c, and leaves
\* the queues r.
Running1(l, op, c, r) ==
  /\ Running /\ functors[l] # <<>>
  /\ l = Base => pc \in {"loop", "gone"}
  /\ r = Pop(functors, l)
  /\ op = Head(functors[l]).op /\ c = Head(functors[l]).c
  /\ UNCHANGED <<pc, started, numThreads, next, loopsSize, listenning, idleFd, nextConnId,
                 joining, phase, quit, loopOf, fdOf, backlog, arrived, others, dropped>>
  /\ batch' = IF l = Base THEN batch ELSE [batch EXCEPT ![l] = @ - 1]
  /\ l # Base => batch[l] > 0

Popped(r, l, op, c) ==
  /\ r \in Queues /\ InOrder(r)
  /\ \A k \in Loops, o \in Ops, d \in Conns :
       Has(r[k], Fn(o, d)) <=> In(k, o, d) /\ ~(k = l /\ o = op /\ d = c)
  /\ \A k \in IoLoops : phase[k] = "exited" => r[k] = <<>>
  /\ batch' \in [IoLoops -> Nat] /\ \A k \in IoLoops : batch'[k] \in 0..Len(r[k])
  /\ In(l, op, c) /\ (op = "destroyed" => ~In(l, "established", c))

LEMMA PopStep ==
  ASSUME ServerIInv, NEW l \in Loops, NEW op, NEW c, NEW r, Running1(l, op, c, r)
  PROVE  op \in Ops /\ c \in Conns /\ Popped(r, l, op, c)
<1>1. Types /\ TypeOK /\ EndInTurn /\ InOrder(functors) /\ functors \in Queues
  BY DEF ServerIInv, Types
<1>2. /\ functors[l] # <<>> /\ r = Pop(functors, l)
      /\ op = Head(functors[l]).op /\ c = Head(functors[l]).c
      /\ batch' = IF l = Base THEN batch ELSE [batch EXCEPT ![l] = @ - 1]
      /\ l # Base => batch[l] > 0
  BY DEF Running1
<1>3. /\ r \in Queues /\ InOrder(r)
      /\ op \in Ops /\ c \in Conns
      /\ Has(functors[l], Fn(op, c))
      /\ op = "destroyed" => ~Has(functors[l], Fn("established", c))
      /\ Len(r[l]) = Len(functors[l]) - 1
      /\ \A k \in Loops : k # l => r[k] = functors[k]
      /\ \A k \in Loops, o \in Ops, d \in Conns :
           Has(r[k], Fn(o, d)) <=> Has(functors[k], Fn(o, d)) /\ ~(k = l /\ o = op /\ d = c)
  <2> DEFINE h == Head(functors[l])
  <2>1. /\ r \in Queues /\ InOrder(r)
        /\ h.op \in Ops /\ h.c \in Conns
        /\ Has(functors[l], Fn(h.op, h.c))
        /\ h.op = "destroyed" => ~Has(functors[l], Fn("established", h.c))
        /\ Len(r[l]) = Len(functors[l]) - 1
        /\ \A k \in Loops : k # l => r[k] = functors[k]
        /\ \A k \in Loops, o \in Ops, d \in Conns :
             Has(r[k], Fn(o, d))
               <=> Has(functors[k], Fn(o, d)) /\ ~(k = l /\ o = h.op /\ d = h.c)
    BY <1>1, <1>2, PopOrder
  <2>2. op = h.op /\ c = h.c
    BY <1>2
  <2> HIDE DEF h
  <2> QED
    BY <2>1, <2>2
<1>4. In(l, op, c) /\ (op = "destroyed" => ~In(l, "established", c))
      /\ \A k \in Loops, o \in Ops, d \in Conns :
           Has(r[k], Fn(o, d)) <=> In(k, o, d) /\ ~(k = l /\ o = op /\ d = c)
  BY <1>3 DEF In
<1>5. \A k \in IoLoops : phase[k] = "exited" => r[k] = <<>>
  BY <1>1, <1>2, <1>3, LoopsType DEF EndInTurn
<1>6. batch' \in [IoLoops -> Nat] /\ \A k \in IoLoops : batch'[k] \in 0..Len(r[k])
  <2>1. /\ batch \in [IoLoops -> Nat] /\ \A k \in IoLoops : batch[k] \in 0..Len(functors[k])
        /\ \A k \in IoLoops : Len(functors[k]) \in Nat /\ Len(r[k]) \in Nat
    BY <1>1, <1>3, LoopsType DEF Types, TypeOK, Queues
  <2>2. CASE l = Base
    <3>1. batch' = batch /\ \A k \in IoLoops : r[k] = functors[k]
      BY <2>2, <1>2, <1>3, LoopsType
    <3> QED
      BY <3>1, <2>1
  <2>3. CASE l # Base
    <3>1. l \in IoLoops /\ batch[l] > 0 /\ batch' = [batch EXCEPT ![l] = batch[l] - 1]
      BY <2>3, <1>2, LoopsType
    <3>2. batch[l] - 1 \in Nat /\ batch[l] - 1 \in 0..Len(r[l])
      BY <3>1, <2>1, <1>3
    <3>3. \A k \in IoLoops : k # l => r[k] = functors[k]
      BY <1>3, LoopsType
    <3>4. batch' \in [IoLoops -> Nat]
      BY <3>1, <3>2, <2>1
    <3>5. \A k \in IoLoops : batch'[k] = IF k = l THEN batch[l] - 1 ELSE batch[k]
      BY <3>1, <2>1
    <3> QED
      BY <3>2, <3>3, <3>4, <3>5, <2>1
  <2> QED
    BY <2>2, <2>3
<1> QED
  BY <1>3, <1>4, <1>5, <1>6 DEF Popped

\* What the functors of c tell about it before the step.
LEMMA BeforeRun ==
  ASSUME ServerIInv, Running, NEW c \in Conns
  PROVE  /\ TypeOK /\ functors \in Queues /\ stage \in [Conns -> Stages] /\ stage[c] \in Stages
         /\ loopOf[c] \in Loops /\ Base \in Loops /\ StageOf(c)
         /\ connections \subseteq Conns
         /\ \A k \in Loops :
              /\ In(k, "established", c) <=> k = loopOf[c] /\ Est(c)
              /\ In(k, "destroyed", c) <=> k = loopOf[c] /\ Des(c)
              /\ In(k, "removal", c) <=> k = Base /\ Rem(c)
         /\ Est(c) => loopOf[c] # Base
         /\ Rem(c) => loopOf[c] # Base
<1>1. Types /\ TypeOK /\ Placed /\ StageOf(c)
  BY DEF ServerIInv, Types, StagesOf
<1> QED
  BY <1>1, PlacedIn DEF Types, TypeOK

\* ... and what they are after it.
LEMMA AfterRun ==
  ASSUME NEW c \in Conns, NEW m \in Loops, m = loopOf[c], loopOf' = loopOf
  PROVE  /\ Est(c)' <=> In(m, "established", c)'
         /\ Des(c)' <=> In(m, "destroyed", c)'
         /\ Rem(c)' <=> In(Base, "removal", c)'
BY DEF Est, Des, Rem, In

LEMMA EstablishedKeeps ==
  ASSUME ServerIInv, NEW l \in Loops, NEW c \in Conns, NEW r, Running1(l, "established", c, r),
         ConnectEstablished(c, r)
  PROVE  ServerIInv'
<1> DEFINE st == [stage EXCEPT ![c] = "up"]
<1>1. Popped(r, l, "established", c) /\ Running
  BY PopStep DEF Running1
<1>2. /\ TypeOK /\ functors \in Queues /\ stage \in [Conns -> Stages] /\ stage[c] \in Stages
      /\ loopOf[c] \in Loops /\ Base \in Loops /\ StageOf(c)
      /\ connections \subseteq Conns
      /\ \A k \in Loops :
              /\ In(k, "established", c) <=> k = loopOf[c] /\ Est(c)
              /\ In(k, "destroyed", c) <=> k = loopOf[c] /\ Des(c)
              /\ In(k, "removal", c) <=> k = Base /\ Rem(c)
      /\ Est(c) => loopOf[c] # Base
      /\ Rem(c) => loopOf[c] # Base
  BY <1>1, BeforeRun
<1>3. Est(c) /\ l = loopOf[c] /\ l # Base
  BY <1>1, <1>2 DEF Popped
<1>4. /\ stage[c] = "connecting" /\ ~Rem(c) /\ (c \in connections \/ Des(c))
      /\ (c \in connections => ~Des(c)) /\ (Serving => ~Des(c))
  BY <1>2, <1>3 DEF StageOf
<1>5. Settle(st, connections, r)
  BY <1>4 DEF ConnectEstablished
<1>6. \A k \in Loops, o \in Ops, d \in Conns :
        Has(r[k], Fn(o, d)) <=> In(k, o, d) /\ ~(k = l /\ o = "established" /\ d = c)
  BY <1>1 DEF Popped
<1>7. /\ st \in [Conns -> Stages] /\ st[c] = "up" /\ \A d \in Conns : d # c => st[d] = stage[d]
      /\ stage[c] \in Alive /\ st[c] \in Alive
  BY <1>2, <1>4 DEF Stages, Alive
<1> HIDE DEF st
<1>8. \A k \in Loops :
        /\ ~Has(r[k], Fn("established", c)) /\ ~Has(r[k], Fn("removal", c))
        /\ Has(r[k], Fn("destroyed", c)) <=> k = l /\ Des(c)
  BY <1>2, <1>3, <1>4, <1>6 DEF Ops
<1>9. StepOf(c, st, connections, r)
  <2>1. \A d \in Conns : d # c =>
          /\ st[d] = stage[d]
          /\ \A k \in Loops, o \in Ops : Has(r[k], Fn(o, d)) <=> In(k, o, d)
    BY <1>6, <1>7
  <2>2. c \in connections \/ \E k \in Loops, o \in Ops : Has(r[k], Fn(o, c))
    BY <1>4, <1>8 DEF Ops
  <2> QED
    BY <2>1, <2>2, <1>1, <1>3, <1>7, <1>8 DEF StepOf, Popped
<1>10. /\ connections' = connections
       /\ \A k \in Loops, o \in Ops, d \in Conns : In(k, o, d)' <=> Has(r[k], Fn(o, d))
       /\ stage'[c] = IF Ref(c)' THEN st[c] ELSE "dead"
       /\ StageOf(c)' => ServerIInv'
  BY <1>1, <1>5, <1>9, OneConnection DEF Running1, Popped
<1>11. loopOf' = loopOf /\ pc' = pc
  BY DEF Running1
<1>12. ~Est(c)' /\ (Des(c)' <=> Des(c)) /\ ~Rem(c)'
  BY <1>2, <1>3, <1>8, <1>10, <1>11, AfterRun DEF Ops
<1>13. Ref(c)'
  BY <1>3, <1>4, <1>8, <1>10 DEF Ref, Ops
<1>14. stage'[c] = "up"
  BY <1>7, <1>10, <1>13
<1>15. (Serving' <=> Serving) /\ loopOf'[c] # Base
  BY <1>3, <1>11 DEF Serving
<1>16. StageOf(c)'
  BY <1>4, <1>10, <1>12, <1>14, <1>15 DEF StageOf
<1> QED
  BY <1>10, <1>16

\* connectDestroyed of a half-closed connection comes from ~TcpServer only.
LEMMA HalfClosedKeeps ==
  ASSUME ServerIInv, NEW l \in Loops, NEW c \in Conns, NEW r, Running1(l, "destroyed", c, r),
         ConnectDestroyed(c, connections, r), stage[c] = "half"
  PROVE  ServerIInv'
<1>1. Popped(r, l, "destroyed", c) /\ Running
  BY PopStep DEF Running1
<1>2. /\ TypeOK /\ StageOf(c)
      /\ In(l, "destroyed", c) <=> l = loopOf[c] /\ Des(c)
  BY <1>1, BeforeRun
<1>3. ~Serving
  BY <1>1, <1>2 DEF Popped, StageOf
<1>4. Abort("half closed") /\ UNCHANGED pc
  BY DEF ConnectDestroyed, Running1
<1>5. FailsAsNamed'
  BY <1>3, <1>4 DEF FailsAsNamed, Abort, Serving
<1>6. batch' \in [IoLoops -> Nat] /\ \A k \in IoLoops : batch'[k] \in 0..Len(functors[k])
  <2>1. batch \in [IoLoops -> Nat] /\ \A k \in IoLoops : batch[k] \in 0..Len(functors[k])
    BY <1>2 DEF ServerIInv, Types, TypeOK
  <2>2. batch' = IF l = Base THEN batch ELSE [batch EXCEPT ![l] = @ - 1]
    BY DEF Running1
  <2>3. l # Base => batch[l] > 0
    BY DEF Running1
  <2>4. CASE l = Base
    BY <2>1, <2>2, <2>4
  <2>5. CASE l # Base
    <3>1. l \in IoLoops
      BY <2>5 DEF Loops
    <3>2. batch[l] - 1 \in Nat /\ batch[l] - 1 \in 0..Len(functors[l])
      BY <3>1, <2>1, <2>3, <2>5
    <3> QED
      BY <3>1, <3>2, <2>1, <2>2, <2>5
  <2> QED
    BY <2>4, <2>5
<1>7. UNCHANGED <<pc, started, numThreads, next, loopsSize, listenning, idleFd, nextConnId,
                  joining, phase, quit, loopOf, fdOf, backlog, arrived, others, dropped>>
  BY DEF Running1
<1> QED
  BY <1>4, <1>5, <1>6, <1>7, AbortKeeps

LEMMA DestroyedKeeps ==
  ASSUME ServerIInv, NEW l \in Loops, NEW c \in Conns, NEW r, Running1(l, "destroyed", c, r),
         ConnectDestroyed(c, connections, r), stage[c] # "half"
  PROVE  ServerIInv'
<1> DEFINE st == [stage EXCEPT ![c] = "destroyed"]
<1>1. Popped(r, l, "destroyed", c) /\ Running
  BY PopStep DEF Running1
<1>2. /\ TypeOK /\ functors \in Queues /\ stage \in [Conns -> Stages] /\ stage[c] \in Stages
      /\ loopOf[c] \in Loops /\ Base \in Loops /\ StageOf(c)
      /\ connections \subseteq Conns
      /\ \A k \in Loops :
              /\ In(k, "established", c) <=> k = loopOf[c] /\ Est(c)
              /\ In(k, "destroyed", c) <=> k = loopOf[c] /\ Des(c)
              /\ In(k, "removal", c) <=> k = Base /\ Rem(c)
      /\ Est(c) => loopOf[c] # Base
      /\ Rem(c) => loopOf[c] # Base
  BY <1>1, BeforeRun
<1>3. Des(c) /\ ~Est(c) /\ l = loopOf[c]
  BY <1>1, <1>2 DEF Popped
<1>4. stage[c] # "half" /\ stage[c] \in Up \cup Down /\ c \notin connections /\ (Serving => ~Rem(c))
  BY <1>2, <1>3 DEF StageOf, Stages
<1>5. Settle(st, connections, r)
  BY <1>4 DEF ConnectDestroyed
<1>6. \A k \in Loops, o \in Ops, d \in Conns :
        Has(r[k], Fn(o, d)) <=> In(k, o, d) /\ ~(k = l /\ o = "destroyed" /\ d = c)
  BY <1>1 DEF Popped
<1>7. /\ st \in [Conns -> Stages] /\ st[c] = "destroyed" /\ \A d \in Conns : d # c => st[d] = stage[d]
      /\ stage[c] \in Alive /\ st[c] \in Alive
  BY <1>2, <1>4 DEF Stages, Alive
<1> HIDE DEF st
<1>8. \A k \in Loops :
        /\ ~Has(r[k], Fn("established", c)) /\ ~Has(r[k], Fn("destroyed", c))
        /\ Has(r[k], Fn("removal", c)) <=> k = Base /\ Rem(c)
  BY <1>2, <1>3, <1>4, <1>6 DEF Ops
<1>9. StepOf(c, st, connections, r)
  <2>1. \A d \in Conns : d # c =>
          /\ st[d] = stage[d]
          /\ \A k \in Loops, o \in Ops : Has(r[k], Fn(o, d)) <=> In(k, o, d)
    BY <1>6, <1>7
  <2> QED
    BY <2>1, <1>1, <1>2, <1>7, <1>8 DEF StepOf, Popped
<1>10. /\ connections' = connections
       /\ \A k \in Loops, o \in Ops, d \in Conns : In(k, o, d)' <=> Has(r[k], Fn(o, d))
       /\ stage'[c] = IF Ref(c)' THEN st[c] ELSE "dead"
       /\ StageOf(c)' => ServerIInv'
  BY <1>1, <1>5, <1>9, OneConnection DEF Running1, Popped
<1>11. loopOf' = loopOf /\ pc' = pc
  BY DEF Running1
<1>12. ~Est(c)' /\ ~Des(c)' /\ (Rem(c)' <=> Rem(c))
  BY <1>2, <1>3, <1>8, <1>10, <1>11, AfterRun DEF Ops
<1>13. Ref(c)' <=> Rem(c)
  <2>1. \A k \in Loops, o \in Ops : In(k, o, c)' <=> k = Base /\ o = "removal" /\ Rem(c)
    BY <1>8, <1>10 DEF Ops
  <2> QED
    BY <2>1, <1>2, <1>4, <1>10 DEF Ref, Ops
<1>14. stage'[c] = IF Rem(c) THEN "destroyed" ELSE "dead"
  BY <1>7, <1>10, <1>13
<1>15. Serving' <=> Serving
  BY <1>11 DEF Serving
<1>16. c \notin connections'
  BY <1>4, <1>10
<1>17. StageOf(c)'
  <2>1. CASE Rem(c)
    BY <2>1, <1>4, <1>12, <1>14, <1>15, <1>16 DEF StageOf
  <2>2. CASE ~Rem(c)
    BY <2>2, <1>12, <1>14, <1>15, <1>16 DEF StageOf
  <2> QED
    BY <2>1, <2>2
<1> QED
  BY <1>10, <1>17

\* After ~TcpServer the removal works on a server that is gone.
LEMMA ServerGoneKeeps ==
  ASSUME ServerIInv, NEW l \in Loops, NEW c \in Conns, NEW r, Running1(l, "removal", c, r),
         pc = "gone", Abort("server gone"), l = Base
  PROVE  ServerIInv'
<1>1. /\ UNCHANGED <<pc, started, numThreads, next, loopsSize, listenning, idleFd, nextConnId,
                     joining, phase, quit, loopOf, fdOf, backlog, arrived, others, dropped>>
      /\ UNCHANGED <<connections, functors, stage, open, batch>>
      /\ failed' = "server gone" /\ pc = "gone"
  BY DEF Running1, Abort
<1>2. batch' \in [IoLoops -> Nat] /\ \A k \in IoLoops : batch'[k] \in 0..Len(functors[k])
  BY <1>1 DEF ServerIInv, Types, TypeOK
<1>3. FailsAsNamed'
  BY <1>1 DEF FailsAsNamed
<1> QED
  BY <1>1, <1>2, <1>3, AbortKeeps

LEMMA RemovalKeeps ==
  ASSUME ServerIInv, NEW l \in Loops, NEW c \in Conns, NEW r, Running1(l, "removal", c, r),
         RemoveConnectionInLoop(c, r)
  PROVE  ServerIInv'
<1>1. Popped(r, l, "removal", c) /\ Running
  BY PopStep DEF Running1
<1>2. /\ TypeOK /\ functors \in Queues /\ stage \in [Conns -> Stages] /\ stage[c] \in Stages
      /\ loopOf[c] \in Loops /\ Base \in Loops /\ StageOf(c)
      /\ connections \subseteq Conns
      /\ \A k \in Loops :
              /\ In(k, "established", c) <=> k = loopOf[c] /\ Est(c)
              /\ In(k, "destroyed", c) <=> k = loopOf[c] /\ Des(c)
              /\ In(k, "removal", c) <=> k = Base /\ Rem(c)
      /\ Est(c) => loopOf[c] # Base
      /\ Rem(c) => loopOf[c] # Base
  BY <1>1, BeforeRun
<1>3. Rem(c) /\ l = Base /\ loopOf[c] # Base /\ pc \in {"loop", "gone"}
  BY <1>1, <1>2 DEF Popped, Running1
<1>4. CASE pc = "gone"
  <2>1. Abort("server gone")
    BY <1>4 DEF RemoveConnectionInLoop
  <2> QED
    BY <2>1, <1>3, <1>4, ServerGoneKeeps
<1>5. CASE pc = "loop"
  <2>0. PICK m \in Loops : m = loopOf[c]
    BY <1>2
  <2>1. Serving /\ \A k \in IoLoops : phase[k] # "exited"
    BY <1>5 DEF Serving, ServerIInv, EndInTurn, Ending
  <2>2. /\ c \in connections /\ stage[c] \in Down /\ ~Des(c) /\ ~Est(c)
    BY <2>1, <1>2, <1>3 DEF StageOf, Stages
  <2> DEFINE map == connections \ {c}
             t == Push(r, m, "destroyed", c)
  <2>3. Settle(stage, map, t)
    BY <2>0, <2>2, <1>5 DEF RemoveConnectionInLoop
  <2>4. \A k \in Loops, o \in Ops, d \in Conns :
          Has(r[k], Fn(o, d)) <=> In(k, o, d) /\ ~(k = l /\ o = "removal" /\ d = c)
    BY <1>1 DEF Popped
  <2>5. \A k \in Loops, o \in Ops : ~Has(r[k], Fn(o, c))
    BY <2>2, <2>4, <1>2, <1>3 DEF Ops
  <2>6. Pushable(c, stage, map, r, m, "destroyed")
    <3>1. map \subseteq connections /\ connections \ {c} \subseteq map /\ stage[c] \in Alive
      BY <2>2 DEF Alive
    <3>2. \A k \in Loops, o \in Ops, d \in Conns : d # c /\ In(k, o, d) => Has(r[k], Fn(o, d))
      BY <2>4
    <3>3. "destroyed" \in Ops /\ "destroyed" # "removal"
      BY DEF Ops
    <3> QED
      BY <3>1, <3>2, <3>3, <2>0, <2>1, <2>4, <2>5, <1>1, <1>2 DEF Pushable, Popped
  <2> HIDE DEF map, t
  <2>7. StepOf(c, stage, map, t) /\ Pushed(r, t, m, "destroyed", c)
    <3>1. "destroyed" \in Ops
      BY DEF Ops
    <3> QED
      BY <3>1, <2>6, <1>1, PushStep DEF t
  <2>8. batch' \in [IoLoops -> Nat] /\ \A k \in IoLoops : batch'[k] \in 0..Len(t[k])
    <3>1. /\ t \in Queues /\ r \in Queues /\ IoLoops \subseteq Loops
          /\ \A k \in IoLoops : Len(r[k]) \in Nat /\ Len(t[k]) \in Nat
      BY <2>7, <1>1, LoopsType, SMTT(40) DEF StepOf, Popped, Queues
    <3> QED
      BY <3>1, <2>7, <1>1 DEF Pushed, Popped
  <2>9. /\ connections' = map
        /\ \A k \in Loops, o \in Ops, d \in Conns : In(k, o, d)' <=> Has(t[k], Fn(o, d))
        /\ stage'[c] = IF Ref(c)' THEN stage[c] ELSE "dead"
        /\ StageOf(c)' => ServerIInv'
    BY <2>3, <2>7, <2>8, <1>1, OneConnection DEF Running1
  <2>10. \A k \in Loops, o \in Ops : In(k, o, c)' <=> k = m /\ o = "destroyed"
    BY <2>5, <2>7, <2>9 DEF Pushed
  <2>11. loopOf' = loopOf /\ pc' = pc
    BY DEF Running1
  <2>12. ~Est(c)' /\ Des(c)' /\ ~Rem(c)' /\ Ref(c)'
    <3>1. Ref(c)'
      BY <2>10 DEF Ref, Ops
    <3> QED
      BY <3>1, <2>0, <2>10, <2>11, <1>2, <1>3, AfterRun DEF Ops
  <2>13. stage'[c] \in Down /\ c \notin connections'
    BY <2>2, <2>9, <2>12 DEF map
  <2>14. StageOf(c)'
    BY <2>12, <2>13 DEF StageOf
  <2> QED
    BY <2>9, <2>14
<1> QED
  BY <1>3, <1>4, <1>5

LEMMA RunFunctorKeeps ==
  ASSUME ServerIInv, NEW l \in Loops, RunFunctor(l)
  PROVE  ServerIInv'
<1> DEFINE op == Head(functors[l]).op
           c == Head(functors[l]).c
           r == Pop(functors, l)
<1>1. Running1(l, op, c, r)
  BY DEF RunFunctor, AtFunctor, Running1, poolVars, acceptVars, srvVars, kernelVars
<1>2. \/ op = "established" /\ ConnectEstablished(c, r)
      \/ op = "destroyed" /\ ConnectDestroyed(c, connections, r)
      \/ op = "removal" /\ RemoveConnectionInLoop(c, r)
  BY DEF RunFunctor, Pop
<1> HIDE DEF RunFunctor, op, c, r
<1>3. c \in Conns
  BY <1>1, PopStep
<1>4. CASE op = "established" /\ ConnectEstablished(c, r)
  BY <1>1, <1>3, <1>4, EstablishedKeeps
<1>5. CASE op = "destroyed" /\ ConnectDestroyed(c, connections, r)
  BY <1>1, <1>3, <1>5, DestroyedKeeps, HalfClosedKeeps
<1>6. CASE op = "removal" /\ RemoveConnectionInLoop(c, r)
  BY <1>1, <1>3, <1>6, RemovalKeeps
<1> QED
  BY <1>2, <1>4, <1>5, <1>6

-----------------------------------------------------------------------------
(* A new connection *)

LEMMA NextLoopType ==
  ASSUME TypeOK
  PROVE  /\ NextLoop \in Loops
         /\ NextLoop = Base <=> loopsSize = 0
         /\ loopsSize # 0 => NextLoop \in 1..loopsSize /\ NextLoop = next + 1
         /\ NextAfter \in 0..loopsSize /\ (loopsSize > 0 => NextAfter < loopsSize)
<1>1. loopsSize \in 0..MaxThreads /\ next \in Nat /\ (loopsSize > 0 => next < loopsSize)
      /\ MaxThreads \in Nat
  BY ServerConstants DEF TypeOK
<1>2. CASE loopsSize = 0
  BY <1>1, <1>2 DEF NextLoop, NextAfter, Loops
<1>3. CASE loopsSize # 0
  <2>1. next < loopsSize /\ next + 1 \in 1..loopsSize /\ next + 1 \in 1..MaxThreads /\ next + 1 # 0
    BY <1>1, <1>3
  <2> QED
    BY <2>1, <1>1, <1>3 DEF NextLoop, NextAfter, Loops, IoLoops
<1> QED
  BY <1>2, <1>3

LEMMA AcceptConnectionKeeps ==
  ASSUME ServerIInv, AcceptConnection
  PROVE  ServerIInv'
<1>0. Types /\ TypeOK /\ Numbers /\ InOrder(functors) /\ Placed /\ EndInTurn /\ Descriptors
  BY DEF ServerIInv, Types
<1>1. PICK c : c = nextConnId
  OBVIOUS
<1>2. PICK l \in Loops : l = NextLoop
  BY <1>0, NextLoopType
<1>3. PICK f : f = Least(Free)
  OBVIOUS
<1>4. /\ Running /\ pc = "loop" /\ listenning /\ backlog > 0 /\ Free # {}
      /\ open' = open \cup {f} /\ backlog' = backlog - 1
      /\ next' = NextAfter /\ nextConnId' = c + 1
      /\ loopOf' = [loopOf EXCEPT ![c] = l] /\ fdOf' = [fdOf EXCEPT ![c] = f]
      /\ connections' = connections \cup {c}
      /\ stage' = [stage EXCEPT ![c] = IF l = Base THEN "up" ELSE "connecting"]
      /\ functors' = IF l = Base THEN functors ELSE Push(functors, l, "established", c)
      /\ UNCHANGED <<pc, started, numThreads, loopsSize, listenning, idleFd, joining, phase, batch,
                     quit, arrived, others, failed, dropped>>
  BY <1>1, <1>2, <1>3 DEF AcceptConnection, Readable, NewConnection, acceptVars, loopVars
<1> HIDE DEF AcceptConnection
<1>5. f \in Fds \ open
  BY <1>3, <1>4, LeastFree
<1>6. c \in Conns /\ c = nextConnId /\ nextConnId + backlog <= arrived + 1
      /\ nextConnId \in Nat /\ backlog \in Nat /\ arrived \in 0..MaxClients
  <2>1. /\ nextConnId \in 1..(MaxClients + 1) /\ arrived \in 0..MaxClients /\ backlog \in 0..arrived
        /\ MaxClients \in Nat
    BY <1>0, ServerConstants DEF TypeOK
  <2>2. nextConnId + backlog <= arrived + 1
    BY <1>0 DEF Numbers
  <2>3. nextConnId \in 1..MaxClients /\ nextConnId \in Nat /\ backlog \in Nat
    BY <2>1, <2>2, <1>4
  <2> QED
    BY <2>1, <2>2, <2>3, <1>1 DEF Conns
<1>7. stage[c] = "none" /\ StageOf(c) /\ \A d \in Conns : StageOf(d)
  <2>1. c >= nextConnId
    BY <1>6
  <2> QED
    BY <2>1, <1>0, <1>4, <1>6 DEF Numbers, ServerIInv, StagesOf
<1>8. c \notin connections /\ \A k \in Loops, o \in Ops : ~In(k, o, c)
  <2>1. ~Est(c) /\ ~Des(c) /\ ~Rem(c) /\ c \notin connections
    BY <1>7 DEF StageOf
  <2> QED
    BY <2>1, <1>0, <1>6, PlacedIn DEF Ops
<1>9. /\ functors' \in Queues /\ InOrder(functors')
      /\ \A k \in Loops : Len(functors'[k]) >= Len(functors[k])
      /\ \A k \in Loops : k # l => functors'[k] = functors[k]
      /\ \A k \in Loops, o \in Ops, d \in Conns :
           In(k, o, d)' <=> In(k, o, d) \/ (l # Base /\ k = l /\ o = "established" /\ d = c)
  <2>1. functors \in Queues /\ \A k \in Loops : Len(functors[k]) \in Nat
    BY <1>0 DEF Types, Queues
  <2>2. CASE l = Base
    <3>1. functors' = functors
      BY <2>2, <1>4
    <3>2. \A k, o, d : In(k, o, d)' <=> In(k, o, d)
      BY <3>1 DEF In
    <3> QED
      BY <3>1, <3>2, <2>1, <2>2, <1>0
  <2>3. CASE l # Base
    <3> DEFINE r == Push(functors, l, "established", c)
    <3>1. /\ ~Has(functors[l], Fn("established", c)) /\ ~Has(functors[l], Fn("destroyed", c))
          /\ "established" \in Ops
      BY <1>2, <1>8 DEF In, Ops
    <3>2. /\ r \in Queues /\ InOrder(r)
          /\ \A k \in Loops : Len(r[k]) >= Len(functors[k])
          /\ \A k \in Loops : k # l => r[k] = functors[k]
          /\ \A k \in Loops, o \in Ops, d \in Conns :
               Has(r[k], Fn(o, d)) <=> Has(functors[k], Fn(o, d)) \/ (k = l /\ o = "established" /\ d = c)
      BY <3>1, <2>1, <1>0, <1>6, PushOrder
    <3>3. functors' = r
      BY <2>3, <1>4
    <3> HIDE DEF r
    <3> QED
      BY <3>2, <3>3, <2>3 DEF In
  <2> QED
    BY <2>2, <2>3
<1>10. /\ loopOf' \in [Conns -> Loops] /\ loopOf'[c] = l /\ \A d \in Conns : d # c => loopOf'[d] = loopOf[d]
       /\ fdOf' \in [Conns -> Fds \cup {NoFd}] /\ fdOf'[c] = f
       /\ \A d \in Conns : d # c => fdOf'[d] = fdOf[d]
       /\ stage' \in [Conns -> Stages] /\ \A d \in Conns : d # c => stage'[d] = stage[d]
       /\ stage'[c] = IF l = Base THEN "up" ELSE "connecting"
  BY <1>0, <1>2, <1>4, <1>5, <1>6 DEF TypeOK, Stages
<1>11. Numbers'
  <2>1. started
    BY <1>0, <1>4 DEF Numbers
  <2>2. nextConnId' + backlog' <= arrived' + 1
    BY <1>4, <1>6
  <2>3. ASSUME NEW d \in Conns PROVE stage'[d] = "none" <=> d >= nextConnId'
    <3>1. d \in Nat /\ c \in Nat /\ nextConnId' = c + 1
      BY <1>4, <1>6 DEF Conns
    <3>2. CASE d = c
      BY <3>1, <3>2, <1>10
    <3>3. CASE d # c
      <4>1. stage'[d] = "none" <=> d >= c
        BY <3>3, <1>0, <1>6, <1>10 DEF Numbers
      <4> QED
        BY <4>1, <3>1, <3>3
    <3> QED
      BY <3>2, <3>3
  <2>4. ASSUME NEW d \in Conns, d < nextConnId'
        PROVE  IF loopsSize' = 0 THEN loopOf'[d] = Base ELSE loopOf'[d] \in 1..loopsSize'
    <3>1. d \in Nat /\ c \in Nat /\ nextConnId' = c + 1
      BY <1>4, <1>6 DEF Conns
    <3>2. CASE d = c
      BY <3>2, <1>0, <1>2, <1>4, <1>10, NextLoopType
    <3>3. CASE d # c
      <4>1. d < nextConnId
        BY <3>1, <3>3, <2>4, <1>6
      <4> QED
        BY <4>1, <3>3, <1>0, <1>4, <1>10 DEF Numbers
    <3> QED
      BY <3>2, <3>3
  <2>5. started'
    BY <2>1, <1>4
  <2> QED
    BY <2>2, <2>3, <2>4, <2>5 DEF Numbers
<1>12. Placed'
  <2> SUFFICES ASSUME NEW k \in Loops, NEW d \in Conns
               PROVE  /\ In(k, "established", d)' => k = loopOf'[d] /\ k # Base
                      /\ In(k, "destroyed", d)' => k = loopOf'[d]
                      /\ In(k, "removal", d)' => k = Base /\ loopOf'[d] # Base
    BY DEF Placed
  <2>1. CASE d = c
    BY <2>1, <1>8, <1>9, <1>10 DEF Ops
  <2>2. CASE d # c
    BY <2>2, <1>0, <1>9, <1>10 DEF Placed, Ops
  <2> QED
    BY <2>1, <2>2
<1>13. EndInTurn'
  <2>1. ~Ending /\ ~Ending' /\ pc' = "loop"
    BY <1>4 DEF Ending
  <2>2. \A k \in IoLoops : ~quit[k] /\ phase[k] # "exited"
    BY <2>1, <1>0 DEF EndInTurn
  <2> QED
    BY <2>1, <2>2, <1>4 DEF EndInTurn
<1>14. ASSUME NEW d \in Conns PROVE StageOf(d)'
  <2>1. PICK m \in Loops : m = loopOf'[d]
    BY <1>10
  <2>2. /\ Est(d)' <=> In(m, "established", d)'
        /\ Des(d)' <=> In(m, "destroyed", d)'
        /\ Rem(d)' <=> In(Base, "removal", d)'
    BY <2>1 DEF Est, Des, Rem, In
  <2>3. Base \in Loops /\ Serving'
    BY <1>4, LoopsType DEF Serving
  <2>4. CASE d = c
    <3>1. (Est(d)' <=> l # Base) /\ ~Des(d)' /\ ~Rem(d)' /\ d \in connections'
      BY <2>1, <2>2, <2>3, <2>4, <1>4, <1>8, <1>9, <1>10 DEF Ops
    <3>2. stage'[d] = IF l = Base THEN "up" ELSE "connecting"
      BY <2>4, <1>10
    <3> QED
      BY <3>1, <3>2 DEF StageOf
  <2>5. CASE d # c
    <3>1. m = loopOf[d] /\ stage'[d] = stage[d] /\ (d \in connections' <=> d \in connections)
          /\ loopOf'[d] = loopOf[d]
      BY <2>1, <2>5, <1>4, <1>10
    <3>2. \A k \in Loops, o \in Ops : In(k, o, d)' <=> In(k, o, d)
      BY <2>5, <1>9
    <3>3. (Est(d)' <=> Est(d)) /\ (Des(d)' <=> Des(d)) /\ (Rem(d)' <=> Rem(d))
      BY <3>1, <3>2, <2>2, <2>3 DEF Est, Des, Rem, Ops
    <3>4. StageOf(d) /\ Serving
      BY <1>4, <1>7 DEF Serving
    <3> QED
      BY <3>1, <3>3, <3>4, <2>3 DEF StageOf
  <2> QED
    BY <2>4, <2>5
<1>15. Descriptors'
  <2>1. OneOwner
    BY <1>0 DEF Descriptors
  <2>2. Live' = Live \cup {c} /\ c \notin Live
    <3>1. c \notin Live
      BY <1>7 DEF Live, Alive
    <3>2. \A d \in Conns : d \in Live' <=> d \in Live \/ d = c
      BY <1>10 DEF Live, Alive
    <3>3. Live' \subseteq Conns /\ Live \subseteq Conns
      BY DEF Live
    <3> QED
      BY <3>1, <3>2, <3>3, <1>6
  <2>3. Idle' = Idle /\ others' = others
    BY <1>4 DEF Idle
  <2>4. Live \subseteq Conns /\ \A d \in Live : fdOf'[d] = fdOf[d]
    BY <2>2, <1>10 DEF Live
  <2>5. {fdOf'[d] : d \in Live'} = {fdOf[d] : d \in Live} \cup {f}
    BY <2>2, <2>4, <1>10
  <2>6. Owned' = Owned \cup {f} /\ Owned = Idle \cup others \cup {fdOf[d] : d \in Live}
    BY <2>3, <2>5 DEF Owned
  <2>7. f \notin open /\ Owned \subseteq open /\ open \ Owned \subseteq {0} /\ f \notin Owned
    BY <2>1, <1>5 DEF OneOwner
  <2>8. Owned' \subseteq open' /\ open' \ Owned' \subseteq {0}
    BY <2>6, <2>7, <1>4
  <2>9. \A d \in Live' : fdOf'[d] \notin Idle' \cup others'
    <3>1. \A d \in Live : fdOf[d] \notin Idle \cup others
      BY <2>1 DEF OneOwner
    <3> QED
      BY <3>1, <2>2, <2>3, <2>4, <2>6, <2>7, <1>10
  <2>10. \A d, e \in Live' : fdOf'[d] = fdOf'[e] => d = e
    <3>1. \A d, e \in Live : fdOf[d] = fdOf[e] => d = e
      BY <2>1 DEF OneOwner
    <3>2. \A d \in Live : fdOf[d] # f
      BY <2>6, <2>7
    <3> QED
      BY <3>1, <3>2, <2>2, <2>4, <1>10
  <2>11. Idle' \cap others' = {}
    BY <2>1, <2>3 DEF OneOwner
  <2>12. OneOwner'
    BY <2>8, <2>9, <2>10, <2>11 DEF OneOwner
  <2> QED
    BY <2>12, <1>4 DEF Descriptors
<1>16. Types'
  <2>1. \A k \in Loops : functors'[k] \in Seq(Functors)
    BY <1>9 DEF Queues
  <2>2. \A k \in IoLoops : batch'[k] \in 0..Len(functors'[k])
    <3>1. \A k \in IoLoops : batch[k] \in 0..Len(functors[k]) /\ Len(functors[k]) \in Nat /\ Len(functors'[k]) \in Nat
      BY <2>1, <1>0, LoopsType DEF TypeOK, Types, Queues
    <3> QED
      BY <3>1, <1>4, <1>9, LoopsType
  <2>3. open' \subseteq Fds /\ (others \subseteq open)' /\ connections' \subseteq Conns
    BY <1>0, <1>4, <1>5, <1>6 DEF TypeOK
  <2>4. next' \in 0..loopsSize' /\ (loopsSize' > 0 => next' < loopsSize')
    BY <1>0, <1>4, NextLoopType
  <2>5. nextConnId' \in 1..(MaxClients + 1) /\ backlog' \in 0..arrived'
    BY <1>0, <1>4, <1>6, ServerConstants DEF Conns, TypeOK
  <2> QED
    BY <2>1, <2>2, <2>3, <2>4, <2>5, <1>0, <1>4, <1>9, <1>10 DEF Types, TypeOK
<1>17. FailsAsNamed' /\ StagesOf'
  BY <1>4, <1>14 DEF FailsAsNamed, Running, StagesOf
<1>18. InOrder(functors)'
  BY <1>9 DEF InOrder
<1> QED
  BY <1>11, <1>12, <1>13, <1>15, <1>16, <1>17, <1>18 DEF ServerIInv

-----------------------------------------------------------------------------
(* The end of an I/O loop *)

\* If nobody dies in it who was not destroyed, then what is lost with the queue
\* are functors of connections whose removal is still in loop 0.
LEMMA LoopEndsKeeps ==
  ASSUME ServerIInv, NEW l \in IoLoops, LoopEnds(l)
  PROVE  ServerIInv'
<1> DEFINE r == [functors EXCEPT ![l] = <<>>]
<1>0. Types /\ TypeOK /\ Numbers /\ InOrder(functors) /\ Placed /\ EndInTurn /\ Descriptors
  BY DEF ServerIInv, Types
<1>1. /\ Running /\ phase[l] = "run" /\ batch[l] = 0 /\ quit[l]
      /\ phase' = [phase EXCEPT ![l] = "exited"]
      /\ dropped' = dropped \cup {functors[l][i].c : i \in DOMAIN functors[l]}
      /\ Settle(stage, connections, r)
      /\ UNCHANGED <<pc, started, numThreads, next, loopsSize, listenning, idleFd, nextConnId,
                     joining, batch, quit, loopOf, fdOf, backlog, arrived, others>>
  BY DEF LoopEnds, poolVars, acceptVars, srvVars, kernelVars
<1> HIDE DEF LoopEnds
<1>2. l \in Loops /\ l # Base /\ functors \in Queues /\ stage \in [Conns -> Stages] /\ Base \in Loops
  BY <1>0, LoopsType DEF Types, TypeOK
<1>3. /\ r \in Queues /\ InOrder(r) /\ r[l] = <<>>
      /\ \A k \in Loops : k # l => r[k] = functors[k]
      /\ \A f : ~Has(r[l], f)
  BY <1>0, <1>2, ClearOrder
<1> HIDE DEF r
<1>4. Settled(stage) /\ connections' = connections /\ functors' = r
  BY <1>1, <1>2, <1>3, SettleMeans
<1>5. \A k \in Loops, o \in Ops, d \in Conns : In(k, o, d)' <=> In(k, o, d) /\ k # l
  <2> SUFFICES ASSUME NEW k \in Loops, NEW o \in Ops, NEW d \in Conns
               PROVE  In(k, o, d)' <=> In(k, o, d) /\ k # l
    OBVIOUS
  <2>1. CASE k = l
    BY <2>1, <1>3, <1>4 DEF In
  <2>2. CASE k # l
    BY <2>2, <1>3, <1>4 DEF In
  <2> QED
    BY <2>1, <2>2
<1>6. Ending /\ connections = {} /\ ~Serving /\ ~Serving' /\ Ending'
  BY <1>0, <1>1 DEF EndInTurn, Ending, Serving
<1>7. \A d \in Conns : StageOf(d)
  BY <1>1 DEF ServerIInv, StagesOf
<1>8. /\ stage' \in [Conns -> Stages]
      /\ \A d \in Conns : stage'[d] = IF stage[d] \in Alive /\ ~Ref(d)' THEN "dead" ELSE stage[d]
      /\ \/ failed' = failed /\ \A d \in Conns : stage[d] \in Alive /\ ~Ref(d)' => stage[d] = "destroyed"
         \/ failed' = "destructor" /\ \E d \in Conns : stage[d] \in Alive /\ ~Ref(d)'
  BY <1>4 DEF Settled
<1>9. Descriptors' /\ open' \subseteq Fds /\ (others \subseteq open)'
  BY <1>0, <1>1, <1>2, SettleOwners
<1>10. dropped' \subseteq Conns
  <2>1. \A i \in DOMAIN functors[l] : functors[l][i] \in Functors
    BY <1>2 DEF Queues
  <2>2. \A i \in DOMAIN functors[l] : functors[l][i].c \in Conns
    BY <2>1 DEF Functors
  <2> QED
    BY <2>2, <1>0, <1>1 DEF TypeOK
<1>11. Types'
  <2>1. \A k \in Loops : functors'[k] \in Seq(Functors)
    BY <1>3, <1>4 DEF Queues
  <2>2. \A k \in IoLoops : batch'[k] \in 0..Len(functors'[k])
    <3>1. \A k \in IoLoops : k # l => functors'[k] = functors[k]
      BY <1>3, <1>4, LoopsType
    <3>2. batch'[l] = 0 /\ Len(functors'[l]) \in Nat
      BY <2>1, <1>1, <1>2
    <3>3. 0 \in 0..Len(functors'[l])
      BY <3>2
    <3>4. \A k \in IoLoops : batch'[k] \in 0..Len(functors[k])
      BY <1>0, <1>1 DEF TypeOK
    <3> QED
      BY <3>1, <3>2, <3>3, <3>4
  <2>3. phase' \in [IoLoops -> {"none", "poll", "run", "exited"}]
    BY <1>0, <1>1 DEF TypeOK
  <2>4. functors' \in Queues /\ batch' \in [IoLoops -> Nat]
    BY <1>0, <1>1, <1>3, <1>4 DEF Types
  <2>5. connections' \subseteq Conns
    BY <1>0, <1>4 DEF TypeOK
  <2> QED
    BY <2>1, <2>2, <2>3, <2>4, <2>5, <1>0, <1>1, <1>8, <1>9, <1>10 DEF Types, TypeOK
<1>12. Numbers'
  <2>1. \A d \in Conns : stage'[d] = "none" <=> stage[d] = "none"
    BY <1>8 DEF Alive
  <2> QED
    BY <2>1, <1>0, <1>1 DEF Numbers
<1>13. InOrder(functors)'
  BY <1>3, <1>4 DEF InOrder
<1>14. Placed'
  <2> SUFFICES ASSUME NEW k \in Loops, NEW d \in Conns
               PROVE  /\ In(k, "established", d)' => k = loopOf[d] /\ k # Base
                      /\ In(k, "destroyed", d)' => k = loopOf[d]
                      /\ In(k, "removal", d)' => k = Base /\ loopOf[d] # Base
    BY <1>1 DEF Placed
  <2>1. \A o \in Ops : In(k, o, d)' => In(k, o, d)
    BY <1>5
  <2> QED
    BY <2>1, <1>0 DEF Placed, Ops
<1>15. EndInTurn'
  <2>1. \A k \in IoLoops : phase'[k] = "exited" <=> phase[k] = "exited" \/ k = l
    BY <1>0, <1>1 DEF TypeOK
  <2>2. \A k \in IoLoops : phase'[k] = "exited" => quit[k] /\ functors'[k] = <<>>
    <3> SUFFICES ASSUME NEW k \in IoLoops, phase'[k] = "exited"
                 PROVE  quit[k] /\ functors'[k] = <<>>
      OBVIOUS
    <3>1. CASE k = l
      BY <3>1, <1>1, <1>3, <1>4
    <3>2. CASE k # l
      BY <3>2, <2>1, <1>0, <1>3, <1>4, LoopsType DEF EndInTurn
    <3> QED
      BY <3>1, <3>2
  <2>3. joining > 0 /\ \A k \in IoLoops : k < joining => phase'[k] = "exited"
    BY <2>1, <1>0, <1>6 DEF EndInTurn
  <2> QED
    BY <2>2, <2>3, <1>0, <1>1, <1>4, <1>6 DEF EndInTurn
<1>16. StagesOf'
  <2> SUFFICES ASSUME Running', NEW d \in Conns PROVE StageOf(d)'
    BY DEF StagesOf
  <2>1. PICK m \in Loops : m = loopOf[d]
    BY <1>0 DEF TypeOK
  <2>2. /\ In(m, "established", d)' <=> Est(d) /\ m # l
        /\ In(m, "destroyed", d)' <=> Des(d) /\ m # l
        /\ In(Base, "removal", d)' <=> Rem(d)
    <3>1. /\ Est(d) <=> In(m, "established", d)
          /\ Des(d) <=> In(m, "destroyed", d)
          /\ Rem(d) <=> In(Base, "removal", d)
      BY <2>1 DEF Est, Des, Rem
    <3> QED
      BY <3>1, <1>2, <1>5 DEF Ops
  <2>3. /\ Est(d)' <=> In(m, "established", d)'
        /\ Des(d)' <=> In(m, "destroyed", d)'
        /\ Rem(d)' <=> In(Base, "removal", d)'
    BY <2>1, <1>1, AfterRun
  <2>4. StageOf(d) /\ connections' = {} /\ connections = {} /\ loopOf'[d] = loopOf[d]
    BY <1>1, <1>4, <1>6, <1>7
  <2>5. stage[d] \in Alive /\ ~Ref(d)' => stage[d] = "destroyed"
    BY <1>8 DEF Running
  <2>6. Ref(d)' <=> Est(d)' \/ Des(d)' \/ Rem(d)'
    <3>1. Placed' /\ TypeOK'
      BY <1>11, <1>14 DEF Types
    <3>2. \A k \in Loops : /\ In(k, "established", d)' => k = m
                           /\ In(k, "destroyed", d)' => k = m
                           /\ In(k, "removal", d)' => k = Base
      BY <3>1, <2>1, <1>1 DEF Placed
    <3> QED
      BY <3>2, <2>1, <2>3, <2>4, <1>2 DEF Ref, Ops
  <2>7. stage[d] \in Alive => Ref(d)'
    BY <2>2, <2>3, <2>4, <2>5, <2>6 DEF StageOf
  <2>8. stage'[d] = stage[d]
    BY <2>7, <1>8
  <2>9. stage[d] \in {"connecting"} \cup Up => m # l
    BY <2>2, <2>3, <2>4, <2>6, <2>7 DEF StageOf, Alive
  <2>10. stage[d] \in Down => Rem(d) \/ (Des(d) /\ m # l)
    BY <2>2, <2>3, <2>4, <2>6, <2>7 DEF StageOf, Alive
  <2> QED
    BY <2>2, <2>3, <2>4, <2>8, <2>9, <2>10, <1>6 DEF StageOf
<1>17. FailsAsNamed'
  <2> SUFFICES ASSUME failed' = "destructor" PROVE dropped' # {}
    BY <1>1, <1>6, <1>8 DEF FailsAsNamed, Running
  <2>1. PICK d \in Conns : stage[d] \in Alive /\ ~Ref(d)'
    BY <1>1, <1>8 DEF Running
  <2>2. Ref(d)
    BY <2>1, <1>0, <1>7, AliveRef
  <2>3. \E o \in Ops : In(l, o, d)
    BY <2>1, <2>2, <1>4, <1>5 DEF Ref
  <2>4. \E i \in DOMAIN functors[l] : TRUE
    BY <2>3 DEF In, Has
  <2> QED
    BY <2>4, <1>1
<1> QED
  BY <1>9, <1>11, <1>12, <1>13, <1>14, <1>15, <1>16, <1>17 DEF ServerIInv

-----------------------------------------------------------------------------
(* The invariant *)

LEMMA ServerInit == Init => ServerIInv
<1> SUFFICES ASSUME Init PROVE ServerIInv
  OBVIOUS
<1>1. \A l \in Loops : functors[l] = <<>> /\ DOMAIN functors[l] = {}
  BY DEF Init
<1>2. \A l \in Loops : \A f : ~Has(functors[l], f)
  BY <1>1 DEF Has
<1>3. functors \in Queues /\ \A l \in Loops : Len(functors[l]) = 0
  BY <1>1 DEF Init, Queues
<1>4. \A c \in Conns : /\ stage[c] = "none" /\ loopOf[c] = Base /\ ~Est(c) /\ ~Des(c) /\ ~Rem(c)
  BY <1>2, LoopsType DEF Init, Est, Des, Rem, In
<1>5. Types
  <2>1. 0 \in Fds /\ 1 \in Fds
    BY ServerConstants DEF Fds
  <2>2. batch \in [IoLoops -> Nat] /\ \A l \in IoLoops : batch[l] \in 0..Len(functors[l])
    BY <1>3, LoopsType DEF Init
  <2>3. stage \in [Conns -> Stages] /\ loopOf \in [Conns -> Loops] /\ fdOf \in [Conns -> Fds \cup {NoFd}]
    BY LoopsType DEF Init, Stages
  <2>4. phase \in [IoLoops -> {"none", "poll", "run", "exited"}] /\ quit \in [IoLoops -> BOOLEAN]
    BY DEF Init
  <2>5. \A l \in Loops : functors[l] \in Seq(Functors)
    BY <1>3 DEF Queues
  <2>6. /\ pc \in PCs /\ started \in BOOLEAN /\ listenning \in BOOLEAN
        /\ numThreads \in 0..MaxThreads /\ loopsSize \in 0..MaxThreads
        /\ next \in 0..loopsSize /\ (loopsSize > 0 => next < loopsSize)
        /\ nextConnId \in 1..(MaxClients + 1) /\ joining \in 0..(MaxThreads + 1)
        /\ arrived \in 0..MaxClients /\ backlog \in 0..arrived
    <3>1. /\ 0 \in 0..MaxThreads /\ 0 \in 0..0 /\ 1 \in 1..(MaxClients + 1)
          /\ 0 \in 0..(MaxThreads + 1) /\ 0 \in 0..MaxClients /\ ~(0 > 0)
      BY ServerConstants
    <3> QED
      BY <3>1 DEF Init, PCs
  <2>7. /\ idleFd \in Fds \cup {NoFd} /\ open \subseteq Fds /\ others \subseteq open
        /\ connections \subseteq Conns /\ dropped \subseteq Conns
    BY <2>1 DEF Init
  <2> QED
    BY <2>2, <2>3, <2>4, <2>5, <2>6, <2>7, <1>3 DEF Types, TypeOK
<1>6. Numbers
  <2>1. \A c \in Conns : stage[c] = "none" /\ c >= 1 /\ ~(c < 1)
    BY <1>4 DEF Conns
  <2> QED
    BY <2>1 DEF Init, Numbers
<1>7. InOrder(functors) /\ Placed
  <2>1. InOrder(functors)
    BY <1>1 DEF InOrder, Once, Before
  <2> QED
    BY <2>1, <1>2 DEF Placed, In
<1>8. EndInTurn
  BY DEF Init, EndInTurn, Ending
<1>9. StagesOf
  BY <1>4 DEF StagesOf, StageOf, Init
<1>10. Descriptors
  <2>1. Live = {} /\ Idle = {1} /\ others = {0} /\ open = {0, 1}
    BY <1>4 DEF Live, Alive, Idle, Init, NoFd
  <2>2. OneOwner
    BY <2>1 DEF OneOwner, Owned
  <2> QED
    BY <2>2 DEF Descriptors, Init
<1>11. FailsAsNamed
  BY DEF FailsAsNamed, Init
<1> QED
  BY <1>5, <1>6, <1>7, <1>8, <1>9, <1>10, <1>11 DEF ServerIInv

LEMMA ServerStutter == ServerIInv /\ UNCHANGED vars => ServerIInv'
<1> SUFFICES ASSUME ServerIInv, UNCHANGED vars PROVE ServerIInv'
  OBVIOUS
<1>1. UNCHANGED <<pc, started, numThreads, next, loopsSize, listenning, idleFd, nextConnId,
                  connections, joining, phase, batch, functors, quit, stage, loopOf, fdOf, open,
                  backlog, arrived, others, failed, dropped>>
  BY DEF vars, srvVars, poolVars, acceptVars, loopVars, kernelVars, connVars
<1>2. Types'
  BY <1>1 DEF ServerIInv, Types, TypeOK
<1>3. Numbers'
  BY <1>1 DEF ServerIInv, Numbers
<1>4. InOrder(functors)' /\ Placed'
  BY <1>1 DEF ServerIInv, InOrder, Placed, In
<1>5. EndInTurn'
  BY <1>1, EndFrame DEF ServerIInv
<1>6. StagesOf'
  BY <1>1 DEF ServerIInv, StagesOf, StageOf, Est, Des, Rem, In, Serving, Running
<1>7. Descriptors'
  BY <1>1, OwnersFrame DEF ServerIInv
<1>8. FailsAsNamed'
  BY <1>1 DEF ServerIInv, FailsAsNamed, Serving
<1> QED
  BY <1>2, <1>3, <1>4, <1>5, <1>6, <1>7, <1>8 DEF ServerIInv

LEMMA ServerNext == ServerIInv /\ Next => ServerIInv'
<1> SUFFICES ASSUME ServerIInv, Next PROVE ServerIInv'
  OBVIOUS
<1>1. CASE \E n \in 0..MaxThreads : SetThreadNum(n)
  BY <1>1, SetThreadNumKeeps
<1>2. CASE Start
  BY <1>2, StartKeeps
<1>3. CASE ClientArrives
  BY <1>3, ClientArrivesKeeps
<1>4. CASE HandleRead
  BY <1>4, AcceptConnectionKeeps, AcceptZeroKeeps, AcceptEmfileKeeps, AcceptAbortedKeeps
     DEF HandleRead, Accept
<1>5. CASE Refuse
  BY <1>5, RefuseKeeps
<1>6. CASE Reopen
  BY <1>6, ReopenKeeps
<1>7. CASE OtherOpens
  BY <1>7, OtherOpensKeeps
<1>8. CASE \E f \in Fds : OtherCloses(f)
  BY <1>8, OtherClosesKeeps
<1>9. CASE \E c \in Conns : Disconnect(c) \/ HandleClose(c) \/ ForceCloseInLoop(c) \/ HangUp(c)
  BY <1>9, DisconnectKeeps, CloseKeeps, HangUpKeeps DEF HandleClose, Handling, ForceCloseInLoop, Calling
<1>10. CASE RunFunctor(Base)
  BY <1>10, RunFunctorKeeps, LoopsType
<1>11. CASE \E l \in IoLoops : IoStep(l)
  BY <1>11, SwapKeeps, RunFunctorKeeps, NextIterationKeeps, LoopEndsKeeps, LoopsType DEF IoStep
<1>12. CASE DestroyServer
  BY <1>12, DestroyServerKeeps
<1>13. CASE Destructor
  BY <1>13, DestroyConnectionKeeps, DestroyPoolKeeps, QuitThreadKeeps, JoinThreadKeeps,
     DestroyAcceptorKeeps DEF Destructor
<1> QED
  BY <1>1, <1>2, <1>3, <1>4, <1>5, <1>6, <1>7, <1>8, <1>9, <1>10, <1>11, <1>12, <1>13 DEF Next

\* The inductive invariant: which functors are on their way for each connection,
\* in which queue and in which order, from the accept to the end of ~TcpServer.
THEOREM ServerIInvHolds == Spec => []ServerIInv
<1>1. ServerIInv /\ [Next]_vars => ServerIInv'
  BY ServerNext, ServerStutter
<1> QED
  BY <1>1, ServerInit, PTL DEF Spec

-----------------------------------------------------------------------------
(* The properties *)

\* Of the functors of one kind for a connection there is one or none.
LEMMA QueuedCount ==
  ASSUME NEW op \in Ops, NEW c \in Conns, InOrder(functors),
         \A k, m \in Loops : In(k, op, c) /\ In(m, op, c) => k = m
  PROVE  Cardinality(Queued(op, c)) = IF \E k \in Loops : In(k, op, c) THEN 1 ELSE 0
<1> DEFINE At(l) == {i \in DOMAIN functors[l] : functors[l][i] = Fn(op, c)}
<1>1. Queued(op, c) = UNION {{l} \X At(l) : l \in Loops}
  BY DEF Queued, Fn
<1>2. \A l \in Loops : In(l, op, c) <=> At(l) # {}
  BY DEF In, Has
<1>3. \A l \in Loops : \A i, j \in At(l) : i = j
  BY DEF InOrder, Once
<1> HIDE DEF At
<1>4. CASE \E k \in Loops : In(k, op, c)
  <2>1. PICK k \in Loops : In(k, op, c)
    BY <1>4
  <2>2. PICK i \in At(k) : TRUE
    BY <2>1, <1>2
  <2>3. At(k) = {i} /\ \A m \in Loops : m # k => At(m) = {}
    BY <2>1, <2>2, <1>2, <1>3
  <2>4. Queued(op, c) = {<<k, i>>}
    BY <2>3, <1>1
  <2> QED
    BY <2>4, <1>4, FS_Singleton
<1>5. CASE ~\E k \in Loops : In(k, op, c)
  <2>1. \A l \in Loops : At(l) = {}
    BY <1>2, <1>5
  <2>2. Queued(op, c) = {}
    BY <2>1, <1>1
  <2> QED
    BY <2>2, <1>5, FS_EmptySet
<1> QED
  BY <1>4, <1>5

LEMMA TurnsTaken == ServerIInv => StagesInTurn
<1> SUFFICES ASSUME ServerIInv, Running, Serving, NEW c \in Conns
             PROVE  LET waiting == [op \in {"established", "destroyed", "removal"} |->
                                      Cardinality(Queued(op, c))]
                    IN /\ waiting["established"] = (IF stage[c] = "connecting" THEN 1 ELSE 0)
                       /\ stage[c] \in {"connecting"} \cup Up => c \in connections
                       /\ stage[c] \in Down => waiting["removal"] + waiting["destroyed"] = 1
                                               /\ (c \in connections <=> waiting["removal"] = 1)
                       /\ stage[c] \notin Down => waiting["removal"] + waiting["destroyed"] = 0
                       /\ stage[c] # "destroyed"
  BY DEF StagesInTurn
<1>1. InOrder(functors)
  BY DEF ServerIInv
<1>2. /\ stage[c] \in Stages /\ loopOf[c] \in Loops /\ Base \in Loops /\ StageOf(c)
      /\ \A k \in Loops :
              /\ In(k, "established", c) <=> k = loopOf[c] /\ Est(c)
              /\ In(k, "destroyed", c) <=> k = loopOf[c] /\ Des(c)
              /\ In(k, "removal", c) <=> k = Base /\ Rem(c)
  BY BeforeRun
<1>3. /\ Cardinality(Queued("established", c)) = IF Est(c) THEN 1 ELSE 0
      /\ Cardinality(Queued("destroyed", c)) = IF Des(c) THEN 1 ELSE 0
      /\ Cardinality(Queued("removal", c)) = IF Rem(c) THEN 1 ELSE 0
  <2>1. Cardinality(Queued("established", c)) = IF \E k \in Loops : In(k, "established", c) THEN 1 ELSE 0
    BY <1>1, <1>2, QueuedCount DEF Ops
  <2>2. Cardinality(Queued("destroyed", c)) = IF \E k \in Loops : In(k, "destroyed", c) THEN 1 ELSE 0
    BY <1>1, <1>2, QueuedCount DEF Ops
  <2>3. Cardinality(Queued("removal", c)) = IF \E k \in Loops : In(k, "removal", c) THEN 1 ELSE 0
    BY <1>1, <1>2, QueuedCount DEF Ops
  <2> QED
    BY <2>1, <2>2, <2>3, <1>2
<1>4. /\ stage[c] = "connecting" <=> Est(c)
      /\ stage[c] \in {"connecting"} \cup Up => c \in connections
      /\ stage[c] \in Down => (Rem(c) /\ ~Des(c)) \/ (Des(c) /\ ~Rem(c))
      /\ stage[c] \in Down => (c \in connections <=> Rem(c))
      /\ stage[c] \notin Down => ~Rem(c) /\ ~Des(c)
      /\ stage[c] # "destroyed"
  BY <1>2 DEF StageOf, Stages
<1> QED
  BY <1>3, <1>4

\* Descriptors have one owner each, and the stages of a connection are taken in
\* turn, whatever the loops and the clients do: tcpserver.cpp and acceptor.cpp,
\* for any number of clients, threads and descriptors.
THEOREM ServerCorrect == Spec => []ServerInv
<1>1. ServerIInv => ServerInv
  BY TurnsTaken DEF ServerIInv, Types, Descriptors, ServerInv
<1> QED
  BY <1>1, ServerIInvHolds, PTL

\* The asserts on the map, on the order of connectEstablished and connectDestroyed
\* and of destructors hold while the server lives and through ~TcpServer, except in
\* the four ways of FailsAsNamed: a connection is in the map or pointed to by one of
\* its functors until its connectDestroyed was run, unless that is lost with the
\* queue of a loop that ends.
THEOREM ServerAsserts == Spec => []ServerAssertsHold
<1>1. ServerIInv => ServerAssertsHold
  <2> SUFFICES ASSUME ServerIInv PROVE ServerAssertsHold
    OBVIOUS
  <2>1. DisconnectedAtEnd
    <3> SUFFICES ASSUME Running, pc = "gone", NEW c \in Conns, stage[c] \in {"connecting"} \cup Up
                 PROVE  FALSE
      BY DEF DisconnectedAtEnd
    <3>1. TypeOK /\ Numbers /\ EndInTurn
      BY DEF ServerIInv, Types
    <3>2. loopOf[c] \in Loops /\ StageOf(c) /\ (Est(c) => loopOf[c] # Base)
      BY BeforeRun
    <3>3. connections = {} /\ \A l \in IoLoops : l < joining => functors[l] = <<>>
      BY <3>1 DEF EndInTurn, Ending
    <3>4. loopOf[c] # Base /\ (Est(c) \/ Des(c))
      BY <3>2, <3>3 DEF StageOf
    <3>5. loopOf[c] \in 1..loopsSize
      <4>1. c \in Nat /\ nextConnId \in Nat /\ ~(c >= nextConnId)
        BY <3>1, ServerConstants DEF Numbers, Conns, TypeOK
      <4>2. c < nextConnId
        BY <4>1
      <4> QED
        BY <4>2, <3>1, <3>4 DEF Numbers
    <3>6. loopOf[c] \in IoLoops /\ loopOf[c] < joining
      <4>1. joining > loopsSize /\ joining \in Nat /\ loopsSize \in Nat
        BY <3>1, ServerConstants DEF EndInTurn, TypeOK
      <4> QED
        BY <4>1, <3>2, <3>4, <3>5, LoopsType
    <3>7. DOMAIN functors[loopOf[c]] = {}
      BY <3>3, <3>6
    <3> QED
      BY <3>4, <3>7 DEF Est, Des, In, Has
  <2> QED
    BY <2>1 DEF ServerAssertsHold, ServerIInv
<1> QED
  BY <1>1, ServerIInvHolds, PTL

-----------------------------------------------------------------------------
(* Round robin *)

Given(l) == {c \in 1..(nextConnId - 1) : loopOf[c] = l}

LEMMA GivenFinite == nextConnId \in Nat => \A l : IsFiniteSet(Given(l)) /\ Cardinality(Given(l)) \in Nat
<1> SUFFICES ASSUME nextConnId \in Nat, NEW l
             PROVE  IsFiniteSet(Given(l)) /\ Cardinality(Given(l)) \in Nat
  OBVIOUS
<1>1. IsFiniteSet(1..(nextConnId - 1))
  BY FS_Interval
<1>2. Given(l) \subseteq 1..(nextConnId - 1)
  BY DEF Given
<1>3. IsFiniteSet(Given(l))
  BY <1>1, <1>2, FS_Subset
<1> QED
  BY <1>3, FS_CardinalityType

\* Only start() and newConnection() have to do with the distribution.
LEMMA WhoDistributes ==
  Next => Start \/ AcceptConnection \/ UNCHANGED <<loopsSize, next, nextConnId, loopOf>>
<1> SUFFICES ASSUME Next PROVE Start \/ AcceptConnection \/ UNCHANGED <<loopsSize, next, nextConnId, loopOf>>
  OBVIOUS
<1> USE DEF srvVars, poolVars
<1>1. CASE \E n \in 0..MaxThreads : SetThreadNum(n)
  BY <1>1 DEF SetThreadNum
<1>2. CASE ClientArrives \/ Refuse \/ Reopen \/ OtherOpens \/ DestroyServer
  BY <1>2 DEF ClientArrives, Refuse, Reopen, OtherOpens, DestroyServer
<1>3. CASE HandleRead
  BY <1>3 DEF HandleRead, Accept, AcceptZero, AcceptEmfile, AcceptAborted
<1>4. CASE \E f \in Fds : OtherCloses(f)
  BY <1>4 DEF OtherCloses
<1>5. CASE \E c \in Conns : Disconnect(c) \/ HandleClose(c) \/ ForceCloseInLoop(c) \/ HangUp(c)
  BY <1>5 DEF Disconnect, HandleClose, ForceCloseInLoop, HangUp, Close
<1>6. CASE RunFunctor(Base)
  BY <1>6 DEF RunFunctor
<1>7. CASE \E l \in IoLoops : IoStep(l)
  BY <1>7 DEF IoStep, Swap, RunFunctor, NextIteration, LoopEnds
<1>8. CASE Destructor
  BY <1>8 DEF Destructor, DestroyConnection, DestroyPool, QuitThread, JoinThread, DestroyAcceptor
<1> QED
  BY <1>1, <1>2, <1>3, <1>4, <1>5, <1>6, <1>7, <1>8 DEF Next

LEMMA StartRounds == ServerIInv /\ Start => Rounds'
<1> SUFFICES ASSUME ServerIInv, Start PROVE Rounds'
  OBVIOUS
<1>1. ~started /\ nextConnId' = nextConnId /\ next' = next
  BY DEF Start
<1>2. nextConnId' = 1 /\ next' = 0
  BY <1>1 DEF ServerIInv, Numbers
<1>3. 1..(nextConnId' - 1) = {}
  BY <1>2
<1>4. \A l : Load(l)' = 0
  <2> SUFFICES ASSUME NEW l PROVE Load(l)' = 0
    OBVIOUS
  <2>1. {c \in 1..(nextConnId' - 1) : loopOf'[c] = l} = {}
    BY <1>3
  <2>2. Cardinality({c \in 1..(nextConnId' - 1) : loopOf'[c] = l}) = 0
    BY <2>1, FS_EmptySet
  <2> QED
    BY <2>2 DEF Load
<1>5. \A l \in 1..loopsSize' : Load(l)' = IF l <= next' THEN 0 + 1 ELSE 0
  BY <1>2, <1>4
<1>6. Load(Base)' = 0
  BY <1>4
<1> QED
  BY <1>5, <1>6 DEF Rounds

LEMMA AcceptRounds == ServerIInv /\ Rounds /\ AcceptConnection => Rounds'
<1> SUFFICES ASSUME ServerIInv, Rounds, AcceptConnection, loopsSize' > 0 PROVE Rounds'
  BY DEF Rounds
<1>1. PICK n : n = nextConnId
  OBVIOUS
<1>2. PICK m \in Loops : m = NextLoop
  BY NextLoopType DEF ServerIInv, Types
<1>3. /\ next' = NextAfter /\ nextConnId' = n + 1 /\ loopOf' = [loopOf EXCEPT ![n] = m]
      /\ loopsSize' = loopsSize
  BY <1>1, <1>2 DEF AcceptConnection, NewConnection
<1>4. TypeOK /\ n \in Nat /\ n >= 1 /\ n <= MaxClients
  <2>1. /\ nextConnId \in 1..(MaxClients + 1) /\ arrived \in 0..MaxClients /\ backlog \in 0..arrived
        /\ MaxClients \in Nat /\ backlog > 0
    BY ServerConstants DEF ServerIInv, Types, TypeOK, AcceptConnection, Readable
  <2>2. nextConnId + backlog <= arrived + 1
    BY DEF ServerIInv, Numbers
  <2>3. TypeOK
    BY DEF ServerIInv, Types
  <2> QED
    BY <2>1, <2>2, <2>3, <1>1
<1>5. /\ loopsSize \in Nat /\ loopsSize > 0 /\ m = next + 1 /\ next \in Nat /\ next < loopsSize
      /\ m # Base
  BY <1>2, <1>3, <1>4, NextLoopType, ServerConstants DEF TypeOK
<1>6. n \in Conns /\ loopOf \in [Conns -> Loops]
  BY <1>4, ServerConstants DEF Conns, TypeOK
<1>7. ASSUME NEW l
      PROVE  Cardinality(Given(l)') = IF l = m THEN Cardinality(Given(l)) + 1 ELSE Cardinality(Given(l))
  <2>1. \A c \in 1..n : c \in 1..(n - 1) \/ c = n
    BY <1>4
  <2>2. \A c \in 1..(n - 1) : c \in 1..n /\ c # n /\ c \in Conns
    BY <1>4, ServerConstants DEF Conns
  <2>3. n \in 1..n /\ (n + 1) - 1 = n
    BY <1>4
  <2>4. /\ Given(l)' = {c \in 1..n : loopOf'[c] = l}
        /\ Given(l) = {c \in 1..(n - 1) : loopOf[c] = l}
    BY <2>3, <1>1, <1>3 DEF Given
  <2>5. loopOf'[n] = m /\ \A c \in 1..(n - 1) : loopOf'[c] = loopOf[c]
    BY <2>2, <1>3, <1>6
  <2>6. Given(l)' = IF l = m THEN Given(l) \cup {n} ELSE Given(l)
    <3>1. CASE l = m
      BY <3>1, <2>1, <2>2, <2>3, <2>4, <2>5
    <3>2. CASE l # m
      BY <3>2, <2>1, <2>2, <2>3, <2>4, <2>5
    <3> QED
      BY <3>1, <3>2
  <2>7. n \notin Given(l) /\ IsFiniteSet(Given(l))
    BY <2>2, <2>4, <1>1, <1>4, GivenFinite
  <2>8. Cardinality(Given(l) \cup {n}) = Cardinality(Given(l)) + 1
    BY <2>7, FS_AddElement
  <2> QED
    BY <2>6, <2>8
<1>8. ASSUME NEW l
      PROVE  Load(l)' = (IF l = m THEN Load(l) + 1 ELSE Load(l)) /\ Load(l) \in Nat
  <2>1. Load(l)' = Cardinality(Given(l)') /\ Load(l) = Cardinality(Given(l))
    BY DEF Load, Given
  <2>2. Cardinality(Given(l)) \in Nat
    BY <1>1, <1>4, GivenFinite
  <2> QED
    BY <2>1, <2>2, <1>7
<1>9. Load(Base) = 0
  BY <1>5 DEF Rounds
<1>10. Load(Base)' = 0
  BY <1>5, <1>8, <1>9
<1>11. PICK k \in Nat : \A l \in 1..loopsSize : Load(l) = IF l <= next THEN k + 1 ELSE k
  BY <1>5 DEF Rounds
<1>12. \A l \in 1..loopsSize : Load(l)' = IF l <= next + 1 THEN k + 1 ELSE k
  <2> SUFFICES ASSUME NEW l \in 1..loopsSize PROVE Load(l)' = IF l <= next + 1 THEN k + 1 ELSE k
    OBVIOUS
  <2>1. Load(l)' = (IF l = m THEN Load(l) + 1 ELSE Load(l)) /\ Load(l) = IF l <= next THEN k + 1 ELSE k
    BY <1>8, <1>11
  <2>2. CASE l = m
    BY <2>1, <2>2, <1>5
  <2>3. CASE l # m
    BY <2>1, <2>3, <1>5
  <2> QED
    BY <2>2, <2>3
<1>13. CASE next + 1 >= loopsSize
  <2>1. next' = 0
    BY <1>3, <1>5, <1>13 DEF NextAfter
  <2>2. \A l \in 1..loopsSize' : Load(l)' = IF l <= next' THEN (k + 1) + 1 ELSE k + 1
    BY <2>1, <1>3, <1>5, <1>12, <1>13
  <2>3. k + 1 \in Nat
    OBVIOUS
  <2> QED
    BY <2>2, <2>3, <1>10 DEF Rounds
<1>14. CASE ~(next + 1 >= loopsSize)
  <2>1. next' = next + 1
    BY <1>3, <1>5, <1>14 DEF NextAfter
  <2>2. \A l \in 1..loopsSize' : Load(l)' = IF l <= next' THEN k + 1 ELSE k
    BY <2>1, <1>3, <1>12
  <2> QED
    BY <2>2, <1>10 DEF Rounds
<1> QED
  BY <1>13, <1>14

\* getNextLoop is fair: with I/O threads loop 0 is given no connection, and the
\* loads of two I/O loops differ by one at most.
THEOREM RoundRobinHolds == Spec => []RoundRobin
<1>1. Init => Rounds
  <2> SUFFICES ASSUME Init PROVE Rounds
    OBVIOUS
  <2>1. ~(loopsSize > 0)
    BY DEF Init
  <2> QED
    BY <2>1 DEF Rounds
<1>2. ServerIInv /\ Rounds /\ [Next]_vars => Rounds'
  <2> SUFFICES ASSUME ServerIInv, Rounds, [Next]_vars PROVE Rounds'
    OBVIOUS
  <2>1. CASE UNCHANGED <<loopsSize, next, nextConnId, loopOf>>
    BY <2>1, ZenonT(60) DEF Rounds, Load
  <2>2. CASE UNCHANGED vars
    BY <2>1, <2>2 DEF vars, srvVars, poolVars
  <2>3. CASE Next
    BY <2>1, <2>3, WhoDistributes, StartRounds, AcceptRounds
  <2> QED
    BY <2>2, <2>3
<1>3. ServerIInv /\ Rounds => RoundRobin
  <2> SUFFICES ASSUME ServerIInv, Rounds, loopsSize > 0
               PROVE  Load(Base) = 0 /\ \A l, m \in 1..loopsSize : Load(l) <= Load(m) + 1
    BY DEF RoundRobin
  <2>1. PICK k \in Nat : \A l \in 1..loopsSize : Load(l) = IF l <= next THEN k + 1 ELSE k
    BY DEF Rounds
  <2>2. \A l \in 1..loopsSize : Load(l) \in {k, k + 1}
    BY <2>1
  <2>3. \A l, m \in 1..loopsSize : Load(l) <= Load(m) + 1
    BY <2>2
  <2> QED
    BY <2>3 DEF Rounds
<1> QED
  BY <1>1, <1>2, <1>3, ServerIInvHolds, PTL DEF Spec
=============================================================================
