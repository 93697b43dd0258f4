--------------------------- MODULE TimerQueueProofs ---------------------------
(***************************************************************************)
(* Proofs about TimerQueue for any addresses, expirations, intervals and   *)
(* bounds.  SetsAgree and OneOwner lean on each other: an address that     *)
(* operator new returns is in neither set because every allocated timer    *)
(* has one owner, and a deleted timer leaves its owner because it is filed *)
(* under its own expiration and sequence.  CancelIsFinal needs to know in  *)
(* addition what becomes of a cancelled id: its timer is gone, or waits in *)
(* the batch of handleRead for reset to delete it.                         *)
(***************************************************************************)
EXTENDS TimerQueue, SequenceTheorems, WellFoundedInduction, TLAPS

\* A timer on the heap has a positive sequence number, already drawn.
SeqOfTimer ==
  \A a \in Addrs : /\ heap[a] = Free <=> heap[a].seq = 0
                   /\ heap[a].seq <= created

\* There is a batch only while its callbacks are called.
BatchIsCalled == expired # {} => phase = "calling"

\* The timer of a cancelled id is gone (its address may have a newer one), or it
\* is in the batch and reset will find it in cancelingTimers_.
DoomedIsDead ==
  \A id \in doomed :
    /\ id[2] \in 1..created
    /\ \/ heap[id[1]].seq # id[2]
       \/ id[1] \in Addresses(expired) /\ id \in cancelingTimers

\* What queued functors look like, and the addresses of the timers they own.
OpRecords == [op : {"add", "cancel"}, addr : Addrs, seq : 0..MaxTimers]
Adds(q) == {i \in DOMAIN q : q[i].op = "add"}
AddAddrs(q) == {q[i].addr : i \in Adds(q)}
AddsOnce(q) == \A i, j \in Adds(q) : q[i].addr = q[j].addr => i = j

\* OneOwner, in terms of the sets of addresses the three owners have.
OwnersShare ==
  /\ {a \in Addrs : heap[a] # Free} = AddAddrs(ops) \cup Addresses(timers) \cup Addresses(expired)
  /\ AddAddrs(ops) \cap Addresses(timers) = {} /\ AddAddrs(ops) \cap Addresses(expired) = {}
  /\ Addresses(timers) \cap Addresses(expired) = {}
  /\ AddsOnce(ops)

\* The inductive invariant for the timers of the queue.
TimerIInv ==
  /\ TypeOK /\ SetsAgree /\ OwnersShare /\ AbortsOnTieOnly
  /\ SeqOfTimer /\ BatchIsCalled /\ DoomedIsDead

\* A queued functor at the back.
LEMMA AddsAppend ==
  ASSUME NEW q \in Seq(OpRecords), NEW o \in OpRecords
  PROVE  /\ o.op = "add" => AddAddrs(Append(q, o)) = AddAddrs(q) \cup {o.addr}
         /\ o.op # "add" => AddAddrs(Append(q, o)) = AddAddrs(q)
         /\ AddsOnce(q) /\ (o.op = "add" => o.addr \notin AddAddrs(q)) => AddsOnce(Append(q, o))
<1> DEFINE n == Len(q) + 1
           r == Append(q, o)
<1> HIDE DEF n, r
<1>1. /\ Len(q) \in Nat /\ DOMAIN q = 1..Len(q) /\ DOMAIN r = 1..n /\ r[n] = o
      /\ \A i \in DOMAIN q : r[i] = q[i]
  BY DEF n, r
<1>2. DOMAIN r = DOMAIN q \cup {n} /\ n \notin DOMAIN q
  BY <1>1 DEF n
<1>3. Adds(r) = IF o.op = "add" THEN Adds(q) \cup {n} ELSE Adds(q)
  BY <1>1, <1>2 DEF Adds
<1>4. \A i \in Adds(q) : i \in DOMAIN q /\ i # n /\ r[i] = q[i]
  BY <1>1, <1>2 DEF Adds
<1>5. CASE o.op = "add"
  <2>1. AddAddrs(r) = AddAddrs(q) \cup {o.addr}
    BY <1>1, <1>3, <1>4, <1>5 DEF AddAddrs
  <2>2. ASSUME AddsOnce(q), o.addr \notin AddAddrs(q) PROVE AddsOnce(r)
    BY <1>1, <1>3, <1>4, <1>5, <2>2 DEF AddsOnce, AddAddrs
  <2> QED
    BY <1>5, <2>1, <2>2 DEF r
<1>6. CASE o.op # "add"
  <2>1. AddAddrs(r) = AddAddrs(q)
    BY <1>3, <1>4, <1>6 DEF AddAddrs
  <2>2. ASSUME AddsOnce(q) PROVE AddsOnce(r)
    BY <1>3, <1>4, <1>6, <2>2 DEF AddsOnce
  <2> QED
    BY <1>6, <2>1, <2>2 DEF r
<1> QED
  BY <1>5, <1>6

\* The functor at the front is run and removed.
LEMMA AddsTail ==
  ASSUME NEW q \in Seq(OpRecords), q # <<>>, AddsOnce(q)
  PROVE  /\ Head(q) \in OpRecords /\ Tail(q) \in Seq(OpRecords)
         /\ AddsOnce(Tail(q))
         /\ Head(q).op = "add" => /\ Head(q).addr \in AddAddrs(q)
                                  /\ AddAddrs(Tail(q)) = AddAddrs(q) \ {Head(q).addr}
         /\ Head(q).op # "add" => AddAddrs(Tail(q)) = AddAddrs(q)
<1> DEFINE r == Tail(q)
           o == Head(q)
<1>1. /\ o \in OpRecords /\ r \in Seq(OpRecords) /\ Len(q) \in Nat \ {0} /\ q[1] = o
      /\ DOMAIN q = 1..Len(q) /\ DOMAIN r = 1..(Len(q) - 1)
      /\ \A i \in 1..(Len(q) - 1) : r[i] = q[i + 1]
  BY HeadTailProperties, LenProperties, EmptySeq
<1> HIDE DEF r, o
<1>2. \A i \in Adds(r) : i + 1 \in Adds(q) /\ r[i] = q[i + 1] /\ i + 1 # 1 /\ i \in Nat
  BY <1>1 DEF Adds
<1>3. \A i \in Adds(q) : i # 1 => i - 1 \in Adds(r) /\ r[i - 1] = q[i] /\ i \in Nat
  <2> SUFFICES ASSUME NEW i \in Adds(q), i # 1
               PROVE  i - 1 \in Adds(r) /\ r[i - 1] = q[i] /\ i \in Nat
    OBVIOUS
  <2>1. i \in DOMAIN q /\ q[i].op = "add"
    BY DEF Adds
  <2>2. i - 1 \in 1..(Len(q) - 1) /\ (i - 1) + 1 = i
    BY <1>1, <2>1
  <2>3. r[i - 1] = q[i]
    BY <1>1, <2>2
  <2> QED
    BY <1>1, <2>1, <2>2, <2>3 DEF Adds
<1>4. 1 \in Adds(q) <=> o.op = "add"
  BY <1>1 DEF Adds
<1>5. AddsOnce(r)
  <2> SUFFICES ASSUME NEW i \in Adds(r), NEW j \in Adds(r), r[i].addr = r[j].addr PROVE i = j
    BY DEF AddsOnce
  <2>1. i + 1 = j + 1
    BY <1>2 DEF AddsOnce
  <2> QED
    BY <2>1, <1>2
<1>6. AddAddrs(r) = {q[i].addr : i \in Adds(q) \ {1}}
  <2>1. ASSUME NEW x \in AddAddrs(r) PROVE x \in {q[i].addr : i \in Adds(q) \ {1}}
    BY <2>1, <1>2 DEF AddAddrs
  <2>2. ASSUME NEW i \in Adds(q) \ {1} PROVE q[i].addr \in AddAddrs(r)
    BY <1>3 DEF AddAddrs
  <2> QED
    BY <2>1, <2>2
<1>7. o.op = "add" => o.addr \in AddAddrs(q) /\ AddAddrs(r) = AddAddrs(q) \ {o.addr}
  <2> SUFFICES ASSUME o.op = "add"
               PROVE  o.addr \in AddAddrs(q) /\ AddAddrs(r) = AddAddrs(q) \ {o.addr}
    OBVIOUS
  <2>1. 1 \in Adds(q) /\ o.addr = q[1].addr
    BY <1>1, <1>4
  <2>2. \A i \in Adds(q) \ {1} : q[i].addr # o.addr
    BY <2>1 DEF AddsOnce
  <2> QED
    BY <2>1, <2>2, <1>6 DEF AddAddrs
<1>8. o.op # "add" => AddAddrs(r) = AddAddrs(q)
  BY <1>4, <1>6 DEF AddAddrs
<1> QED
  BY <1>1, <1>5, <1>7, <1>8 DEF r, o

\* A set of naturals that is not empty has a least element.
LEMMA LeastNat ==
  ASSUME NEW T \in SUBSET Nat, T # {}
  PROVE  \E x \in T : \A y \in T : x <= y
<1> DEFINE R == OpToRel(<, Nat)
<1>1. IsWellFoundedOn(R, Nat)
  BY NatLessThanWellFounded
<1>2. \A x, y \in Nat : x < y => <<x, y>> \in R
  BY DEF OpToRel
<1> HIDE DEF R
<1>3. PICK x \in T : \A y \in T : ~(<<y, x>> \in R)
  BY <1>1, WFMin
<1>4. \A y \in T : y \in Nat /\ x \in Nat /\ ~(y < x)
  BY <1>2, <1>3
<1>5. \A y \in T : x <= y
  BY <1>4
<1> QED
  BY <1>5

\* timers_.begin() is an entry, and none is earlier.
LEMMA MinExpIsLeast ==
  ASSUME NEW E \in SUBSET (Nat \X Addrs), E # {}
  PROVE  /\ MinExp(E) \in Nat
         /\ \E e \in E : MinExp(E) = e[1]
         /\ \A e \in E : MinExp(E) <= e[1]
<1> DEFINE T == {e[1] : e \in E}
<1>1. T \in SUBSET Nat /\ T # {}
  OBVIOUS
<1>2. PICK x \in T : \A y \in T : x <= y
  BY <1>1, LeastNat
<1>3. \A e \in E : x <= e[1]
  BY <1>2
<1>4. MinExp(E) \in T /\ \A e \in E : MinExp(E) <= e[1]
  BY <1>2, <1>3 DEF MinExp
<1> QED
  BY <1>1, <1>4

-----------------------------------------------------------------------------
TimerRecords == [seq : 0..MaxTimers, exp : Nat, repeat : BOOLEAN, delta : Nat]

\* The parts of TypeOK that concern the timers.
LEMMA TypeFacts ==
  ASSUME TypeOK
  PROVE  /\ heap \in [Addrs -> TimerRecords] /\ ops \in Seq(OpRecords)
         /\ timers \in SUBSET (Nat \X Addrs) /\ expired \in SUBSET (Nat \X Addrs)
         /\ \A a \in Addrs : /\ heap[a] \in TimerRecords /\ heap[a].seq \in 0..MaxTimers
                            /\ heap[a].exp \in Nat
         /\ created \in 0..MaxTimers
<1>1. /\ heap \in [Addrs -> TimerRecords] /\ ops \in Seq(OpRecords)
      /\ timers \in SUBSET (Nat \X Addrs) /\ expired \in SUBSET (Nat \X Addrs)
      /\ created \in 0..MaxTimers
  BY DEF TypeOK, TimerRecords, OpRecords
<1>2. \A a \in Addrs : heap[a] \in TimerRecords
  BY <1>1
<1>3. \A t \in TimerRecords : t.seq \in 0..MaxTimers /\ t.exp \in Nat
  BY DEF TimerRecords
<1> QED
  BY <1>1, <1>2, <1>3

\* The inductive invariant implies the invariants of the run.
LEMMA IInvImpliesInv == TimerIInv => TimerInv
<1> SUFFICES ASSUME TimerIInv PROVE TimerInv
  OBVIOUS
<1>1. TypeOK /\ SetsAgree /\ AbortsOnTieOnly
  BY DEF TimerIInv
<1>2. OneOwner
  BY DEF TimerIInv, OwnersShare, OneOwner, QueuedAdds, Adds, AddAddrs, AddsOnce
<1>3. CancelIsFinal
  <2> SUFFICES ASSUME NEW id \in doomed, id \in activeTimers PROVE FALSE
    BY DEF CancelIsFinal
  <2>1. PICK a \in Addresses(timers) : id = <<a, heap[a].seq>>
    BY <1>1 DEF SetsAgree, Id
  <2>2. a \notin Addresses(expired)
    BY DEF TimerIInv, OwnersShare
  <2> QED
    BY <2>1, <2>2 DEF TimerIInv, DoomedIsDead
<1> QED
  BY <1>1, <1>2, <1>3 DEF TimerInv

\* The constructor's state satisfies the inductive invariant.
LEMMA InitIInv == Init => TimerIInv
<1> SUFFICES ASSUME Init PROVE TimerIInv
  OBVIOUS
<1> USE TimerConstants DEF Init
<1>1. TypeOK
  <2>1. heap \in [Addrs -> [seq : 0..MaxTimers, exp : Nat, repeat : BOOLEAN, delta : Nat]]
    BY DEF Free
  <2>2. ops \in Seq([op : {"add", "cancel"}, addr : Addrs, seq : 0..MaxTimers])
    OBVIOUS
  <2> QED
    BY <2>1, <2>2 DEF TypeOK
<1>2. Addresses(timers) = {} /\ Addresses(expired) = {} /\ Adds(ops) = {}
  BY DEF Addresses, Adds
<1>3. SetsAgree /\ AbortsOnTieOnly /\ BatchIsCalled /\ DoomedIsDead
  BY <1>2 DEF SetsAgree, AbortsOnTieOnly, BatchIsCalled, DoomedIsDead
<1>4. OwnersShare
  BY <1>2 DEF OwnersShare, AddAddrs, AddsOnce
<1>5. SeqOfTimer
  <2>1. created = 0 /\ \A a \in Addrs : heap[a] = Free
    OBVIOUS
  <2>2. Free.seq = 0
    BY DEF Free
  <2> HIDE DEF Init
  <2>3. ASSUME NEW a \in Addrs PROVE heap[a].seq = 0 /\ heap[a].seq <= created
    <3>1. heap[a].seq = 0
      BY <2>1, <2>2
    <3> QED
      BY <3>1, <2>1
  <2> QED
    BY <2>1, <2>3, Zenon DEF SeqOfTimer
<1> QED
  BY <1>1, <1>3, <1>4, <1>5 DEF TimerIInv

\* addTimerInLoop files the timer of an address that is not listed.
LEMMA InsertTimer ==
  ASSUME TimerIInv, NEW a \in Addrs, NEW t \in TimerRecords,
         a \notin Addresses(timers), t # Free,
         heap'[a] = t, \A b \in Addrs \ {a} : heap'[b] = heap[b],
         AddTimerInLoop(a, t)
  PROVE  /\ SetsAgree' /\ Addresses(timers') = Addresses(timers) \cup {a}
         /\ timers' \in SUBSET (Nat \X Addrs) /\ activeTimers' \subseteq TimerIds
         /\ t.exp \in Nat /\ t.seq \in 0..MaxTimers
<1> DEFINE new == <<t.exp, a>>
<1>T. /\ timers \in SUBSET (Nat \X Addrs) /\ activeTimers \subseteq TimerIds
      /\ t.exp \in Nat /\ t.seq \in 0..MaxTimers
  BY DEF TimerIInv, TypeOK, TimerRecords
<1>1. timers' = timers \cup {new} /\ activeTimers' = activeTimers \cup {<<a, t.seq>>}
  BY DEF AddTimerInLoop
<1>2. new \in Nat \X Addrs /\ new[1] = t.exp /\ new[2] = a /\ <<a, t.seq>> \in TimerIds
  BY <1>T DEF TimerIds
<1> HIDE DEF new
<1>3. Addresses(timers') = Addresses(timers) \cup {a}
  BY <1>1, <1>2 DEF Addresses
<1>4. \A b \in Addresses(timers) : b \in Addrs \ {a} /\ heap'[b] = heap[b]
  BY <1>T DEF Addresses
<1>5. \A e \in timers : e[2] \in Addresses(timers)
  BY DEF Addresses
<1>6. activeTimers' = {<<b, heap'[b].seq>> : b \in Addresses(timers')}
  <2>1. activeTimers = {<<b, heap[b].seq>> : b \in Addresses(timers)}
    BY DEF TimerIInv, SetsAgree, Id
  <2>2. {<<b, heap[b].seq>> : b \in Addresses(timers)} = {<<b, heap'[b].seq>> : b \in Addresses(timers)}
    BY <1>4
  <2> QED
    BY <1>1, <1>3, <2>1, <2>2
<1>7. \A e \in timers' : heap'[e[2]] # Free /\ e[1] = heap'[e[2]].exp
  BY <1>1, <1>2, <1>4, <1>5 DEF TimerIInv, SetsAgree
<1>8. \A d, e \in timers' : d[2] = e[2] => d = e
  <2>1. \A e \in timers : e[2] # new[2]
    BY <1>2, <1>5
  <2> QED
    BY <2>1, <1>1 DEF TimerIInv, SetsAgree
<1>9. SetsAgree'
  BY <1>6, <1>7, <1>8 DEF SetsAgree, Id
<1> QED
  BY <1>T, <1>1, <1>2, <1>3, <1>9

\* cancelInLoop, on the loop thread or from a queued functor, keeps everything
\* that concerns the timers: an active timer is deleted, one of the batch is
\* remembered, and an id that names neither has no effect on them.
LEMMA CancelTimer ==
  ASSUME TimerIInv, NEW id \in TimerIds, CancelInLoop(id), phase # "aborted",
         UNCHANGED <<phase, expired, created>>,
         AddAddrs(ops') = AddAddrs(ops), AddsOnce(ops')
  PROVE  /\ heap' \in [Addrs -> TimerRecords]
         /\ timers' \in SUBSET timers /\ activeTimers' \in SUBSET activeTimers
         /\ cancelingTimers' \in SUBSET TimerIds /\ doomed' \in SUBSET TimerIds
         /\ SetsAgree' /\ OwnersShare' /\ AbortsOnTieOnly' /\ SeqOfTimer'
         /\ BatchIsCalled' /\ DoomedIsDead'
<1> DEFINE a == id[1]
<1>T. /\ TypeOK /\ heap \in [Addrs -> TimerRecords]
      /\ timers \in SUBSET (Nat \X Addrs) /\ expired \in SUBSET (Nat \X Addrs)
      /\ cancelingTimers \subseteq TimerIds /\ doomed \subseteq TimerIds
      /\ created \in Nat
  <2>1. TypeOK
    BY DEF TimerIInv
  <2>2. created \in 0..MaxTimers /\ cancelingTimers \subseteq TimerIds /\ doomed \subseteq TimerIds
    BY <2>1 DEF TypeOK
  <2> QED
    BY <2>1, <2>2, TypeFacts
<1>I. a \in Addrs /\ id = <<a, id[2]>> /\ id[2] \in 0..MaxTimers
  BY DEF TimerIds
<1> HIDE DEF a
<1>A. AbortsOnTieOnly' /\ BatchIsCalled'
  BY DEF TimerIInv, AbortsOnTieOnly, BatchIsCalled
<1>F. Free \in TimerRecords /\ Free.seq = 0
  BY TimerConstants DEF Free, TimerRecords
<1>1. CASE id \in activeTimers
  <2> DEFINE old == <<heap[a].exp, a>>
  <2>1. /\ timers' = timers \ {old} /\ activeTimers' = activeTimers \ {id}
        /\ heap' = [heap EXCEPT ![a] = Free] /\ doomed' = doomed \cup {id}
        /\ cancelingTimers' = cancelingTimers
    BY <1>1 DEF CancelInLoop, a
  <2>2. heap' \in [Addrs -> TimerRecords] /\ heap'[a] = Free /\ \A b \in Addrs \ {a} : heap'[b] = heap[b]
    BY <1>I, <1>T, <1>F, <2>1
  <2>3. a \in Addresses(timers) /\ id[2] = heap[a].seq
    <3>1. activeTimers = {<<b, heap[b].seq>> : b \in Addresses(timers)}
      BY DEF TimerIInv, SetsAgree, Id
    <3> QED
      BY <1>1, <1>I, <3>1
  <2>4. PICK e \in timers : e[2] = a
    BY <2>3 DEF Addresses
  <2>5. e = old
    <3>1. e \in Nat \X Addrs /\ e[1] = heap[a].exp
      BY <2>4, <1>T DEF TimerIInv, SetsAgree
    <3> QED
      BY <3>1, <2>4
  <2> HIDE DEF old
  <2>6. \A d \in timers' : d \in timers /\ d[2] # a /\ d[2] \in Addrs \ {a}
    BY <1>T, <2>1, <2>4, <2>5 DEF TimerIInv, SetsAgree
  <2>7. Addresses(timers') = Addresses(timers) \ {a}
    BY <2>1, <2>4, <2>5, <2>6 DEF Addresses
  <2>8. a \notin AddAddrs(ops) /\ a \notin Addresses(expired)
    BY <2>3 DEF TimerIInv, OwnersShare
  <2>9. SetsAgree'
    <3>1. activeTimers' = {<<b, heap'[b].seq>> : b \in Addresses(timers')}
      <4>1. activeTimers = {<<b, heap[b].seq>> : b \in Addresses(timers)}
        BY DEF TimerIInv, SetsAgree, Id
      <4>2. \A b \in Addresses(timers) : b \in Addrs
        BY <1>T DEF Addresses
      <4>3. activeTimers \ {id} = {<<b, heap[b].seq>> : b \in Addresses(timers) \ {a}}
        BY <4>1, <1>I, <2>3
      <4>4. {<<b, heap[b].seq>> : b \in Addresses(timers) \ {a}}
              = {<<b, heap'[b].seq>> : b \in Addresses(timers) \ {a}}
        BY <4>2, <2>2
      <4> QED
        BY <4>3, <4>4, <2>1, <2>7
    <3>2. \A d \in timers' : heap'[d[2]] # Free /\ d[1] = heap'[d[2]].exp
      BY <2>2, <2>6 DEF TimerIInv, SetsAgree
    <3>3. \A d, g \in timers' : d[2] = g[2] => d = g
      BY <2>6 DEF TimerIInv, SetsAgree
    <3> QED
      BY <3>1, <3>2, <3>3 DEF SetsAgree, Id
  <2>10. OwnersShare'
    <3>1. {b \in Addrs : heap'[b] # Free} = {b \in Addrs : heap[b] # Free} \ {a}
      BY <2>2
    <3> QED
      BY <3>1, <2>7, <2>8 DEF TimerIInv, OwnersShare
  <2>11. SeqOfTimer'
    BY <2>2, <1>F, <1>T DEF TimerIInv, SeqOfTimer
  <2>12. DoomedIsDead'
    <3>1. id[2] \in 1..created /\ heap'[a].seq # id[2]
      <4>1. heap[a] # Free
        BY <2>3 DEF TimerIInv, OwnersShare
      <4>2. heap[a].seq # 0 /\ heap[a].seq <= created /\ heap[a].seq \in Nat
        BY <4>1, <1>I, <1>T, TypeFacts DEF TimerIInv, SeqOfTimer
      <4>3. heap'[a].seq = 0
        BY <2>2, <1>F
      <4> QED
        BY <4>2, <4>3, <2>3, <1>T
    <3>2. ASSUME NEW x \in doomed
          PROVE  /\ x[2] \in 1..created
                 /\ \/ heap'[x[1]].seq # x[2]
                    \/ x[1] \in Addresses(expired) /\ x \in cancelingTimers
      <4>1. x[1] \in Addrs /\ x[2] \in 1..created
        BY <1>T DEF TimerIInv, DoomedIsDead, TimerIds
      <4>2. CASE x[1] = a
        BY <4>1, <4>2, <2>2, <1>F, <1>T
      <4>3. CASE x[1] # a
        BY <4>1, <4>3, <2>2 DEF TimerIInv, DoomedIsDead
      <4> QED
        BY <4>2, <4>3
    <3> QED
      BY <3>1, <3>2, <2>1 DEF DoomedIsDead, a
  <2> QED
    BY <1>A, <1>T, <2>1, <2>2, <2>9, <2>10, <2>11, <2>12
<1>2. CASE id \notin activeTimers
  <2>1. /\ UNCHANGED <<timers, activeTimers, heap>>
        /\ cancelingTimers' = IF phase = "calling" THEN cancelingTimers \cup {id} ELSE cancelingTimers
        /\ doomed' = IF id \in {Id(b) : b \in Addresses(expired)} THEN doomed \cup {id} ELSE doomed
    BY <1>2 DEF CancelInLoop
  <2>2. SetsAgree' /\ OwnersShare' /\ SeqOfTimer'
    BY <2>1 DEF TimerIInv, SetsAgree, OwnersShare, SeqOfTimer, Id
  <2>3. ASSUME NEW b \in Addresses(expired), id = Id(b)
        PROVE  id[1] = b /\ id[2] \in 1..created /\ id \in cancelingTimers'
    <3>1. b \in Addrs /\ heap[b] # Free /\ phase = "calling" /\ id[1] = b /\ id[2] = heap[b].seq
      BY <2>3, <1>T DEF Addresses, TimerIInv, OwnersShare, BatchIsCalled, Id
    <3>2. heap[b].seq # 0 /\ heap[b].seq <= created /\ heap[b].seq \in Nat
      BY <3>1, <1>T, TypeFacts DEF TimerIInv, SeqOfTimer
    <3> QED
      BY <3>1, <3>2, <2>1, <1>T
  <2>4. DoomedIsDead'
    <3>1. \A x \in doomed : /\ x[2] \in 1..created
                            /\ \/ heap[x[1]].seq # x[2]
                               \/ x[1] \in Addresses(expired) /\ x \in cancelingTimers'
      BY <2>1 DEF TimerIInv, DoomedIsDead
    <3> QED
      BY <3>1, <2>1, <2>3 DEF DoomedIsDead
  <2> QED
    BY <1>A, <1>T, <2>1, <2>2, <2>4
<1> QED
  BY <1>1, <1>2

\* Timer's constructor draws a sequence number that no timer had.
LEMMA NewTimerFacts ==
  ASSUME TypeOK, created < MaxTimers, NEW when \in Whens, NEW k \in Kinds
  PROVE  /\ NewTimer(when, k) \in TimerRecords /\ NewTimer(when, k) # Free
         /\ NewTimer(when, k).seq = created + 1 /\ NewTimer(when, k).exp = when
         /\ created + 1 \in 1..MaxTimers /\ created \in Nat
<1>1. created + 1 \in 1..MaxTimers /\ created \in Nat
  BY TimerConstants DEF TypeOK
<1>2. k.repeat \in BOOLEAN /\ k.delta \in Nat
  <2>1. CASE k = [repeat |-> FALSE, delta |-> 0]
    BY <2>1
  <2>2. CASE k \in [repeat : {TRUE}, delta : Deltas]
    BY <2>2, TimerConstants
  <2> QED
    BY <2>1, <2>2 DEF Kinds
<1>3. NewTimer(when, k).seq = created + 1 /\ NewTimer(when, k).exp = when
  BY DEF NewTimer
<1>4. NewTimer(when, k) \in TimerRecords
  BY <1>1, <1>2, TimerConstants DEF NewTimer, TimerRecords
<1>5. Free.seq = 0
  BY DEF Free
<1>6. NewTimer(when, k) # Free
  BY <1>1, <1>3, <1>5
<1> QED
  BY <1>1, <1>3, <1>4, <1>6

\* A timer at a fresh address keeps what is known of the timers on the heap.
LEMMA AllocateTimer ==
  ASSUME TimerIInv, NEW a \in Addrs, NEW t \in TimerRecords, heap[a] = Free,
         t.seq = created + 1, t # Free,
         heap' = [heap EXCEPT ![a] = t], created' = created + 1,
         UNCHANGED <<doomed, expired, cancelingTimers>>
  PROVE  /\ heap' \in [Addrs -> TimerRecords] /\ heap'[a] = t
         /\ \A b \in Addrs \ {a} : heap'[b] = heap[b]
         /\ {b \in Addrs : heap'[b] # Free} = {b \in Addrs : heap[b] # Free} \cup {a}
         /\ a \notin AddAddrs(ops) \cup Addresses(timers) \cup Addresses(expired)
         /\ SeqOfTimer' /\ DoomedIsDead'
<1>T. heap \in [Addrs -> TimerRecords] /\ created \in Nat /\ doomed \subseteq TimerIds
  BY TypeFacts, TimerConstants, SMTT(40) DEF TimerIInv, TypeOK
<1>1. /\ heap' \in [Addrs -> TimerRecords] /\ heap'[a] = t
      /\ \A b \in Addrs \ {a} : heap'[b] = heap[b]
  BY <1>T
<1>2. {b \in Addrs : heap'[b] # Free} = {b \in Addrs : heap[b] # Free} \cup {a}
  BY <1>1
<1>3. a \notin AddAddrs(ops) \cup Addresses(timers) \cup Addresses(expired)
  BY DEF TimerIInv, OwnersShare
<1>4. SeqOfTimer'
  <2> SUFFICES ASSUME NEW b \in Addrs
               PROVE  /\ heap'[b] = Free <=> heap'[b].seq = 0
                      /\ heap'[b].seq <= created'
    BY DEF SeqOfTimer
  <2>1. CASE b = a
    BY <2>1, <1>1, <1>T
  <2>2. CASE b # a
    <3>1. heap'[b] = heap[b] /\ heap[b].seq \in 0..MaxTimers
      BY <2>2, <1>1, TypeFacts DEF TimerIInv
    <3>2. (heap[b] = Free <=> heap[b].seq = 0) /\ heap[b].seq <= created
      BY DEF TimerIInv, SeqOfTimer
    <3> QED
      BY <3>1, <3>2, <1>T
  <2> QED
    BY <2>1, <2>2
<1>5. DoomedIsDead'
  <2> SUFFICES ASSUME NEW x \in doomed
               PROVE  /\ x[2] \in 1..created'
                      /\ \/ heap'[x[1]].seq # x[2]
                         \/ x[1] \in Addresses(expired) /\ x \in cancelingTimers
    BY DEF DoomedIsDead
  <2>1. x[1] \in Addrs /\ x[2] \in 1..created
    BY <1>T DEF TimerIInv, DoomedIsDead, TimerIds
  <2>2. CASE x[1] = a
    BY <2>1, <2>2, <1>1, <1>T
  <2>3. CASE x[1] # a
    BY <2>1, <2>3, <1>1, <1>T DEF TimerIInv, DoomedIsDead
  <2> QED
    BY <2>2, <2>3
<1> QED
  BY <1>1, <1>2, <1>3, <1>4, <1>5

\* addTimer on the loop thread.
LEMMA AddTimerIInv ==
  ASSUME TimerIInv, NEW a \in Addrs, NEW w \in Whens, NEW k \in Kinds, AddTimer(a, w, k)
  PROVE  TimerIInv'
<1> DEFINE t == NewTimer(w, k)
<1>T. TypeOK
  BY DEF TimerIInv
<1>1. /\ InUser /\ created < MaxTimers /\ heap[a] = Free
      /\ heap' = [heap EXCEPT ![a] = t] /\ AddTimerInLoop(a, t)
      /\ ids' = ids \cup {<<a, t.seq>>} /\ created' = created + 1
      /\ UNCHANGED <<cancelingTimers, phase, expired, toRun, now, clock, ops, returning, doomed>>
  BY DEF AddTimer, batchVars
<1>2. /\ t \in TimerRecords /\ t # Free /\ t.seq = created + 1
      /\ created + 1 \in 1..MaxTimers
  BY <1>T, <1>1, NewTimerFacts
<1> HIDE DEF t
<1>3. /\ heap' \in [Addrs -> TimerRecords] /\ heap'[a] = t
      /\ \A b \in Addrs \ {a} : heap'[b] = heap[b]
      /\ {b \in Addrs : heap'[b] # Free} = {b \in Addrs : heap[b] # Free} \cup {a}
      /\ a \notin AddAddrs(ops) \cup Addresses(timers) \cup Addresses(expired)
      /\ SeqOfTimer' /\ DoomedIsDead'
  BY <1>1, <1>2, AllocateTimer
<1>4. /\ SetsAgree' /\ Addresses(timers') = Addresses(timers) \cup {a}
      /\ timers' \in SUBSET (Nat \X Addrs) /\ activeTimers' \subseteq TimerIds
      /\ t.exp \in Nat
  BY <1>1, <1>2, <1>3, InsertTimer
<1>5. OwnersShare'
  BY <1>1, <1>3, <1>4 DEF TimerIInv, OwnersShare
<1>6. AbortsOnTieOnly' /\ BatchIsCalled'
  BY <1>1 DEF InUser, TimerIInv, AbortsOnTieOnly, BatchIsCalled
<1>7. armed' \in Nat
  BY <1>1, <1>4, <1>T, TimerConstants DEF AddTimerInLoop, ResetTimerfd, TypeOK
<1>8. ids' \subseteq TimerIds
  BY <1>1, <1>2, <1>T DEF TypeOK, TimerIds
<1>9. TypeOK'
  BY <1>1, <1>2, <1>3, <1>4, <1>7, <1>8, <1>T DEF TypeOK, TimerRecords
<1> QED
  BY <1>3, <1>4, <1>5, <1>6, <1>9 DEF TimerIInv

\* addTimer on another thread: the timer belongs to the queued functor.
LEMMA RemoteAddTimerIInv ==
  ASSUME TimerIInv, NEW a \in Addrs, NEW w \in Whens, NEW k \in Kinds, RemoteAddTimer(a, w, k)
  PROVE  TimerIInv'
<1> DEFINE t == NewTimer(w, k)
           o == [op |-> "add", addr |-> a, seq |-> created + 1]
<1>T. TypeOK /\ ops \in Seq(OpRecords)
  BY TypeFacts DEF TimerIInv
<1>1. /\ Alive /\ created < MaxTimers /\ heap[a] = Free
      /\ heap' = [heap EXCEPT ![a] = t] /\ ops' = Append(ops, o)
      /\ returning' = returning \cup {<<a, t.seq>>} /\ created' = created + 1
      /\ UNCHANGED <<timers, activeTimers, cancelingTimers, phase, expired, toRun, now, clock,
                     armed, ids, doomed>>
  BY DEF RemoteAddTimer, batchVars, queueVars
<1>2. /\ t \in TimerRecords /\ t # Free /\ t.seq = created + 1
      /\ created + 1 \in 1..MaxTimers
  BY <1>T, <1>1, NewTimerFacts
<1>3. o \in OpRecords /\ o.op = "add" /\ o.addr = a
  BY <1>2 DEF OpRecords
<1> HIDE DEF t, o
<1>4. /\ heap' \in [Addrs -> TimerRecords] /\ heap'[a] = t
      /\ \A b \in Addrs \ {a} : heap'[b] = heap[b]
      /\ {b \in Addrs : heap'[b] # Free} = {b \in Addrs : heap[b] # Free} \cup {a}
      /\ a \notin AddAddrs(ops) \cup Addresses(timers) \cup Addresses(expired)
      /\ SeqOfTimer' /\ DoomedIsDead'
  BY <1>1, <1>2, AllocateTimer
<1>5. AddAddrs(ops') = AddAddrs(ops) \cup {a} /\ AddsOnce(ops')
  BY <1>1, <1>3, <1>4, <1>T, AddsAppend DEF TimerIInv, OwnersShare
<1>6. OwnersShare'
  BY <1>1, <1>4, <1>5 DEF TimerIInv, OwnersShare
<1>7. SetsAgree'
  <2>1. \A e \in timers : e[2] \in Addresses(timers)
    BY DEF Addresses
  <2>2. \A b \in Addresses(timers) : b \in Addrs /\ heap'[b] = heap[b]
    BY <1>4, <1>T DEF Addresses, TypeOK
  <2>3. {<<b, heap[b].seq>> : b \in Addresses(timers)} = {<<b, heap'[b].seq>> : b \in Addresses(timers)}
    BY <2>2
  <2>4. \A e \in timers : heap'[e[2]] # Free /\ e[1] = heap'[e[2]].exp
    BY <2>1, <2>2 DEF TimerIInv, SetsAgree
  <2> QED
    BY <1>1, <2>3, <2>4 DEF TimerIInv, SetsAgree, Id
<1>8. AbortsOnTieOnly' /\ BatchIsCalled'
  BY <1>1 DEF TimerIInv, AbortsOnTieOnly, BatchIsCalled
<1>9. TypeOK'
  <2>1. ops' \in Seq(OpRecords)
    BY <1>1, <1>3, <1>T
  <2>2. returning' \subseteq TimerIds
    BY <1>1, <1>2, <1>T DEF TypeOK, TimerIds
  <2> QED
    BY <1>1, <1>2, <1>4, <2>1, <2>2, <1>T DEF TypeOK, TimerRecords, OpRecords
<1> QED
  BY <1>4, <1>6, <1>7, <1>8, <1>9 DEF TimerIInv

\* doPendingFunctors runs a functor of addTimer or of cancel.
LEMMA RunOpIInv == ASSUME TimerIInv, RunOp PROVE TimerIInv'
<1> DEFINE o == Head(ops)
           a == o.addr
           t == heap[a]
<1>T. TypeOK /\ ops \in Seq(OpRecords) /\ AddsOnce(ops)
  BY TypeFacts DEF TimerIInv, OwnersShare
<1>1. /\ phase = "idle" /\ ops # <<>> /\ ops' = Tail(ops)
      /\ UNCHANGED <<created, phase, expired, toRun, now, clock, returning, ids>>
  BY DEF RunOp, batchVars
<1>2. /\ o \in OpRecords /\ ops' \in Seq(OpRecords) /\ AddsOnce(ops')
      /\ o.op = "add" => a \in AddAddrs(ops) /\ AddAddrs(ops') = AddAddrs(ops) \ {a}
      /\ o.op # "add" => AddAddrs(ops') = AddAddrs(ops)
  BY <1>1, <1>T, AddsTail
<1>3. a \in Addrs /\ o.seq \in 0..MaxTimers
  BY <1>2 DEF OpRecords
<1>4. CASE o.op = "add"
  <2>1. AddTimerInLoop(a, t) /\ UNCHANGED <<heap, cancelingTimers, doomed>>
    BY <1>4 DEF RunOp
  <2> HIDE DEF o, a
  <2>2. /\ a \notin Addresses(timers) /\ a \notin Addresses(expired) /\ t # Free
        /\ t \in TimerRecords
    BY <1>2, <1>3, <1>4, <1>T, TypeFacts DEF TimerIInv, OwnersShare
  <2>3. heap'[a] = t /\ \A b \in Addrs \ {a} : heap'[b] = heap[b]
    BY <2>1
  <2> HIDE DEF t
  <2>4. /\ SetsAgree' /\ Addresses(timers') = Addresses(timers) \cup {a}
        /\ timers' \in SUBSET (Nat \X Addrs) /\ activeTimers' \subseteq TimerIds
        /\ t.exp \in Nat
    BY <1>3, <2>1, <2>2, <2>3, InsertTimer
  <2>5. OwnersShare'
    BY <1>1, <1>2, <1>4, <2>1, <2>2, <2>4 DEF TimerIInv, OwnersShare
  <2>6. AbortsOnTieOnly' /\ BatchIsCalled' /\ SeqOfTimer' /\ DoomedIsDead'
    BY <1>1, <2>1 DEF TimerIInv, AbortsOnTieOnly, BatchIsCalled, SeqOfTimer, DoomedIsDead
  <2>7. armed' \in Nat
    BY <2>1, <2>4, <1>T, TimerConstants DEF AddTimerInLoop, ResetTimerfd, TypeOK
  <2>8. TypeOK'
    BY <1>1, <1>2, <2>1, <2>4, <2>7, <1>T DEF TypeOK, OpRecords
  <2> QED
    BY <2>4, <2>5, <2>6, <2>8 DEF TimerIInv
<1>5. CASE o.op # "add"
  <2> DEFINE id == <<o.addr, o.seq>>
  <2>1. CancelInLoop(id) /\ armed' = armed
    BY <1>5 DEF RunOp
  <2>2. id \in TimerIds
    BY <1>3 DEF TimerIds
  <2> HIDE DEF o, a, t, id
  <2>3. /\ heap' \in [Addrs -> TimerRecords]
        /\ timers' \in SUBSET timers /\ activeTimers' \in SUBSET activeTimers
        /\ cancelingTimers' \in SUBSET TimerIds /\ doomed' \in SUBSET TimerIds
        /\ SetsAgree' /\ OwnersShare' /\ AbortsOnTieOnly' /\ SeqOfTimer'
        /\ BatchIsCalled' /\ DoomedIsDead'
    BY <1>1, <1>2, <1>5, <2>1, <2>2, CancelTimer
  <2>4. TypeOK'
    BY <1>1, <1>2, <2>1, <2>3, <1>T DEF TypeOK, OpRecords, TimerRecords
  <2> QED
    BY <2>3, <2>4 DEF TimerIInv
<1> QED
  BY <1>4, <1>5

\* cancel on the loop thread.
LEMMA CancelIInv == ASSUME TimerIInv, NEW id \in ids, Cancel(id) PROVE TimerIInv'
<1>T. TypeOK /\ id \in TimerIds /\ AddsOnce(ops)
  BY DEF TimerIInv, TypeOK, OwnersShare
<1>1. /\ InUser /\ CancelInLoop(id)
      /\ UNCHANGED <<created, phase, expired, toRun, now, clock, armed, ops, returning, ids>>
  BY DEF Cancel, batchVars, userVars
<1>2. phase # "aborted" /\ AddAddrs(ops') = AddAddrs(ops) /\ AddsOnce(ops')
  BY <1>1, <1>T DEF InUser
<1>3. /\ heap' \in [Addrs -> TimerRecords]
      /\ timers' \in SUBSET timers /\ activeTimers' \in SUBSET activeTimers
      /\ cancelingTimers' \in SUBSET TimerIds /\ doomed' \in SUBSET TimerIds
      /\ SetsAgree' /\ OwnersShare' /\ AbortsOnTieOnly' /\ SeqOfTimer'
      /\ BatchIsCalled' /\ DoomedIsDead'
  BY <1>1, <1>2, <1>T, CancelTimer
<1>4. TypeOK'
  BY <1>1, <1>3, <1>T DEF TypeOK, TimerRecords
<1> QED
  BY <1>3, <1>4 DEF TimerIInv

\* handleRead up to the callbacks: what is due moves from the two sets to the
\* batch, or the assert of getExpired ends the process.
LEMMA HandleReadIInv == ASSUME TimerIInv, HandleRead PROVE TimerIInv'
<1> DEFINE due == GetExpired(clock)
<1>T. /\ TypeOK /\ timers \in SUBSET (Nat \X Addrs) /\ clock \in Nat /\ clock \in 1..MaxClock
      /\ armed' \in Nat
  BY TimerConstants DEF TimerIInv, TypeOK, HandleRead
<1>1. /\ phase = "reported" /\ now' = clock
      /\ UNCHANGED <<heap, created, clock, ops, returning, ids, doomed>>
  BY DEF HandleRead, userVars
<1>2. expired = {} /\ toRun = {} /\ Addresses(expired) = {}
  <2>1. expired = {}
    BY <1>1 DEF TimerIInv, BatchIsCalled
  <2> QED
    BY <2>1, <1>T DEF TypeOK, Addresses
<1>3. due \subseteq timers /\ \A e \in timers \ due : ~Before(e, <<clock, Sentry>>)
  BY DEF GetExpired
<1>4. CASE \E e \in timers \ due : e[1] <= clock /\ phase' = "aborted" /\ UNCHANGED <<queueVars, expired, toRun>>
  <2>1. PICK e \in timers \ due : e[1] <= clock
    BY <1>4
  <2>2. e[1] \in Nat /\ e[2] \in Addrs /\ ~Before(e, <<clock, Sentry>>)
    BY <2>1, <1>3, <1>T
  <2>3. e[1] = clock /\ e[2] > Sentry
    <3>1. ~(e[1] < clock) /\ ~(e[1] = clock /\ e[2] < Sentry)
      BY <2>2 DEF Before
    <3>2. e[2] \in Nat /\ Sentry \in Nat /\ e[2] # Sentry
      BY <2>2, TimerConstants
    <3> QED
      BY <2>1, <2>2, <3>1, <3>2, <1>T
  <2>4. AbortsOnTieOnly'
    BY <1>1, <1>4, <2>1, <2>3 DEF AbortsOnTieOnly, queueVars
  <2>5. SetsAgree' /\ OwnersShare' /\ SeqOfTimer' /\ DoomedIsDead'
    BY <1>1, <1>4 DEF queueVars, TimerIInv, SetsAgree, OwnersShare, SeqOfTimer, DoomedIsDead, Id
  <2>6. BatchIsCalled'
    BY <1>2, <1>4 DEF BatchIsCalled
  <2>7. TypeOK'
    BY <1>1, <1>4, <1>T DEF TypeOK, queueVars
  <2> QED
    BY <2>4, <2>5, <2>6, <2>7 DEF TimerIInv
<1>5. CASE /\ phase' = "calling" /\ expired' = due /\ toRun' = due
           /\ timers' = timers \ due
           /\ activeTimers' = activeTimers \ {Id(a) : a \in Addresses(due)}
           /\ cancelingTimers' = {}
  <2> HIDE DEF due
  <2>1. /\ Addresses(timers) = Addresses(timers \ due) \cup Addresses(due)
        /\ Addresses(timers \ due) \cap Addresses(due) = {}
        /\ Addresses(timers) \subseteq Addrs
    <3>1. \A d \in timers \ due, e \in due : d[2] # e[2]
      BY <1>3 DEF TimerIInv, SetsAgree
    <3> QED
      BY <3>1, <1>3, <1>T DEF Addresses
  <2>2. activeTimers' = {<<a, heap[a].seq>> : a \in Addresses(timers \ due)}
    <3>1. activeTimers = {<<a, heap[a].seq>> : a \in Addresses(timers)}
      BY DEF TimerIInv, SetsAgree, Id
    <3>2. activeTimers' = activeTimers \ {<<a, heap[a].seq>> : a \in Addresses(due)}
      BY <1>5 DEF Id
    <3> QED
      BY <2>1, <3>1, <3>2, SMTT(40)
  <2>3. SetsAgree'
    BY <1>1, <1>5, <2>2 DEF TimerIInv, SetsAgree, Id
  <2>4. OwnersShare'
    BY <1>1, <1>2, <1>5, <2>1 DEF TimerIInv, OwnersShare
  <2>5. SeqOfTimer' /\ AbortsOnTieOnly' /\ BatchIsCalled'
    BY <1>1, <1>5 DEF TimerIInv, SeqOfTimer, AbortsOnTieOnly, BatchIsCalled
  <2>6. DoomedIsDead'
    BY <1>1, <1>2 DEF TimerIInv, DoomedIsDead
  <2>7. TypeOK'
    BY <1>1, <1>3, <1>5, <1>T DEF TypeOK
  <2> QED
    BY <2>3, <2>4, <2>5, <2>6, <2>7 DEF TimerIInv
<1> QED
  BY <1>4, <1>5 DEF HandleRead

\* reset: the periodic timers that were not cancelled go back to the two sets,
\* the others are deleted.
LEMMA ResetIInv == ASSUME TimerIInv, Reset PROVE TimerIInv'
<1> DEFINE batch == Addresses(expired)
           again == {a \in batch : Restarts(a)}
<1>T. /\ TypeOK /\ timers \in SUBSET (Nat \X Addrs) /\ expired \in SUBSET (Nat \X Addrs)
      /\ heap \in [Addrs -> TimerRecords]
      /\ clock \in Nat /\ now \in Nat
  <2>1. TypeOK
    BY DEF TimerIInv
  <2>2. clock \in 1..MaxClock /\ now \in 1..MaxClock
    BY <2>1 DEF TypeOK
  <2> QED
    BY <2>1, <2>2, TypeFacts, TimerConstants
<1>1. /\ phase = "calling" /\ toRun = {} /\ phase' = "idle" /\ expired' = {}
      /\ heap' = [a \in Addrs |-> IF a \in again THEN Restart(heap[a])
                                  ELSE IF a \in batch THEN Free ELSE heap[a]]
      /\ timers' = timers \cup Reinserted(again)
      /\ activeTimers' = activeTimers \cup {Id(a) : a \in again}
      /\ armed' = NextExpire(timers \cup Reinserted(again))
      /\ UNCHANGED <<created, cancelingTimers, toRun, now, clock, ops, returning, ids, doomed>>
  BY DEF Reset, userVars
<1>2. again \subseteq batch /\ batch \subseteq Addrs
  BY <1>T DEF Addresses
<1>3. \A a \in batch : heap[a] # Free /\ a \notin Addresses(timers) /\ a \notin AddAddrs(ops)
  BY DEF TimerIInv, OwnersShare
<1>4. \A a \in Addrs : /\ Restart(heap[a]) \in TimerRecords
                       /\ Restart(heap[a]).seq = heap[a].seq
                       /\ Restart(heap[a]).exp \in Nat
  <2>1. \A t \in TimerRecords : /\ Restart(t) \in TimerRecords /\ Restart(t).seq = t.seq
                               /\ Restart(t).exp \in Nat
    BY <1>T DEF Restart, TimerRecords
  <2> QED
    BY <1>T, <2>1
<1>F. Free \in TimerRecords /\ Free.seq = 0
  BY TimerConstants DEF Free, TimerRecords
<1>5. \A a \in batch : heap[a].seq # 0
  BY <1>2, <1>3 DEF TimerIInv, SeqOfTimer
<1>A. \A a \in again : Id(a) \notin cancelingTimers
  BY DEF Restarts
<1> HIDE DEF batch, again
<1>6. /\ heap' \in [Addrs -> TimerRecords]
      /\ \A a \in again : heap'[a] = Restart(heap[a]) /\ heap'[a].seq = heap[a].seq
      /\ \A a \in batch \ again : heap'[a] = Free
      /\ \A a \in Addrs \ batch : heap'[a] = heap[a]
  BY <1>1, <1>2, <1>4, <1>F, <1>T
<1>7. \A a \in again : heap'[a] # Free
  BY <1>2, <1>5, <1>6, <1>F
<1>8. Addresses(timers) \subseteq Addrs \ batch /\ \A e \in timers : e[2] \in Addresses(timers)
  BY <1>3, <1>T DEF Addresses
<1>9. /\ Reinserted(again) \in SUBSET (Nat \X Addrs)
      /\ \A e \in Reinserted(again) : e[2] \in again /\ e[1] = heap'[e[2]].exp
      /\ \A d, e \in Reinserted(again) : d[2] = e[2] => d = e
      /\ Addresses(Reinserted(again)) = again
  <2>1. Reinserted(again) = {<<heap'[a].exp, a>> : a \in again}
    BY <1>6 DEF Reinserted
  <2>2. \A a \in again : a \in Addrs /\ heap'[a].exp \in Nat
    BY <1>2, <1>4, <1>6
  <2>3. \A e \in Reinserted(again) : /\ e[2] \in again /\ e = <<heap'[e[2]].exp, e[2]>>
                                     /\ e[1] = heap'[e[2]].exp
    BY <2>1
  <2>4. \A d, e \in Reinserted(again) : d[2] = e[2] => d = e
    BY <2>3
  <2>5. Addresses(Reinserted(again)) = again
    <3>1. ASSUME NEW a \in again PROVE a \in Addresses(Reinserted(again))
      <4>1. <<heap'[a].exp, a>> \in Reinserted(again) /\ <<heap'[a].exp, a>>[2] = a
        BY <2>1
      <4> QED
        BY <4>1 DEF Addresses
    <3> QED
      BY <3>1, <2>3 DEF Addresses
  <2>6. Reinserted(again) \in SUBSET (Nat \X Addrs)
    BY <2>1, <2>2
  <2> QED
    BY <2>3, <2>4, <2>5, <2>6
<1>10. Addresses(timers') = Addresses(timers) \cup again
  <2>1. Addresses(timers \cup Reinserted(again)) = Addresses(timers) \cup Addresses(Reinserted(again))
    BY DEF Addresses
  <2> QED
    BY <1>1, <1>9, <2>1
<1>11. SetsAgree'
  <2>1. activeTimers' = {<<a, heap'[a].seq>> : a \in Addresses(timers')}
    <3>1. activeTimers = {<<a, heap[a].seq>> : a \in Addresses(timers)}
      BY DEF TimerIInv, SetsAgree, Id
    <3>2. {<<a, heap[a].seq>> : a \in Addresses(timers)} = {<<a, heap'[a].seq>> : a \in Addresses(timers)}
      BY <1>6, <1>8
    <3>3. {Id(a) : a \in again} = {<<a, heap'[a].seq>> : a \in again}
      BY <1>6 DEF Id
    <3> QED
      BY <1>1, <1>10, <3>1, <3>2, <3>3
  <2>2. \A e \in timers : heap'[e[2]] # Free /\ e[1] = heap'[e[2]].exp
    BY <1>6, <1>8 DEF TimerIInv, SetsAgree
  <2>3. \A e \in Reinserted(again) : heap'[e[2]] # Free /\ e[1] = heap'[e[2]].exp
    BY <1>7, <1>9
  <2>4. \A d, e \in timers' : d[2] = e[2] => d = e
    <3>1. \A d \in timers, e \in Reinserted(again) : d[2] # e[2]
      BY <1>2, <1>8, <1>9
    <3>2. \A d, e \in timers : d[2] = e[2] => d = e
      BY DEF TimerIInv, SetsAgree
    <3> QED
      BY <3>1, <3>2, <1>1, <1>9
  <2>5. \A e \in timers' : heap'[e[2]] # Free /\ e[1] = heap'[e[2]].exp
    BY <1>1, <2>2, <2>3
  <2> QED
    BY <2>1, <2>4, <2>5 DEF SetsAgree, Id
<1>12. OwnersShare'
  <2>1. {a \in Addrs : heap'[a] # Free} = {a \in Addrs : heap[a] # Free} \ (batch \ again)
    BY <1>2, <1>3, <1>6, <1>7
  <2>2. Addresses(expired') = {} /\ ops' = ops
    BY <1>1 DEF Addresses
  <2> QED
    BY <2>1, <2>2, <1>2, <1>3, <1>8, <1>10 DEF TimerIInv, OwnersShare, batch
<1>13. SeqOfTimer'
  <2> SUFFICES ASSUME NEW a \in Addrs
               PROVE  (heap'[a] = Free <=> heap'[a].seq = 0) /\ heap'[a].seq <= created
    BY <1>1 DEF SeqOfTimer
  <2>1. (heap[a] = Free <=> heap[a].seq = 0) /\ heap[a].seq <= created
    BY DEF TimerIInv, SeqOfTimer
  <2>2. created \in 0..MaxTimers
    BY <1>T DEF TypeOK
  <2>3. CASE a \in again
    BY <2>1, <2>3, <1>2, <1>5, <1>6, <1>7
  <2>4. CASE a \in batch \ again
    <3>1. heap'[a] = Free /\ heap'[a].seq = 0
      BY <2>4, <1>6, <1>F
    <3> QED
      BY <3>1, <2>2
  <2>5. CASE a \notin batch
    BY <2>1, <2>5, <1>6
  <2> QED
    BY <1>2, <2>3, <2>4, <2>5
<1>14. DoomedIsDead'
  <2> SUFFICES ASSUME NEW x \in doomed
               PROVE  x[2] \in 1..created /\ heap'[x[1]].seq # x[2]
    BY <1>1 DEF DoomedIsDead
  <2>1. /\ x \in Addrs \X (0..MaxTimers) /\ x[2] \in 1..created
        /\ heap[x[1]].seq # x[2] \/ (x[1] \in batch /\ x \in cancelingTimers)
    BY <1>T DEF TimerIInv, DoomedIsDead, TimerIds, TypeOK, batch
  <2>2. x[1] \in Addrs /\ x = <<x[1], x[2]>>
    BY <2>1
  <2>3. CASE x[1] \in again
    <3>1. heap[x[1]].seq # x[2]
      BY <2>1, <2>2, <2>3, <1>A DEF Id
    <3> QED
      BY <3>1, <2>1, <2>3, <1>6
  <2>4. CASE x[1] \in batch \ again
    <3>1. heap'[x[1]].seq = 0
      BY <2>4, <1>6, <1>F
    <3>2. x[2] # 0
      BY <2>1, <1>T DEF TypeOK
    <3> QED
      BY <3>1, <3>2, <2>1
  <2>5. CASE x[1] \notin batch
    BY <2>1, <2>2, <2>5, <1>6
  <2> QED
    BY <2>3, <2>4, <2>5
<1>15. AbortsOnTieOnly' /\ BatchIsCalled'
  BY <1>1 DEF AbortsOnTieOnly, BatchIsCalled
<1>16. timers' \in SUBSET (Nat \X Addrs) /\ activeTimers' \subseteq TimerIds
  <2>1. timers' \in SUBSET (Nat \X Addrs)
    BY <1>1, <1>9, <1>T
  <2>2. \A a \in again : Id(a) \in TimerIds
    BY <1>2, <1>T, TypeFacts DEF Id, TimerIds
  <2>3. activeTimers \subseteq TimerIds
    BY <1>T DEF TypeOK
  <2> QED
    BY <1>1, <2>1, <2>2, <2>3
<1>17. armed' \in Nat
  <2>1. CASE timers' # {} /\ MinExp(timers') > 0
    <3>1. MinExp(timers') \in Nat
      BY <2>1, <1>16, MinExpIsLeast
    <3>2. armed' = ResetTimerfd(MinExp(timers'))
      BY <1>1, <2>1 DEF NextExpire
    <3> QED
      BY <3>1, <3>2, <1>T DEF ResetTimerfd
  <2>2. CASE ~(timers' # {} /\ MinExp(timers') > 0)
    BY <1>1, <2>2, <1>T DEF NextExpire, TypeOK
  <2> QED
    BY <2>1, <2>2
<1>18. TypeOK'
  BY <1>1, <1>6, <1>16, <1>17, <1>T DEF TypeOK, TimerRecords
<1> QED
  BY <1>11, <1>12, <1>13, <1>14, <1>15, <1>18 DEF TimerIInv

\* ~TimerQueue deletes the timers of timers_ and no others.
LEMMA DestroyIInv == ASSUME TimerIInv, Destroy PROVE TimerIInv'
<1> DEFINE listed == Addresses(timers)
<1>T. /\ TypeOK /\ heap \in [Addrs -> TimerRecords] /\ doomed \subseteq TimerIds
      /\ created \in 0..MaxTimers
  BY TypeFacts DEF TimerIInv, TypeOK
<1>F. Free \in TimerRecords /\ Free.seq = 0
  BY TimerConstants DEF Free, TimerRecords
<1>1. /\ phase = "idle" /\ phase' = "gone"
      /\ heap' = [a \in Addrs |-> IF a \in listed THEN Free ELSE heap[a]]
      /\ timers' = {} /\ activeTimers' = {} /\ cancelingTimers' = {} /\ armed' = 0
      /\ UNCHANGED <<created, expired, toRun, now, clock, ops, returning, ids, doomed>>
  BY DEF Destroy, userVars
<1>2. expired = {} /\ Addresses(expired) = {} /\ Addresses(timers') = {}
  BY <1>1 DEF TimerIInv, BatchIsCalled, Addresses
<1> HIDE DEF listed
<1>3. /\ heap' \in [Addrs -> TimerRecords]
      /\ \A a \in Addrs : heap'[a] = IF a \in listed THEN Free ELSE heap[a]
  BY <1>1, <1>T, <1>F
<1>4. SetsAgree' /\ AbortsOnTieOnly' /\ BatchIsCalled'
  BY <1>1, <1>2 DEF SetsAgree, AbortsOnTieOnly, BatchIsCalled
<1>5. OwnersShare'
  <2>1. {a \in Addrs : heap'[a] # Free} = {a \in Addrs : heap[a] # Free} \ listed
    BY <1>3
  <2> QED
    BY <1>1, <1>2, <2>1 DEF TimerIInv, OwnersShare, listed
<1>6. SeqOfTimer'
  <2> SUFFICES ASSUME NEW a \in Addrs
               PROVE  (heap'[a] = Free <=> heap'[a].seq = 0) /\ heap'[a].seq <= created
    BY <1>1 DEF SeqOfTimer
  <2>1. (heap[a] = Free <=> heap[a].seq = 0) /\ heap[a].seq <= created
    BY DEF TimerIInv, SeqOfTimer
  <2>2. CASE a \in listed
    <3>1. heap'[a] = Free /\ heap'[a].seq = 0
      BY <2>2, <1>3, <1>F
    <3> QED
      BY <3>1, <1>T
  <2>3. CASE a \notin listed
    BY <2>1, <2>3, <1>3
  <2> QED
    BY <2>2, <2>3
<1>7. DoomedIsDead'
  <2> SUFFICES ASSUME NEW x \in doomed
               PROVE  x[2] \in 1..created /\ heap'[x[1]].seq # x[2]
    BY <1>1 DEF DoomedIsDead
  <2>1. x[1] \in Addrs /\ x[2] \in 1..created /\ heap[x[1]].seq # x[2]
    BY <1>T, <1>2 DEF TimerIInv, DoomedIsDead, TimerIds
  <2>2. CASE x[1] \in listed
    <3>1. heap'[x[1]].seq = 0 /\ x[2] # 0
      BY <2>1, <2>2, <1>3, <1>F, <1>T
    <3> QED
      BY <3>1, <2>1
  <2>3. CASE x[1] \notin listed
    BY <2>1, <2>3, <1>3
  <2> QED
    BY <2>2, <2>3
<1>8. TypeOK'
  BY <1>1, <1>3, <1>T DEF TypeOK, TimerRecords
<1> QED
  BY <1>4, <1>5, <1>6, <1>7, <1>8 DEF TimerIInv

\* Every step preserves the inductive invariant.
LEMMA NextIInv == TimerIInv /\ [Next]_vars => TimerIInv'
<1> SUFFICES ASSUME TimerIInv, [Next]_vars PROVE TimerIInv'
  OBVIOUS
<1>T. TypeOK
  BY DEF TimerIInv
<1>S. ASSUME UNCHANGED <<heap, created, timers, activeTimers, cancelingTimers, expired, ops, doomed>>,
             TypeOK', AbortsOnTieOnly', BatchIsCalled'
      PROVE  TimerIInv'
  BY <1>S DEF TimerIInv, SetsAgree, OwnersShare, SeqOfTimer, DoomedIsDead, Id
<1> USE DEF queueVars, batchVars, userVars
<1>1. CASE Tick
  <2>1. clock + 1 \in 1..MaxClock
    BY <1>1, <1>T, TimerConstants DEF Tick, TypeOK
  <2>2. TypeOK' /\ AbortsOnTieOnly' /\ BatchIsCalled'
    BY <1>1, <2>1, <1>T DEF Tick, TypeOK, TimerIInv, AbortsOnTieOnly, BatchIsCalled
  <2> QED
    BY <1>1, <1>S, <2>2 DEF Tick
<1>2. CASE PollTimerfd
  <2>1. TypeOK' /\ AbortsOnTieOnly' /\ BatchIsCalled'
    BY <1>2, <1>T DEF PollTimerfd, TypeOK, TimerIInv, AbortsOnTieOnly, BatchIsCalled
  <2> QED
    BY <1>2, <1>S, <2>1 DEF PollTimerfd
<1>3. CASE RunTimer
  <2>1. TypeOK' /\ AbortsOnTieOnly' /\ BatchIsCalled'
    BY <1>3, <1>T DEF RunTimer, TypeOK, TimerIInv, AbortsOnTieOnly, BatchIsCalled
  <2> QED
    BY <1>3, <1>S, <2>1 DEF RunTimer
<1>4. ASSUME NEW r \in returning, RemoteAddReturns(r) PROVE TimerIInv'
  <2>1. PICK n \in 0..MaxTimers : ids' = ids \cup {<<r[1], n>>}
    <3>1. r[1] \in Addrs
      BY <1>T DEF TypeOK, TimerIds
    <3>2. heap[r[1]].seq \in 0..MaxTimers
      BY <3>1, <1>T, TypeFacts
    <3> QED
      BY <1>4, <3>2 DEF RemoteAddReturns
  <2>2. ids' \subseteq TimerIds /\ returning' \subseteq TimerIds
    BY <1>4, <2>1, <1>T DEF TypeOK, TimerIds, RemoteAddReturns
  <2>3. TypeOK' /\ AbortsOnTieOnly' /\ BatchIsCalled'
    BY <1>4, <2>2, <1>T DEF RemoteAddReturns, TypeOK, TimerIInv, AbortsOnTieOnly, BatchIsCalled
  <2> QED
    BY <1>4, <1>S, <2>3 DEF RemoteAddReturns
<1>5. ASSUME NEW id \in ids, RemoteCancel(id) PROVE TimerIInv'
  <2> DEFINE o == [op |-> "cancel", addr |-> id[1], seq |-> id[2]]
  <2>1. o \in OpRecords /\ o.op # "add"
    BY <1>T DEF TypeOK, TimerIds, OpRecords
  <2>2. ops \in Seq(OpRecords) /\ AddsOnce(ops) /\ ops' = Append(ops, o)
    BY <1>5, <1>T, TypeFacts DEF RemoteCancel, TimerIInv, OwnersShare
  <2> HIDE DEF o
  <2>3. ops' \in Seq(OpRecords) /\ AddAddrs(ops') = AddAddrs(ops) /\ AddsOnce(ops')
    BY <2>1, <2>2, AddsAppend
  <2>4. OwnersShare'
    BY <1>5, <2>3 DEF RemoteCancel, TimerIInv, OwnersShare
  <2>5. SetsAgree' /\ AbortsOnTieOnly' /\ SeqOfTimer' /\ BatchIsCalled' /\ DoomedIsDead'
    BY <1>5 DEF RemoteCancel, TimerIInv, SetsAgree, AbortsOnTieOnly, SeqOfTimer, BatchIsCalled,
      DoomedIsDead, Id
  <2>6. TypeOK'
    BY <1>5, <2>3, <1>T DEF RemoteCancel, TypeOK, OpRecords
  <2> QED
    BY <2>4, <2>5, <2>6 DEF TimerIInv
<1>6. CASE UNCHANGED vars
  BY <1>6, <1>S, <1>T DEF vars, TypeOK, TimerIInv, AbortsOnTieOnly, BatchIsCalled
<1> QED
  BY <1>1, <1>2, <1>3, <1>4, <1>5, <1>6, RunOpIInv, HandleReadIInv, ResetIInv, DestroyIInv,
     AddTimerIInv, RemoteAddTimerIInv, CancelIInv
  DEF Next

\* The inductive invariant holds of every reachable state.
THEOREM TimerIInvHolds == Spec => []TimerIInv
  BY InitIInv, NextIInv, PTL DEF Spec

\* The size and uniqueness asserts of timerqueue.cpp hold, every timer on the heap
\* has one owner, and a cancelled timer is never scheduled again, whatever the
\* order of adds, cancels, expirations and restarts and however addresses are
\* reused.
THEOREM TimerCorrect == Spec => []TimerInv
  BY TimerIInvHolds, IInvImpliesInv, PTL

-----------------------------------------------------------------------------
\* Entry by entry: what is due has a timerfd that goes off in time.
Covered(E, c, at) == E # {} => at # 0 /\ ((\A e \in E : at <= e[1]) \/ at <= c + 1)

\* The same for entries of time 0 alone.
ZeroCovered(E, c, at) == (\E e \in E : e[1] = 0) => at # 0 /\ at <= c + 1

\* During the callbacks only an entry of time 0 matters: the end of reset arms the
\* timerfd for every other one, and leaves it alone when the earliest is 0.
ArmedIInv ==
  /\ phase \in {"idle", "reported"} => Covered(timers, clock, armed)
  /\ phase = "calling" => ZeroCovered(timers, clock, armed)

\* When the timerfd goes off after an insertion.
ArmedAfter(E, c, at, w) ==
  IF E = {} \/ w < MinExp(E) THEN (IF w < c + 1 THEN c + 1 ELSE w) ELSE at

\* Covered says the same as ArmedInTime, without MinExp.
LEMMA CoveredByMin ==
  ASSUME NEW E \in SUBSET (Nat \X Addrs), NEW c \in Nat, NEW at \in Nat
  PROVE  Covered(E, c, at) <=> (E # {} => at # 0 /\ (at <= MinExp(E) \/ at <= c + 1))
<1>1. CASE E = {}
  BY <1>1 DEF Covered
<1>2. CASE E # {}
  <2>1. /\ MinExp(E) \in Nat /\ \E e \in E : MinExp(E) = e[1]
        /\ \A e \in E : MinExp(E) <= e[1] /\ e[1] \in Nat
    BY <1>2, MinExpIsLeast
  <2>2. at <= MinExp(E) <=> \A e \in E : at <= e[1]
    <3>1. ASSUME at <= MinExp(E), NEW e \in E PROVE at <= e[1]
      BY <3>1, <2>1
    <3> QED
      BY <3>1, <2>1
  <2> QED
    BY <1>2, <2>2 DEF Covered
<1> QED
  BY <1>1, <1>2

\* An insertion by addTimerInLoop keeps the timerfd in time.
LEMMA InsertArmed ==
  ASSUME NEW E \in SUBSET (Nat \X Addrs), NEW c \in Nat, NEW at \in Nat,
         NEW w \in Nat, NEW a \in Addrs, NEW new \in Nat,
         new = ArmedAfter(E, c, at, w), NEW F, F = E \cup {<<w, a>>}
  PROVE  /\ Covered(E, c, at) => Covered(F, c, new)
         /\ ZeroCovered(E, c, at) => ZeroCovered(F, c, new)
<1> USE DEF ArmedAfter, ZeroCovered
<1>1. \A e \in E : e[1] \in Nat
  OBVIOUS
<1>2. (\A e \in F : e \in E \/ e[1] = w) /\ F # {}
  <2>1. <<w, a>>[1] = w
    OBVIOUS
  <2> QED
    BY <2>1
<1>3. CASE E = {} \/ w < MinExp(E)
  <2>1. \A e \in E : w < e[1]
    <3>1. CASE E = {}
      BY <3>1
    <3>2. CASE E # {} /\ w < MinExp(E)
      BY <3>2, <1>1, MinExpIsLeast
    <3> QED
      BY <1>3, <3>1, <3>2
  <2>2. \A e \in F : w <= e[1] /\ e[1] \in Nat
    BY <2>1, <1>1, <1>2
  <2>3. new # 0 /\ (new = w \/ new <= c + 1) /\ (w = 0 => new <= c + 1)
    BY <1>3
  <2>4. Covered(F, c, new)
    BY <2>2, <2>3 DEF Covered
  <2>5. (\E e \in F : e[1] = 0) => new <= c + 1
    BY <2>2, <2>3
  <2> QED
    BY <2>3, <2>4, <2>5
<1>4. CASE ~(E = {} \/ w < MinExp(E))
  <2>1. new = at /\ E # {}
    BY <1>4
  <2>2. PICK m \in E : m[1] = MinExp(E)
    BY <2>1, MinExpIsLeast
  <2>3. m[1] \in Nat /\ m[1] <= w
    BY <1>1, <1>4, <2>2
  <2>4. Covered(E, c, at) => Covered(F, c, new)
    <3> SUFFICES ASSUME Covered(E, c, at), ~(at <= c + 1) PROVE \A e \in F : at <= e[1]
      BY <2>1 DEF Covered
    <3>1. \A e \in E : at <= e[1]
      BY <2>1 DEF Covered
    <3>2. at <= w
      BY <3>1, <2>2, <2>3
    <3> QED
      BY <3>1, <3>2, <1>2
  <2>5. (\E e \in F : e[1] = 0) => \E e \in E : e[1] = 0
    <3>1. w = 0 => m[1] = 0
      BY <2>3
    <3> QED
      BY <3>1, <2>2, <1>2
  <2> QED
    BY <2>1, <2>4, <2>5
<1> QED
  BY <1>3, <1>4

\* Every step keeps the timerfd in time.
LEMMA NextArmed == TypeOK /\ TypeOK' /\ ArmedIInv /\ [Next]_vars => ArmedIInv'
<1> SUFFICES ASSUME TypeOK, TypeOK', ArmedIInv, [Next]_vars PROVE ArmedIInv'
  OBVIOUS
<1>T. /\ timers \in SUBSET (Nat \X Addrs) /\ timers' \in SUBSET (Nat \X Addrs)
      /\ clock \in Nat \ {0} /\ armed \in Nat /\ armed' \in Nat
      /\ now \in Nat \ {0}
      /\ phase \in {"idle", "reported", "calling", "aborted", "gone"}
  BY TimerConstants DEF TypeOK
<1>S. ASSUME UNCHANGED <<phase, clock, armed>>, timers' \subseteq timers PROVE ArmedIInv'
  BY <1>S DEF ArmedIInv, Covered, ZeroCovered
<1>I. ASSUME NEW a \in Addrs, NEW t, t.exp \in Nat, AddTimerInLoop(a, t), UNCHANGED <<phase, clock>>
      PROVE  ArmedIInv'
  <2> DEFINE w == t.exp
  <2>1. timers' = timers \cup {<<w, a>>} /\ armed' = ArmedAfter(timers, clock, armed, w)
    BY <1>I DEF AddTimerInLoop, EarliestChanged, ResetTimerfd, ArmedAfter
  <2>2. w \in Nat
    BY <1>I
  <2> HIDE DEF w
  <2>3. /\ Covered(timers, clock, armed) => Covered(timers', clock, armed')
        /\ ZeroCovered(timers, clock, armed) => ZeroCovered(timers', clock, armed')
    BY <1>T, <2>1, <2>2, InsertArmed
  <2> QED
    BY <1>I, <2>3 DEF ArmedIInv
<1>C. ASSUME NEW id, CancelInLoop(id), UNCHANGED <<phase, clock, armed>> PROVE ArmedIInv'
  <2>1. timers' \subseteq timers
    BY <1>C DEF CancelInLoop
  <2> QED
    BY <1>C, <2>1, <1>S
<1> USE DEF queueVars, batchVars, userVars
<1>1. CASE Tick
  <2>1. clock' = clock + 1 /\ UNCHANGED <<phase, timers, armed>>
    BY <1>1 DEF Tick
  <2>2. armed <= clock + 1 => armed <= clock' + 1
    BY <1>T, <2>1
  <2> QED
    BY <2>1, <2>2 DEF ArmedIInv, Covered, ZeroCovered
<1>2. CASE PollTimerfd
  BY <1>2 DEF PollTimerfd, ArmedIInv
<1>3. CASE RunOp
  <2> DEFINE o == Head(ops)
  <2>1. UNCHANGED <<phase, clock>> /\ ops # <<>>
    BY <1>3 DEF RunOp
  <2>2. o \in OpRecords
    BY <2>1, TypeFacts, HeadTailProperties
  <2>3. o.addr \in Addrs
    BY <2>2 DEF OpRecords
  <2>4. heap[o.addr].exp \in Nat
    BY <2>3, TypeFacts
  <2>5. CASE AddTimerInLoop(o.addr, heap[o.addr])
    BY <2>1, <2>3, <2>4, <2>5, <1>I
  <2>6. CASE CancelInLoop(<<o.addr, o.seq>>) /\ armed' = armed
    BY <2>1, <2>6, <1>C
  <2> QED
    BY <1>3, <2>5, <2>6 DEF RunOp
<1>4. CASE HandleRead
  <2>1. CASE phase' = "aborted"
    BY <2>1 DEF ArmedIInv
  <2>2. CASE phase' = "calling" /\ \A e \in timers' : e[1] > clock
    BY <2>2, <1>T DEF ArmedIInv, ZeroCovered
  <2> QED
    BY <1>4, <2>1, <2>2 DEF HandleRead
<1>5. CASE RunTimer
  BY <1>5, <1>S DEF RunTimer
<1>6. CASE Reset
  <2> DEFINE again == {a \in Addresses(expired) : Restarts(a)}
             E == timers \cup Reinserted(again)
  <2>1. phase = "calling" /\ phase' = "idle" /\ timers' = E /\ armed' = NextExpire(E) /\ clock' = clock
    BY <1>6 DEF Reset
  <2>2. \A e \in Reinserted(again) : e[1] # 0
    <3> SUFFICES ASSUME NEW a \in again PROVE Restart(heap[a]).exp # 0
      BY DEF Reinserted
    <3>1. a \in Addrs
      BY DEF Addresses, TypeOK
    <3>2. heap[a] \in TimerRecords
      BY <3>1, TypeFacts
    <3>3. \A t \in TimerRecords : Restart(t).exp # 0
      BY <1>T DEF Restart, TimerRecords
    <3> QED
      BY <3>2, <3>3
  <2> HIDE DEF E, again
  <2>3. CASE E = {}
    BY <2>1, <2>3 DEF ArmedIInv, Covered, ZeroCovered
  <2>4. CASE E # {} /\ MinExp(E) > 0
    <3>1. MinExp(E) \in Nat /\ \A e \in E : MinExp(E) <= e[1]
      BY <2>1, <2>4, <1>T, MinExpIsLeast
    <3>2. armed' = IF MinExp(E) < clock + 1 THEN clock + 1 ELSE MinExp(E)
      BY <2>1, <2>4 DEF NextExpire, ResetTimerfd
    <3>3. armed' # 0 /\ (armed' = MinExp(E) \/ armed' <= clock + 1)
      BY <3>1, <3>2, <2>4, <1>T
    <3> QED
      BY <2>1, <3>1, <3>3 DEF ArmedIInv, Covered, ZeroCovered
  <2>5. CASE E # {} /\ ~(MinExp(E) > 0)
    <3>1. PICK e \in E : e[1] = MinExp(E) /\ MinExp(E) \in Nat
      BY <2>1, <2>5, <1>T, MinExpIsLeast
    <3>2. e[1] = 0
      BY <3>1, <2>5
    <3>3. e \in timers
      BY <3>1, <3>2, <2>2 DEF E
    <3>4. armed # 0 /\ armed <= clock + 1
      BY <3>2, <3>3, <2>1 DEF ArmedIInv, ZeroCovered
    <3>5. armed' = armed
      BY <2>1, <2>5 DEF NextExpire
    <3> QED
      BY <2>1, <3>4, <3>5 DEF ArmedIInv, Covered, ZeroCovered
  <2> QED
    BY <2>3, <2>4, <2>5
<1>7. CASE Destroy
  BY <1>7 DEF Destroy, ArmedIInv
<1>8. ASSUME NEW a \in Addrs, NEW w \in Whens, NEW k \in Kinds, AddTimer(a, w, k) PROVE ArmedIInv'
  <2>1. NewTimer(w, k).exp \in Nat
    BY TimerConstants DEF NewTimer
  <2>2. AddTimerInLoop(a, NewTimer(w, k)) /\ UNCHANGED <<phase, clock>>
    BY <1>8 DEF AddTimer
  <2> QED
    BY <2>1, <2>2, <1>I
<1>9. ASSUME NEW a \in Addrs, NEW w \in Whens, NEW k \in Kinds, RemoteAddTimer(a, w, k)
      PROVE  ArmedIInv'
  BY <1>9, <1>S DEF RemoteAddTimer
<1>10. ASSUME NEW r \in returning, RemoteAddReturns(r) PROVE ArmedIInv'
  BY <1>10, <1>S DEF RemoteAddReturns
<1>11. ASSUME NEW id \in ids, Cancel(id) PROVE ArmedIInv'
  BY <1>11, <1>C DEF Cancel
<1>12. ASSUME NEW id \in ids, RemoteCancel(id) PROVE ArmedIInv'
  BY <1>12, <1>S DEF RemoteCancel
<1>13. CASE UNCHANGED vars
  BY <1>13, <1>S DEF vars
<1> QED
  BY <1>1, <1>2, <1>3, <1>4, <1>5, <1>6, <1>7, <1>8, <1>9, <1>10, <1>11, <1>12, <1>13 DEF Next

\* The timerfd is armed no later than the earliest timer needs, through every
\* insertion, cancellation, expiration and reset.
THEOREM AlwaysArmedInTime == Spec => []ArmedInTime
<1>1. Init => ArmedIInv
  BY DEF Init, ArmedIInv, Covered
<1>2. TimerIInv => TypeOK
  BY DEF TimerIInv
<1>3. TypeOK /\ ArmedIInv => ArmedInTime
  <2> SUFFICES ASSUME TypeOK, ArmedIInv PROVE ArmedInTime
    OBVIOUS
  <2>1. timers \in SUBSET (Nat \X Addrs) /\ clock \in Nat /\ armed \in Nat
    BY TimerConstants DEF TypeOK
  <2>2. Covered(timers, clock, armed) <=>
          (timers # {} => armed # 0 /\ (armed <= MinExp(timers) \/ armed <= clock + 1))
    BY <2>1, CoveredByMin
  <2> QED
    BY <2>2 DEF ArmedIInv, ArmedInTime
<1> QED
  BY <1>1, <1>2, <1>3, NextArmed, TimerIInvHolds, PTL DEF Spec

-----------------------------------------------------------------------------
\* cancelInLoop takes no other id out of activeTimers_ than its own.
LEMMA CancelRemovesItsId ==
  ASSUME NEW id, CancelInLoop(id), NEW x \in activeTimers \ activeTimers'
  PROVE  x \in doomed'
  BY DEF CancelInLoop

\* A timer leaves activeTimers_ only when its own id is cancelled, when it is due,
\* or with the queue, though another timer may have had its address before.
THEOREM CancelHitsOnlyItsTimer == Spec => CancelHitsItsTimer
<1>1. [Next]_vars => [\A id \in activeTimers \ activeTimers' :
                       id \in doomed' \/ (\E e \in expired' : e[2] = id[1]) \/ phase' = "gone"]_vars
  <2> SUFFICES ASSUME Next, NEW x \in activeTimers \ activeTimers'
               PROVE  x \in doomed' \/ (\E e \in expired' : e[2] = x[1]) \/ phase' = "gone"
    OBVIOUS
  <2> USE DEF queueVars
  <2>1. CASE Tick \/ PollTimerfd \/ RunTimer \/ Reset
    BY <2>1 DEF Tick, PollTimerfd, RunTimer, Reset
  <2>2. CASE RunOp
    BY <2>2, CancelRemovesItsId DEF RunOp, AddTimerInLoop
  <2>3. CASE HandleRead
    <3>1. PICK a \in Addresses(expired') : x = Id(a)
      BY <2>3 DEF HandleRead
    <3> QED
      BY <3>1 DEF Addresses, Id
  <2>4. CASE Destroy
    BY <2>4 DEF Destroy
  <2>5. ASSUME NEW a \in Addrs, NEW w \in Whens, NEW k \in Kinds,
               AddTimer(a, w, k) \/ RemoteAddTimer(a, w, k)
        PROVE  FALSE
    BY <2>5 DEF AddTimer, RemoteAddTimer, AddTimerInLoop
  <2>6. ASSUME NEW r \in returning, RemoteAddReturns(r) PROVE FALSE
    BY <2>6 DEF RemoteAddReturns
  <2>7. ASSUME NEW id \in ids, Cancel(id) PROVE x \in doomed'
    BY <2>7, CancelRemovesItsId DEF Cancel
  <2>8. ASSUME NEW id \in ids, RemoteCancel(id) PROVE FALSE
    BY <2>8 DEF RemoteCancel
  <2> QED
    BY <2>1, <2>2, <2>3, <2>4, <2>5, <2>6, <2>7, <2>8 DEF Next
<1> QED
  BY <1>1, PTL DEF Spec, CancelHitsItsTimer
=============================================================================
