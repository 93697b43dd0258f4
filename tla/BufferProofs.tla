---------------------------- MODULE BufferProofs ----------------------------
(***************************************************************************)
(* Proofs about the buffer, for every size of the array, every argument    *)
(* and every width of number.                                              *)
(*                                                                         *)
(* The layout is inductive by itself, and implies the rest of BufferInv.   *)
(* For each method a lemma says that the method keeps the layout and what  *)
(* it does to the readable bytes; the theorems follow from these.          *)
(*                                                                         *)
(* Values and the number a string of bytes stands for are recursive        *)
(* functions.  What they compute is shown by induction over a set of       *)
(* naturals: the library's theorem that a well-founded relation has        *)
(* minimal elements yields it, and the existence of the functions.         *)
(***************************************************************************)
EXTENDS Buffer, SequenceTheorems, WellFoundedInduction, TLAPS
-----------------------------------------------------------------------------
(* Numbers *)

\* Induction over the naturals for a set: a number outside it would have a
\* smallest one below it.
LEMMA SetInduction ==
  ASSUME NEW S, 0 \in S, \A n \in Nat : n \in S => n + 1 \in S
  PROVE  \A n \in Nat : n \in S
<1> DEFINE R == OpToRel(<, Nat)
           T == {n \in Nat : n \notin S}
<1>1. IsWellFoundedOn(R, Nat)
  BY NatLessThanWellFounded
<1>2. \A x, y \in Nat : x < y => <<x, y>> \in R
  BY DEF OpToRel
<1> HIDE DEF R
<1>3. ASSUME T # {} PROVE FALSE
  <2>1. PICK x \in T : \A y \in T : ~(<<y, x>> \in R)
    BY <1>1, <1>3, WFMin
  <2>2. x \in Nat /\ x # 0 /\ x - 1 \in Nat /\ x - 1 < x
    BY <2>1
  <2>3. x - 1 \in S
    BY <1>2, <2>1, <2>2
  <2>4. (x - 1) + 1 \in S
    BY <2>2, <2>3
  <2> QED
    BY <2>1, <2>2, <2>4
<1> QED
  BY <1>3

\* The smallest element of a set of numbers.
LEMMA SmallestExists ==
  ASSUME NEW T \in SUBSET Nat, T # {}
  PROVE  \E x \in T : \A y \in T : x <= y
<1> DEFINE R == OpToRel(<, Nat)
<1>1. IsWellFoundedOn(R, Nat)
  BY NatLessThanWellFounded
<1>2. \A x, y \in Nat : x < y => <<x, y>> \in R
  BY DEF OpToRel
<1> HIDE DEF R
<1>3. PICK x \in T : \A y \in T : ~(<<y, x>> \in R)
  BY <1>1, WFMin
<1>4. \A y \in T : x \in Nat /\ y \in Nat /\ ~(y < x)
  BY <1>2, <1>3
<1> QED
  BY <1>3, <1>4

\* The recurrence g[i] = Base * g[i - 1] + e[i], by which Values and networkToHost
\* are computed, has a solution on all naturals: the finite ones exist, agree,
\* and are put together.
LEMMA Recurrence ==
  ASSUME NEW c \in Int, NEW e \in [Nat -> Int]
  PROVE  \E g \in [Nat -> Int] :
           g[0] = c /\ \A i \in Nat \ {0} : g[i] = Base * g[i - 1] + e[i]
<1> DEFINE Upto(n) == {g \in [0..n -> Int] :
                         g[0] = c /\ \A i \in 1..n : g[i] = Base * g[i - 1] + e[i]}
           S == {n \in Nat : Upto(n) # {}}
<1>1. 0 \in S
  <2>1. [i \in 0..0 |-> c] \in Upto(0)
    OBVIOUS
  <2> QED
    BY <2>1
<1>2. ASSUME NEW n \in Nat, n \in S PROVE n + 1 \in S
  <2>1. PICK g \in Upto(n) : TRUE
    BY <1>2
  <2> DEFINE h == [i \in 0..(n + 1) |-> IF i = n + 1 THEN Base * g[n] + e[n + 1] ELSE g[i]]
  <2>2. g \in [0..n -> Int] /\ g[0] = c /\ \A i \in 1..n : g[i] = Base * g[i - 1] + e[i]
    BY <2>1
  <2>3. h \in [0..(n + 1) -> Int] /\ h[0] = c
    <3>1. g[n] \in Int /\ e[n + 1] \in Int /\ Base \in Int
      BY <2>2, BufferConstants
    <3>2. Base * g[n] + e[n + 1] \in Int
      BY <3>1
    <3> QED
      BY <2>2, <3>2
  <2>4. ASSUME NEW i \in 1..(n + 1) PROVE h[i] = Base * h[i - 1] + e[i]
    <3>1. CASE i = n + 1
      <4>1. h[i] = Base * g[n] + e[n + 1] /\ h[n] = g[n] /\ i - 1 = n
        BY <3>1
      <4> QED
        BY <3>1, <4>1
    <3>2. CASE i # n + 1
      <4>1. h[i] = g[i] /\ h[i - 1] = g[i - 1] /\ i \in 1..n
        BY <3>2
      <4> QED
        BY <2>2, <4>1
    <3> QED
      BY <3>1, <3>2
  <2>5. h \in Upto(n + 1)
    <3> HIDE DEF h
    <3> QED
      BY <2>3, <2>4
  <2> HIDE DEF h, Upto
  <2> QED
    BY <2>5
<1> HIDE DEF S
<1>3. \A n \in Nat : n \in S
  BY <1>1, <1>2, SetInduction
<1> DEFINE f == [n \in Nat |-> CHOOSE g \in Upto(n) : TRUE]
           A == {i \in Nat : \A m, n \in Nat : i <= m /\ i <= n => f[m][i] = f[n][i]}
<1>4. \A n \in Nat : f[n] \in Upto(n)
  BY <1>3 DEF S
<1> HIDE DEF f
<1>5. 0 \in A
  <2>1. \A n \in Nat : f[n][0] = c
    BY <1>4
  <2> QED
    BY <2>1
<1>6. ASSUME NEW i \in Nat, i \in A PROVE i + 1 \in A
  <2>1. ASSUME NEW n \in Nat, i + 1 <= n PROVE f[n][i + 1] = Base * f[n][i] + e[i + 1]
    <3>1. \A j \in 1..n : f[n][j] = Base * f[n][j - 1] + e[j]
      BY <1>4
    <3>2. i + 1 \in 1..n /\ (i + 1) - 1 = i
      BY <2>1
    <3> QED
      BY <3>1, <3>2
  <2>2. ASSUME NEW m \in Nat, NEW n \in Nat, i + 1 <= m, i + 1 <= n
        PROVE  f[m][i + 1] = f[n][i + 1]
    <3>1. f[m][i] = f[n][i]
      BY <1>6, <2>2
    <3> QED
      BY <2>1, <2>2, <3>1
  <2> QED
    BY <2>2
<1> HIDE DEF A
<1>7. \A n \in Nat : n \in A
  BY <1>5, <1>6, SetInduction
<1> DEFINE g == [n \in Nat |-> f[n][n]]
<1>8. g \in [Nat -> Int]
  BY <1>4
<1>9. g[0] = c
  BY <1>4
<1>10. ASSUME NEW i \in Nat \ {0} PROVE g[i] = Base * g[i - 1] + e[i]
  <2>1. i - 1 \in Nat /\ i - 1 <= i /\ i - 1 <= i - 1 /\ i \in 1..i
    OBVIOUS
  <2>2. f[i][i] = Base * f[i][i - 1] + e[i]
    BY <1>4, <2>1
  <2>3. f[i][i - 1] = f[i - 1][i - 1]
    BY <1>7, <2>1 DEF A
  <2> QED
    BY <2>1, <2>2, <2>3
<1> QED
  BY <1>8, <1>9, <1>10

\* Values is Base to the power n.
LEMMA ValuesDef ==
  /\ Values \in [Nat -> Nat \ {0}]
  /\ Values[0] = 1
  /\ \A n \in Nat : Values[n + 1] = Base * Values[n]
<1> DEFINE e == [i \in Nat |-> 0]
<1>1. e \in [Nat -> Int] /\ \A i \in Nat : e[i] = 0
  OBVIOUS
<1> HIDE DEF e
<1>2. PICK g \in [Nat -> Int] :
        g[0] = 1 /\ \A i \in Nat \ {0} : g[i] = Base * g[i - 1] + e[i]
  <2>1. 1 \in Int
    OBVIOUS
  <2> QED
    BY <1>1, <2>1, Recurrence, Zenon
<1>3. ASSUME NEW i \in Nat \ {0} PROVE g[i] = Base * g[i - 1]
  <2>1. e[i] = 0 /\ g[i - 1] \in Int /\ Base \in Int /\ g[i] = Base * g[i - 1] + e[i]
    BY <1>1, <1>2, BufferConstants
  <2> QED
    BY <2>1
<1>4. g = [n \in Nat |-> IF n = 0 THEN 1 ELSE Base * g[n - 1]]
  BY <1>2, <1>3
<1>5. Values = CHOOSE v : v = [n \in Nat |-> IF n = 0 THEN 1 ELSE Base * v[n - 1]]
  BY DEF Values
<1>6. Values = [n \in Nat |-> IF n = 0 THEN 1 ELSE Base * Values[n - 1]]
  BY <1>4, <1>5
<1>7. Values[0] = 1
  BY <1>6
<1>8. ASSUME NEW n \in Nat PROVE Values[n + 1] = Base * Values[n]
  <2>1. n + 1 \in Nat /\ n + 1 # 0 /\ (n + 1) - 1 = n
    OBVIOUS
  <2> QED
    BY <1>6, <2>1
<1> DEFINE S == {n \in Nat : Values[n] \in Nat \ {0}}
<1>9. 0 \in S
  BY <1>7
<1>10. ASSUME NEW n \in Nat, n \in S PROVE n + 1 \in S
  <2>1. Base * Values[n] \in Nat \ {0}
    BY <1>10, BufferConstants
  <2> QED
    BY <1>8, <2>1
<1>11. \A n \in Nat : n \in S
  <2> HIDE DEF S
  <2> QED
    BY <1>9, <1>10, SetInduction
<1>12. Values \in [Nat -> Nat \ {0}]
  BY <1>6, <1>11
<1> QED
  BY <1>7, <1>8, <1>12

\* Half of the values of one or more bytes are negative.
LEMMA ValuesEven ==
  ASSUME NEW n \in Nat \ {0}
  PROVE  Values[n] = 2 * (Values[n] \div 2)
<1>1. n - 1 \in Nat /\ (n - 1) + 1 = n
  OBVIOUS
<1>2. Values[n] = Base * Values[n - 1] /\ Values[n - 1] \in Nat
  BY <1>1, ValuesDef
<1>3. Base = 2 * (Base \div 2) /\ Base \div 2 \in Nat
  BY BufferConstants
<1> DEFINE h == Base \div 2
           w == Values[n - 1]
<1>4. Values[n] = 2 * (h * w) /\ h * w \in Nat
  <2> HIDE DEF h, w
  <2>1. h \in Nat /\ w \in Nat /\ Base = 2 * h /\ Values[n] = Base * w
    BY <1>2, <1>3 DEF h, w
  <2> QED
    BY <2>1
<1> HIDE DEF h, w
<1> QED
  BY <1>4

\* What is known of a quotient and its rest.
LEMMA DivFacts ==
  ASSUME NEW a \in Nat, NEW p \in Nat \ {0}
  PROVE  /\ a \div p \in Nat /\ a % p \in Nat /\ a = p * (a \div p) + (a % p)
         /\ a < p => a \div p = 0
         /\ a \div 1 = a
<1>1. a \div p \in Nat /\ a % p \in Nat
  OBVIOUS
<1>2. a = p * (a \div p) + (a % p)
  OBVIOUS
<1>3. a < p => a \div p = 0
  OBVIOUS
<1>4. a \div 1 = a
  OBVIOUS
<1> QED
  BY <1>1, <1>2, <1>3, <1>4

\* A division in two steps.
LEMMA DivTwice ==
  ASSUME NEW u \in Nat, NEW p \in Nat \ {0}
  PROVE  (u \div p) \div Base = u \div (Base * p)
<1>1. \A B \in Nat \ {0} : (u \div p) \div B = u \div (p * B)
  OBVIOUS
<1>2. Base \in Nat \ {0} /\ Base * p = p * Base
  BY BufferConstants
<1> QED
  BY <1>1, <1>2

\* hostToNetwork gives n bytes.
LEMMA EncodedBytes ==
  ASSUME NEW n \in Nat, NEW v \in Ints(n)
  PROVE  hostToNetwork(v, n) \in [1..n -> Bytes]
<1>1. v \in Int
  BY ValuesDef DEF Ints
<1>2. v % Values[n] \in Nat
  BY <1>1, ValuesDef
<1>3. ASSUME NEW i \in 1..n PROVE ((v % Values[n]) \div Values[n - i]) % Base \in Bytes
  <2>1. n - i \in Nat /\ Values[n - i] \in Nat \ {0}
    BY ValuesDef
  <2>2. (v % Values[n]) \div Values[n - i] \in Nat
    BY <1>2, <2>1
  <2>3. \A q \in Nat : q % Base \in 0..(Base - 1)
    BY BufferConstants
  <2> QED
    BY <2>2, <2>3 DEF Bytes
<1> QED
  BY <1>3 DEF hostToNetwork

\* The unsigned number that networkToHost builds up, as a solution of the
\* recurrence on 0..Len(d).
LEMMA ValueDef ==
  ASSUME NEW n \in Nat, NEW d \in [1..n -> Bytes], Len(d) = n
  PROVE  \E value \in [0..n -> Int] :
           /\ value[0] = 0
           /\ \A i \in 1..n : value[i] = Base * value[i - 1] + d[i]
           /\ networkToHost(d) =
                IF 2 * value[n] < Values[n] THEN value[n] ELSE value[n] - Values[n]
<1> DEFINE e == [i \in Nat |-> IF i \in 1..n THEN d[i] ELSE 0]
<1>1. e \in [Nat -> Int] /\ \A i \in 1..n : e[i] = d[i]
  BY BufferConstants DEF Bytes
<1> HIDE DEF e
<1>2. PICK g \in [Nat -> Int] :
        g[0] = 0 /\ \A i \in Nat \ {0} : g[i] = Base * g[i - 1] + e[i]
  <2>1. 0 \in Int
    OBVIOUS
  <2> QED
    BY <1>1, <2>1, Recurrence, Zenon
<1> DEFINE h == [i \in 0..n |-> g[i]]
           Def(f) == [i \in 0..n |-> IF i = 0 THEN 0 ELSE Base * f[i - 1] + d[i]]
           value == CHOOSE f : f = Def(f)
<1>3. h = Def(h)
  <2>1. ASSUME NEW i \in 0..n PROVE h[i] = IF i = 0 THEN 0 ELSE Base * h[i - 1] + d[i]
    <3>1. CASE i = 0
      BY <3>1, <1>2
    <3>2. CASE i # 0
      <4>1. i \in Nat \ {0} /\ i \in 1..n /\ i - 1 \in 0..n
        BY <3>2
      <4>2. g[i] = Base * g[i - 1] + e[i] /\ e[i] = d[i] /\ h[i] = g[i] /\ h[i - 1] = g[i - 1]
        BY <4>1, <1>1, <1>2
      <4> QED
        BY <3>2, <4>2
    <3> QED
      BY <3>1, <3>2
  <2> QED
    BY <2>1
<1>4. value = Def(value)
  <2> HIDE DEF h, Def
  <2> QED
    BY <1>3
<1>5. networkToHost(d) = IF 2 * value[n] < Values[n] THEN value[n] ELSE value[n] - Values[n]
  BY DEF networkToHost
<1> HIDE DEF value
<1>6. value[0] = 0 /\ \A i \in 1..n : value[i] = Base * value[i - 1] + d[i]
  BY <1>4
<1> DEFINE S == {i \in Nat : i <= n => value[i] \in Int}
<1>7. 0 \in S
  BY <1>6
<1>8. ASSUME NEW i \in Nat, i \in S PROVE i + 1 \in S
  <2>1. CASE i + 1 <= n
    <3>1. i + 1 \in 1..n /\ (i + 1) - 1 = i /\ value[i] \in Int
      BY <1>8, <2>1
    <3>2. value[i + 1] = Base * value[i] + d[i + 1]
      BY <1>6, <3>1
    <3>3. Base \in Int /\ d[i + 1] \in Int
      BY <3>1, BufferConstants DEF Bytes
    <3> QED
      BY <3>1, <3>2, <3>3
  <2>2. CASE ~(i + 1 <= n)
    BY <2>2
  <2> QED
    BY <2>1, <2>2
<1>9. \A i \in Nat : i \in S
  <2> HIDE DEF S
  <2> QED
    BY <1>7, <1>8, SetInduction
<1>10. value \in [0..n -> Int]
  <2>1. \A i \in 0..n : value[i] \in Int
    BY <1>9
  <2>2. value = [i \in 0..n |-> value[i]]
    BY <1>4
  <2> QED
    BY <2>1, <2>2
<1> QED
  BY <1>5, <1>6, <1>10

\* Reading a number in network order gives back the number that was stored, for
\* every size: the value of the first i bytes is the number without the others.
LEMMA ReadsBack ==
  ASSUME NEW n \in Nat \ {0}, NEW v \in Ints(n), Len(hostToNetwork(v, n)) = n
  PROVE  networkToHost(hostToNetwork(v, n)) = v
<1> DEFINE d == hostToNetwork(v, n)
           w == Values[n]
           u == v % w
<1>1. d \in [1..n -> Bytes]
  BY EncodedBytes
<1>2. ASSUME NEW i \in 1..n PROVE d[i] = (u \div Values[n - i]) % Base
  BY DEF hostToNetwork
<1>3. w \in Nat \ {0} /\ w = 2 * (w \div 2)
  BY ValuesDef, ValuesEven
<1>4. v \in Int /\ -(w \div 2) <= v /\ v < w \div 2
  BY <1>3 DEF Ints
<1>5. u \in Nat /\ u < w /\ u = IF v < 0 THEN v + w ELSE v
  <2> DEFINE k == w \div 2
  <2>1. k \in Nat \ {0} /\ w = 2 * k /\ -k <= v /\ v < k
    BY <1>3, <1>4
  <2> HIDE DEF w, k
  <2>2. CASE v < 0
    <3>1. v + w \in Nat /\ v + w < w
      BY <2>1, <2>2, <1>4
    <3>2. (v + w) % w = v + w
      BY <3>1, <1>3
    <3>3. (v + w) % w = v % w
      BY <1>3, <1>4
    <3> QED
      BY <2>2, <3>1, <3>2, <3>3
  <2>3. CASE ~(v < 0)
    <3>1. v \in Nat /\ v < w
      BY <2>1, <2>3, <1>4
    <3> QED
      BY <3>1, <1>3, <2>3
  <2> QED
    BY <2>2, <2>3
<1>6. PICK value \in [0..n -> Int] :
        /\ value[0] = 0
        /\ \A i \in 1..n : value[i] = Base * value[i - 1] + d[i]
        /\ networkToHost(d) = IF 2 * value[n] < w THEN value[n] ELSE value[n] - w
  <2> HIDE DEF d
  <2> QED
    BY <1>1, ValueDef DEF d
<1> HIDE DEF d, u, w
<1> DEFINE S == {i \in Nat : i <= n => value[i] = u \div Values[n - i]}
<1>7. 0 \in S
  <2>1. u \div w = 0
    BY <1>3, <1>5, DivFacts
  <2> QED
    BY <1>6, <2>1 DEF w
<1>8. ASSUME NEW i \in Nat, i \in S PROVE i + 1 \in S
  <2>1. CASE i + 1 <= n
    <3> DEFINE j == n - (i + 1)
               q == u \div Values[j]
    <3>1. j \in Nat /\ j + 1 = n - i /\ i + 1 \in 1..n /\ (i + 1) - 1 = i
      BY <2>1
    <3>2. Values[j] \in Nat \ {0} /\ Values[n - i] = Base * Values[j]
      BY <3>1, ValuesDef
    <3>3. value[i] = u \div (Base * Values[j])
      BY <1>8, <2>1, <3>2
    <3>4. value[i] = q \div Base
      BY <1>5, <3>2, <3>3, DivTwice
    <3>5. d[i + 1] = q % Base
      BY <1>2, <3>1
    <3>6. q \in Nat
      BY <1>5, <3>2, DivFacts
    <3>7. value[i + 1] = Base * (q \div Base) + (q % Base)
      BY <1>6, <3>1, <3>4, <3>5
    <3>8. value[i + 1] = q
      <4> HIDE DEF q
      <4> QED
        BY <3>6, <3>7, DivFacts, BufferConstants
    <3> QED
      BY <3>8
  <2>2. CASE ~(i + 1 <= n)
    BY <2>2
  <2> QED
    BY <2>1, <2>2
<1>9. n \in S
  <2> HIDE DEF S
  <2> QED
    BY <1>7, <1>8, SetInduction
<1>10. value[n] = u
  <2>1. value[n] = u \div Values[0]
    BY <1>9
  <2> QED
    BY <2>1, <1>5, ValuesDef, DivFacts
<1>11. networkToHost(d) = v
  <2> DEFINE k == w \div 2
  <2>1. k \in Nat /\ w = 2 * k /\ -k <= v /\ v < k
    BY <1>3, <1>4
  <2> HIDE DEF k
  <2> QED
    BY <1>4, <1>5, <1>6, <1>10, <2>1
<1> QED
  BY <1>11 DEF d

-----------------------------------------------------------------------------
(* The array *)

\* A function on 1..n is a sequence of length n.
LEMMA FunctionIsSeq ==
  ASSUME NEW S, NEW n \in Nat, NEW f \in [1..n -> S]
  PROVE  f \in Seq(S) /\ Len(f) = n
  OBVIOUS

\* The state of a buffer between two calls.
Good(x) == x \in Buffers /\ Layout(x)

\* The numbers the proofs reason about.
LEMMA GoodTypes ==
  ASSUME NEW x, Good(x)
  PROVE  /\ x.buffer \in Seq(Bytes) /\ Len(x.buffer) \in Nat
         /\ x.readerIndex \in Nat /\ x.writerIndex \in Nat
         /\ x.readerIndex <= x.writerIndex /\ x.writerIndex <= Len(x.buffer)
         /\ kCheapPrepend <= Len(x.buffer) /\ kCheapPrepend \in Nat
         /\ Readable(x) \in Nat /\ Writable(x) \in Nat /\ Prependable(x) \in Nat
         /\ Readable(x) = x.writerIndex - x.readerIndex
         /\ Writable(x) = Len(x.buffer) - x.writerIndex
<1>1. /\ x.buffer \in Seq(Bytes) /\ x.readerIndex \in Nat /\ x.writerIndex \in Nat
      /\ x.readerIndex <= x.writerIndex /\ x.writerIndex <= Len(x.buffer)
      /\ kCheapPrepend <= Len(x.buffer)
  BY DEF Good, Buffers, Layout
<1>2. Len(x.buffer) \in Nat
  BY <1>1, LenProperties
<1> QED
  BY <1>1, <1>2, BufferConstants DEF Readable, Writable, Prependable

\* The readable bytes are a sequence of bytes, those between the two indices.
LEMMA ContentIs ==
  ASSUME NEW x, Good(x)
  PROVE  /\ Content(x) \in Seq(Bytes) /\ Len(Content(x)) = Readable(x)
         /\ \A i \in 1..Readable(x) : Content(x)[i] = x.buffer[x.readerIndex + i]
<1>1. ASSUME NEW i \in 1..Readable(x) PROVE x.buffer[x.readerIndex + i] \in Bytes
  <2>1. x.readerIndex + i \in 1..Len(x.buffer)
    BY GoodTypes, SMTT(40)
  <2> QED
    BY <2>1, GoodTypes, ElementOfSeq
<1>2. Content(x) \in [1..Readable(x) -> Bytes]
  BY <1>1 DEF Content
<1>3. Readable(x) \in Nat
  BY GoodTypes
<1>4. \A i \in 1..Readable(x) : Content(x)[i] = x.buffer[x.readerIndex + i]
  BY DEF Content
<1> QED
  BY <1>2, <1>3, <1>4, FunctionIsSeq

\* Two buffers with the same readable bytes.
LEMMA SameContent ==
  ASSUME NEW x, Good(x), NEW s \in Seq(Bytes), Len(s) = Readable(x),
         \A i \in 1..Readable(x) : x.buffer[x.readerIndex + i] = s[i]
  PROVE  Content(x) = s
<1>1. /\ Content(x) \in Seq(Bytes) /\ Len(Content(x)) = Len(s)
      /\ \A i \in 1..Len(Content(x)) : Content(x)[i] = s[i]
  BY ContentIs
<1> QED
  BY <1>1, SeqEqual

\* std::copy into the array changes the bytes copied to and nothing else.
LEMMA CopyIs ==
  ASSUME NEW x \in Buffers, NEW at \in Nat, NEW d \in Seq(Bytes), at + Len(d) <= Len(x.buffer)
  PROVE  /\ Copy(x, at, d) \in Buffers
         /\ Copy(x, at, d).readerIndex = x.readerIndex
         /\ Copy(x, at, d).writerIndex = x.writerIndex
         /\ Len(Copy(x, at, d).buffer) = Len(x.buffer)
         /\ \A i \in 1..Len(x.buffer) :
              Copy(x, at, d).buffer[i] = IF at < i /\ i <= at + Len(d) THEN d[i - at] ELSE x.buffer[i]
<1> DEFINE n == Len(x.buffer)
           f == [i \in 1..n |-> IF at < i /\ i <= at + Len(d) THEN d[i - at] ELSE x.buffer[i]]
<1>1. n \in Nat /\ Len(d) \in Nat /\ x.buffer \in Seq(Bytes)
  BY LenProperties DEF Buffers
<1>2. ASSUME NEW i \in 1..n PROVE f[i] \in Bytes
  <2>1. CASE at < i /\ i <= at + Len(d)
    <3>1. i - at \in 1..Len(d)
      BY <1>1, <2>1
    <3> QED
      BY <2>1, <3>1, ElementOfSeq
  <2>2. CASE ~(at < i /\ i <= at + Len(d))
    BY <1>1, <2>2, ElementOfSeq
  <2> QED
    BY <2>1, <2>2
<1>3. f \in [1..n -> Bytes]
  BY <1>2
<1>4. f \in Seq(Bytes) /\ Len(f) = n
  <2> HIDE DEF f, n
  <2> QED
    BY <1>1, <1>3, FunctionIsSeq
<1>5. Copy(x, at, d) = [x EXCEPT !.buffer = f]
  BY DEF Copy
<1>6. \A i \in 1..n : f[i] = IF at < i /\ i <= at + Len(d) THEN d[i - at] ELSE x.buffer[i]
  OBVIOUS
<1> HIDE DEF f
<1> QED
  BY <1>4, <1>5, <1>6 DEF Buffers

\* vector::resize keeps the bytes that were there.
LEMMA ResizeIs ==
  ASSUME NEW x \in Buffers, NEW n \in Nat, Len(x.buffer) <= n
  PROVE  /\ Resize(x, n) \in Buffers
         /\ Resize(x, n).readerIndex = x.readerIndex
         /\ Resize(x, n).writerIndex = x.writerIndex
         /\ Len(Resize(x, n).buffer) = n
         /\ \A i \in 1..Len(x.buffer) : Resize(x, n).buffer[i] = x.buffer[i]
<1> DEFINE f == [i \in 1..n |-> IF i <= Len(x.buffer) THEN x.buffer[i] ELSE Zero]
<1>1. Len(x.buffer) \in Nat /\ x.buffer \in Seq(Bytes) /\ Zero \in Bytes
  BY LenProperties, BufferConstants DEF Buffers, Zero, Bytes
<1>2. \A i \in 1..n : f[i] \in Bytes
  BY <1>1, ElementOfSeq
<1>3. f \in [1..n -> Bytes]
  BY <1>2
<1>4. f \in Seq(Bytes) /\ Len(f) = n
  <2> HIDE DEF f
  <2> QED
    BY <1>3, FunctionIsSeq
<1>5. Resize(x, n) = [x EXCEPT !.buffer = f]
  BY DEF Resize
<1>6. \A i \in 1..Len(x.buffer) : f[i] = x.buffer[i]
  BY <1>1
<1> HIDE DEF f
<1> QED
  BY <1>4, <1>5, <1>6 DEF Buffers

\* The readable part may be moved down: there is something to move it over.
LEMMA MoveDownIs ==
  ASSUME NEW x, Good(x), kCheapPrepend < x.readerIndex
  PROVE  LET y == MoveDown(x) IN
         /\ Good(y) /\ Content(y) = Content(x)
         /\ Len(y.buffer) = Len(x.buffer) /\ y.readerIndex = kCheapPrepend
         /\ y.writerIndex = kCheapPrepend + Readable(x)
<1> DEFINE c == Content(x)
           z == Copy(x, kCheapPrepend, c)
           y == MoveDown(x)
<1>1. c \in Seq(Bytes) /\ Len(c) = Readable(x)
  BY ContentIs
<1>2. x \in Buffers /\ kCheapPrepend \in Nat /\ kCheapPrepend + Len(c) <= Len(x.buffer)
  BY <1>1, GoodTypes, SMTT(40) DEF Good
<1>3. /\ z \in Buffers /\ Len(z.buffer) = Len(x.buffer)
      /\ \A i \in 1..Len(x.buffer) :
           z.buffer[i] = IF kCheapPrepend < i /\ i <= kCheapPrepend + Len(c)
                         THEN c[i - kCheapPrepend] ELSE x.buffer[i]
  <2> HIDE DEF c
  <2> QED
    BY <1>1, <1>2, CopyIs
<1>4. y = [z EXCEPT !.readerIndex = kCheapPrepend, !.writerIndex = kCheapPrepend + Readable(x)]
  BY DEF MoveDown
<1> HIDE DEF c, z, y
<1>5. /\ y.buffer = z.buffer /\ y.readerIndex = kCheapPrepend
      /\ y.writerIndex = kCheapPrepend + Readable(x)
  BY <1>3, <1>4 DEF Buffers
<1>6. y \in Buffers
  <2>1. kCheapPrepend + Readable(x) \in Nat
    BY GoodTypes
  <2> QED
    BY <1>2, <1>3, <1>4, <2>1 DEF Buffers
<1>7. Good(y)
  BY <1>3, <1>5, <1>6, GoodTypes, SMTT(40) DEF Good, Layout
<1>8. Readable(y) = Readable(x)
  BY <1>5, GoodTypes DEF Readable
<1>9. Content(y) = c
  <2>1. ASSUME NEW i \in 1..Readable(y) PROVE y.buffer[y.readerIndex + i] = c[i]
    <3> DEFINE j == kCheapPrepend + i
    <3>1. /\ j \in 1..Len(x.buffer) /\ kCheapPrepend < j /\ j <= kCheapPrepend + Len(c)
          /\ j - kCheapPrepend = i
      BY <1>1, <1>2, <1>8, GoodTypes
    <3> QED
      BY <1>3, <1>5, <3>1
  <2> QED
    BY <1>1, <1>7, <1>8, <2>1, SameContent
<1> QED
  BY <1>3, <1>5, <1>7, <1>9 DEF c, y

-----------------------------------------------------------------------------
(* The methods *)

\* ensureWritableBytes makes room for any length and keeps the readable bytes;
\* makeSpace finds something to move down over when it does not grow the array.
LEMMA EnsureIs ==
  ASSUME NEW x, Good(x), NEW len \in Nat
  PROVE  LET y == ensureWritableBytes(x, len) IN
         /\ Good(y) /\ Writable(y) >= len /\ Content(y) = Content(x)
         /\ Writable(x) < len /\ ~MustGrow(x, len) => kCheapPrepend < x.readerIndex
<1> DEFINE y == ensureWritableBytes(x, len)
<1>1. CASE ~(Writable(x) < len)
  <2>1. y = x
    BY <1>1 DEF ensureWritableBytes
  <2> QED
    BY <1>1, <2>1, GoodTypes
<1>2. CASE Writable(x) < len /\ MustGrow(x, len)
  <2> DEFINE n == x.writerIndex + len
  <2>1. n \in Nat /\ Len(x.buffer) <= n
    BY <1>2, GoodTypes
  <2>2. y = Resize(x, n)
    BY <1>2 DEF ensureWritableBytes, makeSpace
  <2>3. /\ y \in Buffers /\ y.readerIndex = x.readerIndex /\ y.writerIndex = x.writerIndex
        /\ Len(y.buffer) = n /\ \A i \in 1..Len(x.buffer) : y.buffer[i] = x.buffer[i]
    <3> HIDE DEF n, y
    <3> QED
      BY <2>1, <2>2, ResizeIs DEF Good
  <2> HIDE DEF y
  <2>4. Good(y)
    BY <2>1, <2>3, GoodTypes, SMTT(40) DEF Good, Layout
  <2>5. Readable(y) = Readable(x) /\ Writable(y) = len
    BY <2>3, GoodTypes DEF Readable, Writable
  <2>6. Content(y) = Content(x)
    <3>1. ASSUME NEW i \in 1..Readable(y) PROVE y.buffer[y.readerIndex + i] = Content(x)[i]
      <4>1. x.readerIndex + i \in 1..Len(x.buffer)
        BY <2>5, GoodTypes, SMTT(40)
      <4> QED
        BY <2>3, <2>5, <4>1, ContentIs
    <3> QED
      BY <2>4, <2>5, <3>1, ContentIs, SameContent
  <2> QED
    BY <1>2, <2>4, <2>5, <2>6, GoodTypes DEF y
<1>3. CASE Writable(x) < len /\ ~MustGrow(x, len)
  <2>1. kCheapPrepend < x.readerIndex
    BY <1>3, GoodTypes DEF MustGrow, Prependable
  <2>2. y = MoveDown(x)
    BY <1>3 DEF ensureWritableBytes, makeSpace
  <2>3. /\ Good(y) /\ Content(y) = Content(x) /\ Len(y.buffer) = Len(x.buffer)
        /\ y.writerIndex = kCheapPrepend + Readable(x)
    BY <2>1, <2>2, MoveDownIs
  <2> HIDE DEF y
  <2>4. Writable(y) >= len
    <3>1. ~(Writable(x) + x.readerIndex < len + kCheapPrepend)
      BY <1>3 DEF MustGrow, Prependable
    <3>2. Writable(y) = Len(x.buffer) - (kCheapPrepend + Readable(x))
      BY <2>3 DEF Writable
    <3>3. /\ Len(x.buffer) \in Nat /\ x.readerIndex \in Nat /\ x.writerIndex \in Nat
          /\ kCheapPrepend \in Nat
          /\ Readable(x) = x.writerIndex - x.readerIndex
          /\ Writable(x) = Len(x.buffer) - x.writerIndex
      BY GoodTypes
    <3> QED
      BY <3>1, <3>2, <3>3
  <2> QED
    BY <2>1, <2>3, <2>4 DEF y
<1> QED
  BY <1>1, <1>2, <1>3

\* What the caller, append and readFd do with room that is there.
LEMMA WrittenIs ==
  ASSUME NEW x, Good(x), NEW d \in Seq(Bytes), Len(d) <= Writable(x)
  PROVE  LET y == hasWritten(Copy(x, x.writerIndex, d), Len(d)) IN
         /\ Good(y) /\ Content(y) = Content(x) \o d
         /\ Writable(y) = Writable(x) - Len(d)
<1> DEFINE z == Copy(x, x.writerIndex, d)
           y == hasWritten(z, Len(d))
<1>1. /\ x \in Buffers /\ x.writerIndex \in Nat /\ Len(d) \in Nat
      /\ x.writerIndex + Len(d) <= Len(x.buffer)
  BY GoodTypes, LenProperties DEF Good
<1>2. /\ z \in Buffers /\ z.readerIndex = x.readerIndex /\ z.writerIndex = x.writerIndex
      /\ Len(z.buffer) = Len(x.buffer)
      /\ \A i \in 1..Len(x.buffer) :
           z.buffer[i] = IF x.writerIndex < i /\ i <= x.writerIndex + Len(d)
                         THEN d[i - x.writerIndex] ELSE x.buffer[i]
  BY <1>1, CopyIs
<1> HIDE DEF z
<1>3. y = [z EXCEPT !.writerIndex = x.writerIndex + Len(d)]
  BY <1>2 DEF hasWritten
<1> HIDE DEF y
<1>4. /\ y.buffer = z.buffer /\ y.readerIndex = x.readerIndex
      /\ y.writerIndex = x.writerIndex + Len(d)
  BY <1>2, <1>3 DEF Buffers
<1>5. y \in Buffers
  <2>1. x.writerIndex + Len(d) \in Nat
    BY <1>1
  <2> QED
    BY <1>2, <1>3, <2>1 DEF Buffers
<1>6. Good(y)
  BY <1>1, <1>2, <1>4, <1>5, GoodTypes, SMTT(40) DEF Good, Layout
<1>G. /\ Len(x.buffer) \in Nat /\ x.readerIndex \in Nat /\ x.writerIndex \in Nat
      /\ x.readerIndex <= x.writerIndex
      /\ Readable(x) = x.writerIndex - x.readerIndex /\ Readable(x) \in Nat
      /\ Writable(x) = Len(x.buffer) - x.writerIndex
  BY GoodTypes
<1>7. Readable(y) = Readable(x) + Len(d) /\ Writable(y) = Writable(x) - Len(d)
  <2>1. Readable(y) = y.writerIndex - y.readerIndex /\ Writable(y) = Len(y.buffer) - y.writerIndex
    BY DEF Readable, Writable
  <2> QED
    BY <1>1, <1>2, <1>4, <1>G, <2>1, SMTT(40)
<1> DEFINE c == Content(x)
           s == c \o d
<1>8. c \in Seq(Bytes) /\ Len(c) = Readable(x)
  BY ContentIs
<1>9. /\ s \in Seq(Bytes) /\ Len(s) = Readable(x) + Len(d)
      /\ \A i \in 1..(Readable(x) + Len(d)) :
           s[i] = IF i <= Readable(x) THEN c[i] ELSE d[i - Readable(x)]
  <2> HIDE DEF c
  <2>1. /\ c \o d \in Seq(Bytes) /\ Len(c \o d) = Len(c) + Len(d)
        /\ \A i \in 1..(Len(c) + Len(d)) :
             (c \o d)[i] = IF i <= Len(c) THEN c[i] ELSE d[i - Len(c)]
    BY <1>8, ConcatProperties
  <2> QED
    BY <1>8, <2>1
<1>10. ASSUME NEW i \in 1..Readable(y) PROVE y.buffer[y.readerIndex + i] = s[i]
  <2> HIDE DEF s
  <2>1. x.readerIndex + i \in 1..Len(x.buffer)
    <3>1. i \in Nat \ {0} /\ i <= (x.writerIndex - x.readerIndex) + Len(d)
      BY <1>1, <1>7, <1>G
    <3> QED
      BY <1>1, <1>G, <3>1, SMTT(40)
  <2>2. CASE i <= Readable(x)
    <3>1. ~(x.writerIndex < x.readerIndex + i) /\ i \in 1..Readable(x)
      BY <2>2, GoodTypes
    <3>2. y.buffer[y.readerIndex + i] = x.buffer[x.readerIndex + i]
      BY <1>2, <1>4, <2>1, <3>1
    <3>3. c[i] = x.buffer[x.readerIndex + i]
      BY <3>1, ContentIs
    <3> QED
      BY <1>7, <1>9, <2>2, <3>2, <3>3
  <2>3. CASE ~(i <= Readable(x))
    <3>1. /\ x.writerIndex < x.readerIndex + i
          /\ x.readerIndex + i <= x.writerIndex + Len(d)
          /\ (x.readerIndex + i) - x.writerIndex = i - Readable(x)
      BY <1>1, <1>7, <2>3, <1>G, SMTT(40)
    <3>2. y.buffer[y.readerIndex + i] = d[i - Readable(x)]
      BY <1>2, <1>4, <2>1, <3>1
    <3> QED
      BY <1>7, <1>9, <2>3, <3>2
  <2> QED
    BY <2>2, <2>3
<1>11. Content(y) = s
  <2> HIDE DEF s
  <2> QED
    BY <1>6, <1>7, <1>9, <1>10, SameContent
<1> QED
  BY <1>6, <1>7, <1>11 DEF y, z

\* append adds the bytes at the back.
LEMMA AppendIs ==
  ASSUME NEW x, Good(x), NEW d \in Seq(Bytes)
  PROVE  Good(append(x, d)) /\ Content(append(x, d)) = Content(x) \o d
<1> DEFINE y == ensureWritableBytes(x, Len(d))
<1>1. Len(d) \in Nat
  BY LenProperties
<1>2. Good(y) /\ Len(d) <= Writable(y) /\ Content(y) = Content(x)
  <2>1. Good(y) /\ Writable(y) >= Len(d) /\ Content(y) = Content(x)
    BY <1>1, EnsureIs
  <2>2. Writable(y) \in Nat
    BY <2>1, GoodTypes
  <2> QED
    BY <1>1, <2>1, <2>2
<1>3. append(x, d) = hasWritten(Copy(y, y.writerIndex, d), Len(d))
  BY DEF append
<1> HIDE DEF y
<1> QED
  BY <1>2, <1>3, WrittenIs

\* retrieve drops bytes at the front, and resets the indices if none is left.
LEMMA RetrieveIs ==
  ASSUME NEW x, Good(x), NEW len \in Nat, len <= Readable(x)
  PROVE  /\ Good(retrieve(x, len)) /\ Content(retrieve(x, len)) = Queue!Rest(Content(x), len)
         /\ Readable(retrieve(x, len)) = Readable(x) - len
<1> DEFINE y == retrieve(x, len)
           c == Content(x)
           s == Queue!Rest(c, len)
<1>1. c \in Seq(Bytes) /\ Len(c) = Readable(x) /\ Readable(x) - len \in Nat
  BY ContentIs, GoodTypes
<1>2. /\ s \in Seq(Bytes) /\ Len(s) = Readable(x) - len
      /\ \A i \in 1..(Readable(x) - len) : s[i] = c[i + len]
  <2>1. s = [i \in 1..(Readable(x) - len) |-> c[i + len]]
    BY <1>1 DEF Queue!Rest
  <2>2. ASSUME NEW i \in 1..(Readable(x) - len) PROVE c[i + len] \in Bytes
    <3>1. i + len \in 1..Len(c)
      BY <1>1, GoodTypes
    <3> QED
      BY <1>1, <3>1, ElementOfSeq
  <2>3. s \in [1..(Readable(x) - len) -> Bytes]
    BY <2>1, <2>2
  <2> HIDE DEF s
  <2> QED
    BY <1>1, <2>1, <2>3, FunctionIsSeq
<1> HIDE DEF s
<1>3. CASE len < Readable(x)
  <2>1. y = [x EXCEPT !.readerIndex = x.readerIndex + len]
    BY <1>3 DEF retrieve
  <2> HIDE DEF y
  <2>2. /\ y.buffer = x.buffer /\ y.writerIndex = x.writerIndex
        /\ y.readerIndex = x.readerIndex + len /\ y \in Buffers
    <3>1. x \in Buffers /\ x.readerIndex + len \in Nat
      BY GoodTypes DEF Good
    <3> QED
      BY <2>1, <3>1 DEF Buffers
  <2>3. Good(y) /\ Readable(y) = Readable(x) - len
    BY <1>3, <2>2, GoodTypes, SMTT(40) DEF Good, Layout, Readable
  <2>4. ASSUME NEW i \in 1..Readable(y) PROVE y.buffer[y.readerIndex + i] = s[i]
    <3>1. i + len \in 1..Readable(x) /\ x.readerIndex + (i + len) = y.readerIndex + i
      BY <2>2, <2>3, GoodTypes, SMTT(40)
    <3>2. c[i + len] = x.buffer[x.readerIndex + (i + len)]
      BY <3>1, ContentIs
    <3> QED
      BY <1>2, <2>2, <2>3, <3>1, <3>2
  <2> QED
    BY <1>2, <2>3, <2>4, SameContent DEF y, s
<1>4. CASE ~(len < Readable(x))
  <2>1. y = [x EXCEPT !.readerIndex = kCheapPrepend, !.writerIndex = kCheapPrepend]
    BY <1>4 DEF retrieve, retrieveAll
  <2> HIDE DEF y
  <2>2. /\ y.buffer = x.buffer /\ y.writerIndex = kCheapPrepend
        /\ y.readerIndex = kCheapPrepend /\ y \in Buffers
    <3>1. x \in Buffers /\ kCheapPrepend \in Nat
      BY GoodTypes DEF Good
    <3> QED
      BY <2>1, <3>1 DEF Buffers
  <2>3. Good(y) /\ Readable(y) = 0 /\ Readable(x) - len = 0
    BY <1>4, <2>2, GoodTypes DEF Good, Layout, Readable
  <2> QED
    BY <1>2, <2>3, SameContent DEF y, s
<1> QED
  BY <1>3, <1>4

\* The first n elements of a sequence.
LEMMA PrefixIs ==
  ASSUME NEW s \in Seq(Bytes), NEW n \in Nat, n <= Len(s)
  PROVE  /\ Queue!Prefix(s, n) \in Seq(Bytes) /\ Len(Queue!Prefix(s, n)) = n
         /\ \A i \in 1..n : Queue!Prefix(s, n)[i] = s[i]
<1> DEFINE f == [i \in 1..n |-> s[i]]
<1>1. Len(s) \in Nat /\ \A i \in 1..n : i \in 1..Len(s)
  BY LenProperties
<1>2. \A i \in 1..n : s[i] \in Bytes
  BY <1>1, ElementOfSeq
<1>3. f \in [1..n -> Bytes] /\ \A i \in 1..n : f[i] = s[i]
  BY <1>2
<1>4. Queue!Prefix(s, n) = f
  BY DEF Queue!Prefix
<1> HIDE DEF f
<1> QED
  BY <1>3, <1>4, FunctionIsSeq

\* unwrite drops bytes at the back.
LEMMA UnwriteIs ==
  ASSUME NEW x, Good(x), NEW len \in Nat, len <= Readable(x)
  PROVE  /\ Good(unwrite(x, len))
         /\ Content(unwrite(x, len)) = Queue!Prefix(Content(x), Readable(x) - len)
<1> DEFINE y == unwrite(x, len)
           c == Content(x)
           s == Queue!Prefix(c, Readable(x) - len)
<1>1. c \in Seq(Bytes) /\ Len(c) = Readable(x) /\ Readable(x) - len \in Nat
  BY ContentIs, GoodTypes
<1>2. /\ s \in Seq(Bytes) /\ Len(s) = Readable(x) - len
      /\ \A i \in 1..(Readable(x) - len) : s[i] = c[i]
  BY <1>1, PrefixIs, SMTT(40)
<1> HIDE DEF s
<1>3. y = [x EXCEPT !.writerIndex = x.writerIndex - len]
  BY DEF unwrite
<1> HIDE DEF y
<1>4. /\ y.buffer = x.buffer /\ y.readerIndex = x.readerIndex
      /\ y.writerIndex = x.writerIndex - len /\ y \in Buffers
  <2>1. x \in Buffers /\ x.writerIndex - len \in Nat
    BY GoodTypes DEF Good
  <2> QED
    BY <1>3, <2>1 DEF Buffers
<1>5. Good(y) /\ Readable(y) = Readable(x) - len
  BY <1>4, GoodTypes, SMTT(40) DEF Good, Layout, Readable
<1>6. ASSUME NEW i \in 1..Readable(y) PROVE y.buffer[y.readerIndex + i] = s[i]
  <2>1. i \in 1..Readable(x)
    BY <1>5, GoodTypes
  <2> QED
    BY <1>2, <1>4, <1>5, <2>1, ContentIs
<1> QED
  BY <1>2, <1>5, <1>6, SameContent DEF y, s

\* prepend puts the bytes in front.
LEMMA PrependIs ==
  ASSUME NEW x, Good(x), NEW d \in Seq(Bytes), Len(d) <= Prependable(x)
  PROVE  Good(prepend(x, d)) /\ Content(prepend(x, d)) = d \o Content(x)
<1> DEFINE r == x.readerIndex - Len(d)
           z == [x EXCEPT !.readerIndex = r]
           y == Copy(z, r, d)
           c == Content(x)
           s == d \o c
<1>G. /\ Len(x.buffer) \in Nat /\ x.readerIndex \in Nat /\ x.writerIndex \in Nat
      /\ x.readerIndex <= x.writerIndex /\ x.writerIndex <= Len(x.buffer)
      /\ kCheapPrepend <= Len(x.buffer)
      /\ Readable(x) = x.writerIndex - x.readerIndex /\ Readable(x) \in Nat
      /\ Len(d) \in Nat /\ Len(d) <= x.readerIndex /\ x \in Buffers
  BY GoodTypes, LenProperties DEF Good, Prependable
<1>1. r \in Nat
  BY <1>G
<1>2. prepend(x, d) = y
  <2>1. z.readerIndex = r
    BY <1>G DEF Buffers
  <2> QED
    BY <2>1 DEF prepend
<1>3. /\ z \in Buffers /\ z.buffer = x.buffer /\ z.readerIndex = r
      /\ z.writerIndex = x.writerIndex
  BY <1>1, <1>G DEF Buffers
<1> HIDE DEF z
<1>4. r + Len(d) = x.readerIndex /\ r + Len(d) <= Len(z.buffer)
  BY <1>3, <1>G
<1>5. /\ y \in Buffers /\ y.readerIndex = r /\ y.writerIndex = x.writerIndex
      /\ Len(y.buffer) = Len(x.buffer)
      /\ \A i \in 1..Len(x.buffer) :
           y.buffer[i] = IF r < i /\ i <= r + Len(d) THEN d[i - r] ELSE x.buffer[i]
  <2> HIDE DEF r
  <2> QED
    BY <1>1, <1>3, <1>4, CopyIs
<1> HIDE DEF y
<1>6. Good(y)
  BY <1>1, <1>4, <1>5, <1>G DEF Good, Layout
<1>7. Readable(y) = Len(d) + Readable(x)
  <2>1. Readable(y) = y.writerIndex - y.readerIndex
    BY DEF Readable
  <2> QED
    BY <1>5, <1>G, <2>1
<1>8. c \in Seq(Bytes) /\ Len(c) = Readable(x)
  BY ContentIs
<1>9. /\ s \in Seq(Bytes) /\ Len(s) = Len(d) + Readable(x)
      /\ \A i \in 1..(Len(d) + Readable(x)) : s[i] = IF i <= Len(d) THEN d[i] ELSE c[i - Len(d)]
  <2> HIDE DEF c
  <2>1. /\ d \o c \in Seq(Bytes) /\ Len(d \o c) = Len(d) + Len(c)
        /\ \A i \in 1..(Len(d) + Len(c)) :
             (d \o c)[i] = IF i <= Len(d) THEN d[i] ELSE c[i - Len(d)]
    BY <1>8, ConcatProperties
  <2> QED
    BY <1>8, <2>1
<1> HIDE DEF s
<1>10. ASSUME NEW i \in 1..Readable(y) PROVE y.buffer[y.readerIndex + i] = s[i]
  <2> HIDE DEF r
  <2>1. i \in Nat \ {0} /\ i <= Len(d) + (x.writerIndex - x.readerIndex)
    BY <1>7, <1>G
  <2>2. r + i \in 1..Len(x.buffer)
    BY <1>1, <1>4, <1>G, <2>1
  <2>3. CASE i <= Len(d)
    <3>1. r < r + i /\ r + i <= r + Len(d) /\ (r + i) - r = i
      BY <1>1, <1>G, <2>1, <2>3
    <3>2. y.buffer[y.readerIndex + i] = d[i]
      BY <1>5, <2>2, <3>1
    <3> QED
      BY <1>7, <1>9, <2>3, <3>2
  <2>4. CASE ~(i <= Len(d))
    <3>1. /\ ~(r + i <= r + Len(d)) /\ r + i = x.readerIndex + (i - Len(d))
          /\ i - Len(d) \in 1..Readable(x)
      BY <1>1, <1>4, <1>G, <2>1, <2>4
    <3>2. y.buffer[y.readerIndex + i] = x.buffer[r + i]
      BY <1>5, <2>2, <3>1
    <3>3. c[i - Len(d)] = x.buffer[x.readerIndex + (i - Len(d))]
      BY <3>1, ContentIs
    <3>4. y.buffer[y.readerIndex + i] = c[i - Len(d)]
      <4> HIDE DEF c
      <4> QED
        BY <3>1, <3>2, <3>3
    <3> QED
      BY <1>7, <1>9, <2>4, <3>4
  <2> QED
    BY <2>3, <2>4
<1> QED
  BY <1>2, <1>6, <1>7, <1>9, <1>10, SameContent DEF s, c

\* The default constructor.
LEMMA NewBufferIs == Good(NewBuffer) /\ Content(NewBuffer) = <<>>
<1> DEFINE n == kCheapPrepend + kInitialSize
           f == [i \in 1..n |-> Zero]
<1>1. n \in Nat /\ kCheapPrepend \in Nat /\ kCheapPrepend <= n /\ Zero \in Bytes
  BY BufferConstants DEF Zero, Bytes
<1>2. f \in [1..n -> Bytes]
  BY <1>1
<1>3. f \in Seq(Bytes) /\ Len(f) = n
  <2> HIDE DEF f, n
  <2> QED
    BY <1>1, <1>2, FunctionIsSeq
<1>4. NewBuffer = [buffer |-> f, readerIndex |-> kCheapPrepend, writerIndex |-> kCheapPrepend]
  BY DEF NewBuffer
<1> HIDE DEF f, n
<1>5. Good(NewBuffer) /\ Readable(NewBuffer) = 0
  BY <1>1, <1>3, <1>4 DEF Good, Layout, Buffers, Readable
<1>6. Content(NewBuffer) \in Seq(Bytes) /\ Len(Content(NewBuffer)) = 0
  BY <1>5, ContentIs
<1> QED
  BY <1>5, <1>6, EmptySeq

\* shrink keeps the readable bytes.
LEMMA ShrinkIs ==
  ASSUME NEW x, Good(x), NEW reserve \in Nat
  PROVE  Good(shrink(x, reserve)) /\ Content(shrink(x, reserve)) = Content(x)
<1> DEFINE y == ensureWritableBytes(NewBuffer, Readable(x) + reserve)
           c == Content(x)
<1>1. Readable(x) + reserve \in Nat /\ c \in Seq(Bytes)
  BY GoodTypes, ContentIs
<1>2. Good(y) /\ Content(y) = <<>>
  BY <1>1, NewBufferIs, EnsureIs
<1>3. shrink(x, reserve) = append(y, c)
  BY DEF shrink
<1> HIDE DEF y, c
<1>4. Good(append(y, c)) /\ Content(append(y, c)) = <<>> \o c
  BY <1>1, <1>2, AppendIs
<1>5. <<>> \o c = c
  BY <1>1, ConcatEmptySeq
<1> QED
  BY <1>3, <1>4, <1>5 DEF c

\* readFd adds what readv delivered, also what went through extrabuf.
LEMMA ReadFdIs ==
  ASSUME NEW x, Good(x), NEW d \in Seq(Bytes)
  PROVE  Good(readFd(x, d)) /\ Content(readFd(x, d)) = Content(x) \o d
<1>1. CASE Len(d) <= Writable(x)
  <2>1. readFd(x, d) = hasWritten(Copy(x, x.writerIndex, d), Len(d))
    BY <1>1 DEF readFd
  <2> QED
    BY <1>1, <2>1, WrittenIs
<1>2. CASE ~(Len(d) <= Writable(x))
  <2> DEFINE n == Writable(x)
             d1 == [i \in 1..n |-> d[i]]
             d2 == [i \in 1..(Len(d) - n) |-> d[n + i]]
             y == hasWritten(Copy(x, x.writerIndex, d1), n)
  <2>1. n \in Nat /\ Len(d) \in Nat /\ Len(d) - n \in Nat
    BY <1>2, GoodTypes, LenProperties
  <2>2. d1 \in Seq(Bytes) /\ Len(d1) = n
    <3>1. \A i \in 1..n : d[i] \in Bytes
      BY <1>2, <2>1, ElementOfSeq
    <3>2. d1 \in [1..n -> Bytes]
      BY <3>1
    <3> HIDE DEF d1, n
    <3> QED
      BY <2>1, <3>2, FunctionIsSeq
  <2>3. d2 \in Seq(Bytes) /\ Len(d2) = Len(d) - n
    <3>1. ASSUME NEW i \in 1..(Len(d) - n) PROVE d[n + i] \in Bytes
      <4>1. n + i \in 1..Len(d)
        BY <2>1
      <4> QED
        BY <4>1, ElementOfSeq
    <3>2. d2 \in [1..(Len(d) - n) -> Bytes]
      BY <3>1
    <3> HIDE DEF d2, n
    <3> QED
      BY <2>1, <3>2, FunctionIsSeq
  <2>4. d1 \o d2 = d
    <3>1. /\ d1 \o d2 \in Seq(Bytes) /\ Len(d1 \o d2) = Len(d1) + Len(d2)
          /\ \A i \in 1..(Len(d1) + Len(d2)) :
               (d1 \o d2)[i] = IF i <= Len(d1) THEN d1[i] ELSE d2[i - Len(d1)]
      <4> HIDE DEF d1, d2
      <4> QED
        BY <2>2, <2>3, ConcatProperties
    <3>2. Len(d1 \o d2) = Len(d)
      <4> HIDE DEF d1, d2, n
      <4> QED
        BY <2>1, <2>2, <2>3, <3>1
    <3>3. ASSUME NEW i \in 1..Len(d) PROVE (d1 \o d2)[i] = d[i]
      <4>1. CASE i <= n
        <5>1. d1[i] = d[i] /\ i \in 1..(Len(d1) + Len(d2))
          BY <2>1, <2>2, <2>3, <4>1
        <5> HIDE DEF d1, d2
        <5> QED
          BY <2>2, <3>1, <4>1, <5>1
      <4>2. CASE ~(i <= n)
        <5>1. i - n \in 1..(Len(d) - n) /\ n + (i - n) = i
          BY <2>1, <4>2
        <5>2. d2[i - n] = d[i] /\ i \in 1..(Len(d1) + Len(d2))
          BY <2>1, <2>2, <2>3, <5>1
        <5> HIDE DEF d1, d2
        <5> QED
          BY <2>2, <3>1, <4>2, <5>2
      <4> QED
        BY <4>1, <4>2
    <3> HIDE DEF d1, d2
    <3> QED
      BY <3>1, <3>2, <3>3, SeqEqual
  <2>5. readFd(x, d) = append(y, d2)
    BY <1>2 DEF readFd
  <2>6. Good(y) /\ Content(y) = Content(x) \o d1
    <3>1. Len(d1) <= Writable(x)
      BY <2>1, <2>2
    <3>2. y = hasWritten(Copy(x, x.writerIndex, d1), Len(d1))
      BY <2>2
    <3> HIDE DEF d1, y
    <3> QED
      BY <2>2, <3>1, <3>2, WrittenIs
  <2> HIDE DEF d1, d2, y
  <2>7. Good(append(y, d2)) /\ Content(append(y, d2)) = (Content(x) \o d1) \o d2
    BY <2>3, <2>6, AppendIs
  <2>8. (Content(x) \o d1) \o d2 = Content(x) \o d
    <3>1. Content(x) \in Seq(Bytes)
      BY ContentIs
    <3>2. ASSUME NEW c \in Seq(Bytes), NEW e \in Seq(Bytes), NEW f \in Seq(Bytes)
          PROVE  (c \o e) \o f = c \o (e \o f)
      BY ConcatAssociative, SMTT(40)
    <3>3. (Content(x) \o d1) \o d2 = Content(x) \o (d1 \o d2)
      BY <2>2, <2>3, <3>1, <3>2, Zenon
    <3> QED
      BY <2>4, <3>3
  <2> QED
    BY <2>5, <2>7, <2>8
<1> QED
  BY <1>1, <1>2

-----------------------------------------------------------------------------
(* Searching *)

\* The places at which d begins.
Hits(x, start, d) ==
  {p \in start..(x.writerIndex - Len(d)) : \A i \in DOMAIN d : x.buffer[p + i] = d[i]}

\* A search ends at the first of them, or at the end.
LEMMA SearchIs ==
  ASSUME NEW x, Good(x), NEW start \in x.readerIndex..x.writerIndex,
         NEW d \in Seq(Bytes), Len(d) # 0
  PROVE  /\ Hits(x, start, d) = {} => Search(x, start, d) = x.writerIndex
         /\ Hits(x, start, d) # {} =>
              /\ Search(x, start, d) \in Hits(x, start, d)
              /\ Search(x, start, d) \in Nat
              /\ Search(x, start, d) # x.writerIndex
              /\ \A q \in Hits(x, start, d) : Search(x, start, d) <= q
<1> DEFINE hits == Hits(x, start, d)
           p == Search(x, start, d)
<1>1. x.writerIndex \in Nat /\ start \in Nat /\ Len(d) \in Nat \ {0}
  BY GoodTypes, LenProperties
<1>2. p = IF hits = {} THEN x.writerIndex ELSE CHOOSE h \in hits : \A q \in hits : h <= q
  BY DEF Search, Hits
<1>3. hits \subseteq start..(x.writerIndex - Len(d))
  BY DEF Hits
<1> HIDE DEF hits, p
<1>4. hits \in SUBSET Nat
  BY <1>1, <1>3
<1>5. ASSUME hits # {} PROVE p \in hits /\ \A q \in hits : p <= q
  <2>1. \E h \in hits : \A q \in hits : h <= q
    BY <1>4, <1>5, SmallestExists
  <2> QED
    BY <1>2, <1>5, <2>1
<1>6. ASSUME hits # {}
      PROVE  p \in Nat /\ p # x.writerIndex
  <2>1. p \in start..(x.writerIndex - Len(d))
    BY <1>3, <1>5, <1>6
  <2> QED
    BY <1>1, <2>1
<1> QED
  BY <1>2, <1>5, <1>6 DEF hits, p

\* The places at which a CRLF, and those at which an LF begins.
CRLFs(x, start) ==
  {p \in start..(x.writerIndex - 2) : x.buffer[p + 1] = kCR /\ x.buffer[p + 2] = kLF}
LFs(x, start) == {p \in start..(x.writerIndex - 1) : x.buffer[p + 1] = kLF}

\* findCRLF reports the first CRLF.
LEMMA FindCRLFIs ==
  ASSUME NEW x, Good(x), NEW start \in x.readerIndex..x.writerIndex
  PROVE  LET p == findCRLF(x, start) IN
         /\ CRLFs(x, start) = {} <=> p = NULL
         /\ p # NULL => p \in CRLFs(x, start) /\ p \in Nat
<1> DEFINE d == <<kCR, kLF>>
           hits == Hits(x, start, d)
           s == Search(x, start, d)
<1>1. d \in Seq(Bytes) /\ Len(d) = 2 /\ DOMAIN d = {1, 2} /\ d[1] = kCR /\ d[2] = kLF
  BY BufferConstants DEF Bytes
<1>2. hits = CRLFs(x, start)
  BY <1>1 DEF CRLFs, Hits
<1> HIDE DEF d
<1>3. /\ hits = {} => s = x.writerIndex
      /\ hits # {} => s \in hits /\ s \in Nat /\ s # x.writerIndex
  <2>1. Len(d) # 0
    BY <1>1
  <2> QED
    BY <1>1, <2>1, SearchIs
<1>4. findCRLF(x, start) = IF s = x.writerIndex THEN NULL ELSE s
  BY DEF findCRLF, d
<1> HIDE DEF hits, s
<1>5. \A p \in Nat : p # NULL
  BY DEF NULL
<1> QED
  BY <1>2, <1>3, <1>4, <1>5

\* findEOL reports the first LF.
LEMMA FindEOLIs ==
  ASSUME NEW x, Good(x), NEW start \in x.readerIndex..x.writerIndex
  PROVE  LET p == findEOL(x, start) IN
         /\ LFs(x, start) = {} <=> p = NULL
         /\ p # NULL => p \in LFs(x, start) /\ p \in Nat /\ \A q \in LFs(x, start) : p <= q
<1> DEFINE d == <<kLF>>
           hits == Hits(x, start, d)
           s == Search(x, start, d)
<1>1. d \in Seq(Bytes) /\ Len(d) = 1 /\ DOMAIN d = {1} /\ d[1] = kLF
  BY BufferConstants DEF Bytes
<1>2. hits = LFs(x, start)
  BY <1>1 DEF LFs, Hits
<1> HIDE DEF d
<1>3. /\ hits = {} => s = x.writerIndex
      /\ hits # {} => s \in hits /\ s \in Nat /\ s # x.writerIndex /\ \A q \in hits : s <= q
  <2>1. Len(d) # 0
    BY <1>1
  <2> QED
    BY <1>1, <2>1, SearchIs
<1>4. findEOL(x, start) = IF s = x.writerIndex THEN NULL ELSE s
  BY DEF findEOL, d
<1> HIDE DEF hits, s
<1>5. \A p \in Nat : p # NULL
  BY DEF NULL
<1> QED
  BY <1>2, <1>3, <1>4, <1>5

\* Lines end where both searches say so.
LEMMA GoodLineEnds == Good(b) => LineEnds
<1> SUFFICES ASSUME Good(b), NEW start \in b.readerIndex..b.writerIndex
             PROVE  LET crlf == findCRLF(b, start) IN
                    /\ crlf # NULL => /\ start <= crlf /\ crlf + 2 <= b.writerIndex
                                      /\ findEOL(b, crlf) = crlf + 1
                    /\ crlf = NULL => \A p \in start..b.writerIndex : findCRLF(b, p) = NULL
  BY DEF LineEnds
<1> DEFINE crlf == findCRLF(b, start)
<1>1. b.readerIndex \in Nat /\ b.writerIndex \in Nat /\ start \in Nat
  BY GoodTypes
<1>2. /\ CRLFs(b, start) = {} <=> crlf = NULL
      /\ crlf # NULL => crlf \in CRLFs(b, start) /\ crlf \in Nat
  BY FindCRLFIs
<1> HIDE DEF crlf
<1>3. ASSUME crlf # NULL
      PROVE  start <= crlf /\ crlf + 2 <= b.writerIndex /\ findEOL(b, crlf) = crlf + 1
  <2>1. /\ crlf \in Nat /\ start <= crlf /\ crlf + 2 <= b.writerIndex
        /\ b.buffer[crlf + 1] = kCR /\ b.buffer[crlf + 2] = kLF
    BY <1>1, <1>2, <1>3 DEF CRLFs
  <2>2. crlf \in b.readerIndex..b.writerIndex
    BY <1>1, <2>1
  <2> DEFINE eol == findEOL(b, crlf)
  <2>3. /\ LFs(b, crlf) = {} <=> eol = NULL
        /\ eol # NULL => eol \in LFs(b, crlf) /\ eol \in Nat /\ \A q \in LFs(b, crlf) : eol <= q
    BY <2>2, FindEOLIs
  <2> HIDE DEF eol
  <2>4. crlf + 1 \in LFs(b, crlf)
    <3>1. crlf + 1 \in crlf..(b.writerIndex - 1) /\ (crlf + 1) + 1 = crlf + 2
      BY <1>1, <2>1
    <3> QED
      BY <2>1, <3>1 DEF LFs
  <2>5. crlf \notin LFs(b, crlf)
    BY <2>1, BufferConstants DEF LFs
  <2>6. eol \in LFs(b, crlf) /\ eol \in Nat /\ eol <= crlf + 1 /\ eol # crlf
    BY <2>3, <2>4, <2>5
  <2>7. crlf <= eol
    BY <1>1, <2>1, <2>6 DEF LFs
  <2>8. eol = crlf + 1
    BY <2>1, <2>6, <2>7
  <2> QED
    BY <2>1, <2>8 DEF eol
<1>4. ASSUME crlf = NULL, NEW p \in start..b.writerIndex PROVE findCRLF(b, p) = NULL
  <2>1. p \in b.readerIndex..b.writerIndex /\ p \in Nat /\ start <= p
    BY <1>1
  <2>2. CRLFs(b, p) \subseteq CRLFs(b, start)
    BY <1>1, <2>1 DEF CRLFs
  <2>3. CRLFs(b, p) = {}
    BY <1>2, <1>4, <2>2
  <2> QED
    BY <2>1, <2>3, FindCRLFIs
<1> QED
  BY <1>3, <1>4 DEF crlf

-----------------------------------------------------------------------------
(* The invariant *)

\* The bytes of a number are a string.
LEMMA EncodedSeq ==
  ASSUME NEW n \in IntSizes, NEW v \in Ints(n)
  PROVE  /\ n \in Nat \ {0} /\ hostToNetwork(v, n) \in [1..n -> Bytes]
         /\ hostToNetwork(v, n) \in Seq(Bytes) /\ Len(hostToNetwork(v, n)) = n
<1>1. n \in Nat \ {0} /\ n \in Nat
  BY BufferConstants
<1>2. hostToNetwork(v, n) \in [1..n -> Bytes]
  BY <1>1, EncodedBytes
<1> QED
  BY <1>1, <1>2, FunctionIsSeq

\* What follows the first Len(c) elements of c \o d is d.
LEMMA RestOfConcat ==
  ASSUME NEW c \in Seq(Bytes), NEW d \in Seq(Bytes)
  PROVE  Queue!Rest(c \o d, Len(c)) = d
<1> DEFINE s == c \o d
           f == Queue!Rest(s, Len(c))
<1>1. Len(c) \in Nat /\ Len(d) \in Nat
  BY LenProperties
<1>2. /\ Len(s) = Len(c) + Len(d)
      /\ \A i \in 1..(Len(c) + Len(d)) : s[i] = IF i <= Len(c) THEN c[i] ELSE d[i - Len(c)]
  BY ConcatProperties
<1> HIDE DEF s
<1>3. f = [i \in 1..Len(d) |-> s[i + Len(c)]]
  <2>1. Len(s) - Len(c) = Len(d)
    BY <1>1, <1>2
  <2> QED
    BY <2>1 DEF Queue!Rest
<1>4. ASSUME NEW i \in 1..Len(d) PROVE s[i + Len(c)] = d[i] /\ d[i] \in Bytes
  <2>1. /\ i + Len(c) \in 1..(Len(c) + Len(d)) /\ ~(i + Len(c) <= Len(c))
        /\ (i + Len(c)) - Len(c) = i
    BY <1>1
  <2>2. s[i + Len(c)] = d[i]
    BY <1>2, <2>1
  <2> QED
    BY <2>2, ElementOfSeq
<1>5. f \in [1..Len(d) -> Bytes] /\ \A i \in 1..Len(d) : f[i] = d[i]
  BY <1>3, <1>4
<1> HIDE DEF f
<1>6. f \in Seq(Bytes) /\ Len(f) = Len(d)
  BY <1>1, <1>5, FunctionIsSeq
<1>7. f = d
  BY <1>5, <1>6, SeqEqual
<1> QED
  BY <1>7 DEF f, s

\* The number whose bytes are the first n of the content is what peekInt returns.
LEMMA PeekIs ==
  ASSUME NEW x, NEW n \in IntSizes \ {kInt16}, NEW v \in Ints(n), NEW c \in Seq(Bytes),
         Content(x) = hostToNetwork(v, n) \o c
  PROVE  peekInt(x, n) = {v}
<1> DEFINE d == hostToNetwork(v, n)
           f == [i \in 1..n |-> Content(x)[i]]
<1>1. n \in Nat \ {0} /\ d \in [1..n -> Bytes] /\ d \in Seq(Bytes) /\ Len(d) = n
  BY EncodedSeq
<1>2. ASSUME NEW i \in 1..n PROVE Content(x)[i] = d[i]
  <2> HIDE DEF d
  <2>1. \A j \in 1..(Len(d) + Len(c)) : (d \o c)[j] = IF j <= Len(d) THEN d[j] ELSE c[j - Len(d)]
    BY <1>1, ConcatProperties
  <2>2. i \in 1..(Len(d) + Len(c)) /\ i <= Len(d)
    BY <1>1, LenProperties
  <2>3. (d \o c)[i] = d[i]
    BY <2>1, <2>2
  <2> QED
    BY <2>3 DEF d
<1>3. f = d
  <2> HIDE DEF d
  <2> QED
    BY <1>1, <1>2
<1>4. networkToHost(d) = v
  BY <1>1, ReadsBack
<1> QED
  BY <1>3, <1>4 DEF peekInt

\* A number reads back.
LEMMA GoodReadBack == Good(b) => IntsReadBack
<1> SUFFICES ASSUME Good(b), NEW n \in IntSizes \ {kInt16}, NEW v \in Ints(n)
             PROVE  LET d == hostToNetwork(v, n) IN
                    /\ peekInt(retrieve(append(b, d), Readable(b)), n) = {v}
                    /\ n <= Prependable(b) => peekInt(prepend(b, d), n) = {v}
  BY DEF IntsReadBack
<1> DEFINE d == hostToNetwork(v, n)
           c == Content(b)
           y == append(b, d)
<1>1. n \in Nat \ {0} /\ d \in Seq(Bytes) /\ Len(d) = n
  BY EncodedSeq
<1>2. c \in Seq(Bytes) /\ Len(c) = Readable(b) /\ Readable(b) \in Nat
  BY ContentIs, GoodTypes
<1>3. Good(y) /\ Content(y) = c \o d
  <2> HIDE DEF d
  <2> QED
    BY <1>1, AppendIs
<1>4. Readable(b) <= Readable(y)
  <2> HIDE DEF d, y, c
  <2>1. Len(c \o d) = Len(c) + Len(d)
    BY <1>1, <1>2, ConcatProperties
  <2>2. Len(Content(y)) = Readable(y)
    BY <1>3, ContentIs
  <2> QED
    BY <1>1, <1>2, <1>3, <2>1, <2>2
<1>5. Content(retrieve(y, Readable(b))) = d
  <2> HIDE DEF d, y, c
  <2>1. Content(retrieve(y, Readable(b))) = Queue!Rest(c \o d, Len(c))
    BY <1>2, <1>3, <1>4, RetrieveIs
  <2> QED
    BY <1>1, <1>2, <2>1, RestOfConcat
<1>6. Content(retrieve(y, Readable(b))) = d \o <<>> /\ <<>> \in Seq(Bytes)
  <2> HIDE DEF d, y
  <2>1. d \o <<>> = d
    BY <1>1, ConcatEmptySeq
  <2>2. <<>> \in Seq(Bytes)
    BY EmptySeq
  <2> QED
    BY <1>5, <2>1, <2>2
<1>7. peekInt(retrieve(y, Readable(b)), n) = {v}
  <2> HIDE DEF y
  <2> QED
    BY <1>6, PeekIs
<1>8. ASSUME n <= Prependable(b) PROVE peekInt(prepend(b, d), n) = {v}
  <2>1. Content(prepend(b, d)) = d \o c
    <3> HIDE DEF d
    <3> QED
      BY <1>1, <1>8, PrependIs
  <2> HIDE DEF c
  <2> QED
    BY <1>2, <2>1, PeekIs
<1> QED
  BY <1>7, <1>8

\* Room is made.
LEMMA GoodSpace == Good(b) => SpaceIsMade
<1>1. ASSUME Good(b), NEW len \in 0..MaxLen
      PROVE  LET x == ensureWritableBytes(b, len) IN
             /\ Writable(x) >= len /\ Content(x) = Content(b)
             /\ Writable(b) < len /\ ~MustGrow(b, len) => kCheapPrepend < b.readerIndex
  <2>1. len \in Nat
    BY BufferConstants
  <2> QED
    BY <1>1, <2>1, EnsureIs
<1> QED
  BY <1>1 DEF SpaceIsMade

\* The layout alone makes the buffer correct.
LEMMA TypeOKSuffices == TypeOK => BufferInv
<1>1. TypeOK => Good(b)
  BY DEF TypeOK, Good
<1> QED
  BY <1>1, GoodSpace, GoodReadBack, GoodLineEnds DEF BufferInv

-----------------------------------------------------------------------------
(* One step per method: the layout is kept, and the queue of bytes takes the *)
(* step of the method's name                                                 *)

\* A step that installs the buffer x.
LEMMA BecomeIs ==
  ASSUME NEW x, Good(x), Become(x), taken' \in Seq(Bytes)
  PROVE  TypeOK' /\ Content(b)' = Content(x)
<1>1. b' = x
  BY DEF Become
<1>2. TypeOK'
  BY <1>1 DEF TypeOK, Good, Layout
<1>3. Content(b)' = Content(x)
  BY <1>1 DEF Content, Readable
<1> QED
  BY <1>2, <1>3

\* What the arguments of the methods are.
LEMMA StringIs ==
  ASSUME NEW d \in Strings
  PROVE  d \in Seq(Bytes) /\ d \in PutStrings
<1>1. PICK n \in 0..MaxLen : d \in [1..n -> Bytes]
  BY DEF Strings
<1>2. n \in Nat
  BY BufferConstants
<1> QED
  BY <1>1, <1>2, FunctionIsSeq DEF PutStrings

LEMMA EmptyIsString == <<>> \in PutStrings /\ <<>> \in Seq(Bytes)
<1>1. 0 \in 0..MaxLen
  BY BufferConstants
<1>2. <<>> \in [1..0 -> Bytes]
  OBVIOUS
<1>3. <<>> \in Strings
  BY <1>1, <1>2 DEF Strings
<1> QED
  BY <1>3, StringIs

LEMMA EncodedIsString ==
  ASSUME NEW n \in IntSizes, NEW v \in Ints(n)
  PROVE  hostToNetwork(v, n) \in Seq(Bytes) /\ hostToNetwork(v, n) \in PutStrings
<1>1. hostToNetwork(v, n) \in [1..n -> Bytes] /\ hostToNetwork(v, n) \in Seq(Bytes)
  BY EncodedSeq
<1> QED
  BY <1>1 DEF PutStrings

LEMMA GoodNow ==
  ASSUME TypeOK
  PROVE  Good(b) /\ taken \in Seq(Bytes) /\ (UNCHANGED taken => taken' \in Seq(Bytes))
  BY DEF TypeOK, Good

LEMMA AppendStep ==
  ASSUME TypeOK, NEW d \in Seq(Bytes), Append_(d)
  PROVE  TypeOK' /\ Queue!PutBack(d)
<1>1. Good(append(b, d)) /\ Content(append(b, d)) = Content(b) \o d
  BY GoodNow, AppendIs
<1>2. Become(append(b, d)) /\ UNCHANGED taken /\ taken' \in Seq(Bytes)
  BY GoodNow DEF Append_
<1>3. TypeOK' /\ Content(b)' = Content(append(b, d))
  BY <1>1, <1>2, BecomeIs
<1> QED
  BY <1>1, <1>2, <1>3 DEF Queue!PutBack

LEMMA HasWrittenStep ==
  ASSUME TypeOK, NEW d \in Seq(Bytes), HasWritten(d)
  PROVE  TypeOK' /\ Queue!PutBack(d)
<1> DEFINE x == hasWritten(Copy(b, b.writerIndex, d), Len(d))
<1>1. Len(d) <= Writable(b) /\ Become(x) /\ UNCHANGED taken /\ taken' \in Seq(Bytes)
  BY GoodNow DEF HasWritten
<1>2. Good(x) /\ Content(x) = Content(b) \o d
  BY <1>1, GoodNow, WrittenIs
<1> HIDE DEF x
<1>3. TypeOK' /\ Content(b)' = Content(x)
  BY <1>1, <1>2, BecomeIs
<1> QED
  BY <1>1, <1>2, <1>3 DEF Queue!PutBack

LEMMA ReadFdStep ==
  ASSUME TypeOK, NEW d \in Seq(Bytes), ReadFd(d)
  PROVE  TypeOK' /\ Queue!PutBack(d)
<1>1. Good(readFd(b, d)) /\ Content(readFd(b, d)) = Content(b) \o d
  BY GoodNow, ReadFdIs
<1>2. Become(readFd(b, d)) /\ UNCHANGED taken /\ taken' \in Seq(Bytes)
  BY GoodNow DEF ReadFd
<1>3. TypeOK' /\ Content(b)' = Content(readFd(b, d))
  BY <1>1, <1>2, BecomeIs
<1> QED
  BY <1>1, <1>2, <1>3 DEF Queue!PutBack

LEMMA PrependStep ==
  ASSUME TypeOK, NEW d \in Seq(Bytes), Prepend(d)
  PROVE  TypeOK' /\ Queue!PutFront(d)
<1>1. /\ Len(d) <= Prependable(b) /\ Become(prepend(b, d)) /\ UNCHANGED taken
      /\ taken' \in Seq(Bytes)
  BY GoodNow DEF Prepend
<1>2. Good(prepend(b, d)) /\ Content(prepend(b, d)) = d \o Content(b)
  BY <1>1, GoodNow, PrependIs
<1>3. TypeOK' /\ Content(b)' = Content(prepend(b, d))
  BY <1>1, <1>2, BecomeIs
<1> QED
  BY <1>1, <1>2, <1>3 DEF Queue!PutFront

\* The methods that only rearrange the array put nothing in.
LEMMA RearrangeStep ==
  ASSUME TypeOK, NEW x, Good(x), Content(x) = Content(b), Become(x), UNCHANGED taken
  PROVE  TypeOK' /\ Queue!PutBack(<<>>)
<1>1. taken' \in Seq(Bytes)
  BY GoodNow
<1>2. TypeOK' /\ Content(b)' = Content(b)
  BY <1>1, BecomeIs
<1>3. Content(b) \in Seq(Bytes)
  BY GoodNow, ContentIs
<1>4. \A c \in Seq(Bytes) : c = c \o <<>>
  BY ConcatEmptySeq
<1>5. Content(b) = Content(b) \o <<>>
  BY <1>3, <1>4, Zenon
<1> QED
  BY <1>2, <1>5 DEF Queue!PutBack

LEMMA EnsureStep ==
  ASSUME TypeOK, NEW n \in Nat, EnsureWritableBytes(n)
  PROVE  TypeOK' /\ Queue!PutBack(<<>>)
<1>1. Good(ensureWritableBytes(b, n)) /\ Content(ensureWritableBytes(b, n)) = Content(b)
  BY GoodNow, EnsureIs
<1>2. Become(ensureWritableBytes(b, n)) /\ UNCHANGED taken
  BY DEF EnsureWritableBytes
<1> QED
  BY <1>1, <1>2, RearrangeStep

LEMMA ShrinkStep ==
  ASSUME TypeOK, NEW n \in Nat, Shrink(n)
  PROVE  TypeOK' /\ Queue!PutBack(<<>>)
<1>1. Good(shrink(b, n)) /\ Content(shrink(b, n)) = Content(b)
  BY GoodNow, ShrinkIs
<1>2. Become(shrink(b, n)) /\ UNCHANGED taken
  BY DEF Shrink
<1> QED
  BY <1>1, <1>2, RearrangeStep

\* Every method that ends in retrieve drops that many bytes at the front.
LEMMA DropStep ==
  ASSUME TypeOK, NEW n \in Nat, n <= Readable(b), Become(retrieve(b, n)), UNCHANGED taken
  PROVE  TypeOK' /\ Queue!DropFront(n)
<1>1. taken' \in Seq(Bytes)
  BY GoodNow
<1>2. Good(retrieve(b, n)) /\ Content(retrieve(b, n)) = Queue!Rest(Content(b), n)
  BY GoodNow, RetrieveIs
<1>3. TypeOK' /\ Content(b)' = Content(retrieve(b, n))
  BY <1>1, <1>2, BecomeIs
<1> QED
  BY <1>2, <1>3 DEF Queue!DropFront

LEMMA RetrieveAllStep ==
  ASSUME TypeOK, RetrieveAll
  PROVE  Readable(b) \in Nat /\ TypeOK' /\ Queue!DropFront(Readable(b))
<1>1. Readable(b) \in Nat
  BY GoodNow, GoodTypes
<1>2. retrieve(b, Readable(b)) = retrieveAll(b)
  BY <1>1 DEF retrieve
<1>3. Become(retrieve(b, Readable(b))) /\ UNCHANGED taken
  BY <1>2 DEF RetrieveAll
<1>4. Readable(b) <= Readable(b)
  BY <1>1
<1> QED
  BY <1>1, <1>3, <1>4, DropStep

\* A search from the reader index yields NULL or an index of the readable part.
LEMMA RetrieveUntilStep ==
  ASSUME TypeOK, RetrieveUntil(findCRLF(b, b.readerIndex))
                 \/ RetrieveUntil(findEOL(b, b.readerIndex))
  PROVE  \E n \in Nat : n <= Readable(b) /\ TypeOK' /\ Queue!DropFront(n)
<1>1. /\ b.readerIndex \in Nat /\ b.writerIndex \in Nat
      /\ b.readerIndex \in b.readerIndex..b.writerIndex
      /\ Readable(b) = b.writerIndex - b.readerIndex
  BY GoodNow, GoodTypes DEF Readable
<1>2. PICK end \in {findCRLF(b, b.readerIndex), findEOL(b, b.readerIndex)} : RetrieveUntil(end)
  OBVIOUS
<1>3. end = NULL \/ end \in Nat
  <2>1. findCRLF(b, b.readerIndex) = NULL \/ findCRLF(b, b.readerIndex) \in Nat
    BY <1>1, GoodNow, FindCRLFIs
  <2>2. findEOL(b, b.readerIndex) = NULL \/ findEOL(b, b.readerIndex) \in Nat
    BY <1>1, GoodNow, FindEOLIs
  <2> QED
    BY <1>2, <2>1, <2>2
<1>4. /\ b.readerIndex <= end /\ end <= b.writerIndex
      /\ Become(retrieve(b, end - b.readerIndex)) /\ UNCHANGED taken
  BY <1>2 DEF RetrieveUntil
<1>5. end \in Nat
  BY <1>1, <1>3, <1>4 DEF NULL
<1>6. end - b.readerIndex \in Nat /\ end - b.readerIndex <= Readable(b)
  BY <1>1, <1>4, <1>5
<1>7. TypeOK' /\ Queue!DropFront(end - b.readerIndex)
  BY <1>4, <1>6, DropStep
<1> QED
  BY <1>6, <1>7

LEMMA TakeStep ==
  ASSUME TypeOK, NEW n \in Nat, RetrieveAsString(n)
  PROVE  n <= Readable(b) /\ TypeOK' /\ Queue!TakeFront(n)
<1>1. /\ n <= Readable(b) /\ Become(retrieve(b, n))
      /\ taken' = Queue!Prefix(Content(b), n)
  BY DEF RetrieveAsString, Queue!Prefix
<1>2. Content(b) \in Seq(Bytes) /\ n <= Len(Content(b))
  BY <1>1, GoodNow, ContentIs
<1>3. taken' \in Seq(Bytes)
  BY <1>1, <1>2, PrefixIs
<1>4. Good(retrieve(b, n)) /\ Content(retrieve(b, n)) = Queue!Rest(Content(b), n)
  BY <1>1, GoodNow, RetrieveIs
<1>5. TypeOK' /\ Content(b)' = Content(retrieve(b, n))
  BY <1>1, <1>3, <1>4, BecomeIs
<1> QED
  BY <1>1, <1>4, <1>5 DEF Queue!TakeFront

LEMMA UnwriteStep ==
  ASSUME TypeOK, NEW n \in Nat, Unwrite(n)
  PROVE  n <= Readable(b) /\ TypeOK' /\ Queue!DropBack(n)
<1>1. /\ n <= Readable(b) /\ Become(unwrite(b, n)) /\ UNCHANGED taken
      /\ taken' \in Seq(Bytes)
  BY GoodNow DEF Unwrite
<1>2. /\ Good(unwrite(b, n))
      /\ Content(unwrite(b, n)) = Queue!Prefix(Content(b), Readable(b) - n)
  BY <1>1, GoodNow, UnwriteIs
<1>3. TypeOK' /\ Content(b)' = Content(unwrite(b, n))
  BY <1>1, <1>2, BecomeIs
<1>4. Len(Content(b)) = Readable(b)
  BY GoodNow, ContentIs
<1> QED
  BY <1>1, <1>2, <1>3, <1>4 DEF Queue!DropBack

-----------------------------------------------------------------------------
(* The theorems *)

\* What one step does: it keeps the layout and is a step of the queue.
LEMMA NextStep ==
  ASSUME TypeOK, Next
  PROVE  TypeOK' /\ Queue!Next
<1> DEFINE c == Content(b)
<1>1. c \in Seq(Bytes) /\ Len(c) = Readable(b) /\ Readable(b) \in Nat
  BY GoodNow, ContentIs, GoodTypes
<1>2. ASSUME TypeOK', NEW d \in PutStrings, Queue!PutBack(d) \/ Queue!PutFront(d)
      PROVE  TypeOK' /\ Queue!Next
  BY <1>2 DEF Queue!Next
<1>3. ASSUME TypeOK', NEW n \in Nat, n <= Readable(b),
             Queue!DropFront(n) \/ Queue!DropBack(n) \/ Queue!TakeFront(n)
      PROVE  TypeOK' /\ Queue!Next
  <2>1. n \in 0..Len(Content(b))
    BY <1>1, <1>3
  <2> QED
    BY <1>3, <2>1 DEF Queue!Next
<1>4. \A n \in (0..MaxLen) \cup (0..MaxSize) \cup IntSizes : n \in Nat
  BY BufferConstants
<1>5. ASSUME NEW d \in Strings, Append_(d) \/ HasWritten(d) \/ Prepend(d) \/ ReadFd(d)
      PROVE  TypeOK' /\ Queue!Next
  BY <1>2, <1>5, StringIs, AppendStep, HasWrittenStep, PrependStep, ReadFdStep
<1>6. ASSUME NEW n \in 0..MaxLen, EnsureWritableBytes(n) \/ Shrink(n)
      PROVE  TypeOK' /\ Queue!Next
  BY <1>2, <1>4, <1>6, EmptyIsString, EnsureStep, ShrinkStep
<1>7. ASSUME NEW n \in 0..MaxLen, RetrieveAsString(n)
      PROVE  TypeOK' /\ Queue!Next
  BY <1>3, <1>4, <1>7, TakeStep
<1>8. ASSUME NEW n \in 0..MaxSize, Retrieve(n)
      PROVE  TypeOK' /\ Queue!Next
  BY <1>3, <1>4, <1>8, DropStep DEF Retrieve
<1>9. ASSUME NEW n \in 0..MaxSize, Unwrite(n)
      PROVE  TypeOK' /\ Queue!Next
  BY <1>3, <1>4, <1>9, UnwriteStep
<1>10. ASSUME NEW n \in IntSizes, ReadInt(n)
       PROVE  TypeOK' /\ Queue!Next
  BY <1>3, <1>4, <1>10, DropStep DEF ReadInt
<1>11. ASSUME NEW n \in IntSizes, NEW v \in Ints(n), AppendInt(v, n) \/ PrependInt(v, n)
       PROVE  TypeOK' /\ Queue!Next
  BY <1>2, <1>11, EncodedIsString, AppendStep, PrependStep DEF AppendInt, PrependInt
<1>12. ASSUME NEW end \in {findCRLF(b, b.readerIndex), findEOL(b, b.readerIndex)},
              RetrieveUntil(end)
       PROVE  TypeOK' /\ Queue!Next
  BY <1>3, <1>12, RetrieveUntilStep
<1>13. ASSUME RetrieveAll
       PROVE  TypeOK' /\ Queue!Next
  <2>1. Readable(b) <= Readable(b)
    BY <1>1
  <2> QED
    BY <1>3, <1>13, <2>1, RetrieveAllStep
<1> QED
  BY <1>5, <1>6, <1>7, <1>8, <1>9, <1>10, <1>11, <1>12, <1>13 DEF Next

\* A step that leaves b and taken alone leaves the queue alone.
LEMMA StutterStep ==
  ASSUME TypeOK, UNCHANGED vars
  PROVE  TypeOK' /\ UNCHANGED Queue!vars
<1>1. b' = b /\ taken' = taken
  BY DEF vars
<1> QED
  BY <1>1 DEF TypeOK, Layout, Queue!vars, Content, Readable

\* The initial buffer is empty.
LEMMA InitIs == Init => TypeOK /\ Queue!Init
<1> SUFFICES ASSUME Init PROVE TypeOK /\ Queue!Init
  OBVIOUS
<1>1. b = NewBuffer /\ taken = <<>>
  BY DEF Init
<1>2. Good(b) /\ Content(b) = <<>> /\ taken \in Seq(Bytes)
  BY <1>1, NewBufferIs, EmptyIsString
<1> QED
  BY <1>1, <1>2 DEF TypeOK, Good, Queue!Init

\* The indices of buffer.h stay in order and in range, whatever the methods do
\* in whatever order.
THEOREM BufferLayout == Spec => []TypeOK
<1>1. Init => TypeOK
  BY InitIs
<1>2. TypeOK /\ [Next]_vars => TypeOK'
  BY NextStep, StutterStep
<1> QED
  BY <1>1, <1>2, PTL DEF Spec

\* BufferInv, for every size of the array, every argument and every width of
\* number: ensureWritableBytes (buffer.h) makes room without touching the
\* readable bytes, numbers read back as they were put, and findCRLF and findEOL
\* agree on where lines end.
THEOREM BufferCorrect == Spec => []BufferInv
<1>1. TypeOK => BufferInv
  BY TypeOKSuffices
<1> QED
  BY <1>1, BufferLayout, PTL

\* The array with its two indices, moved, grown, shrunk and filled through
\* extrabuf (buffer.cpp), is a queue of bytes.
THEOREM BufferImplementsByteQueue == Spec => ImplementsByteQueue
<1>1. Init => Queue!Init
  BY InitIs
<1>2. TypeOK /\ [Next]_vars => [Queue!Next]_(Queue!vars)
  BY NextStep, StutterStep
<1> QED
  BY <1>1, <1>2, BufferLayout, PTL DEF Spec, ImplementsByteQueue, Queue!Spec

\* Each method of buffer.h is the operation on the queue that its name says.
THEOREM MethodsKeepContracts == Spec => MethodContracts
<1>1. ASSUME TypeOK PROVE Contracts
  <2>1. ASSUME NEW d \in Strings, Append_(d) \/ HasWritten(d) \/ ReadFd(d)
        PROVE  Queue!PutBack(d)
    BY <1>1, <2>1, StringIs, AppendStep, HasWrittenStep, ReadFdStep
  <2>2. ASSUME NEW d \in Strings, Prepend(d) PROVE Queue!PutFront(d)
    BY <1>1, <2>2, StringIs, PrependStep
  <2>3. \A n \in (0..MaxLen) \cup (0..MaxSize) : n \in Nat
    BY BufferConstants
  <2>4. ASSUME NEW n \in 0..MaxSize, Retrieve(n) PROVE Queue!DropFront(n)
    BY <1>1, <2>3, <2>4, DropStep DEF Retrieve
  <2>5. ASSUME NEW n \in 0..MaxSize, Unwrite(n) PROVE Queue!DropBack(n)
    BY <1>1, <2>3, <2>5, UnwriteStep
  <2>6. ASSUME NEW n \in 0..MaxLen, RetrieveAsString(n) PROVE Queue!TakeFront(n)
    BY <1>1, <2>3, <2>6, TakeStep
  <2>7. ASSUME NEW n \in 0..MaxLen, EnsureWritableBytes(n) \/ Shrink(n)
        PROVE  Queue!PutBack(<<>>)
    BY <1>1, <2>3, <2>7, EnsureStep, ShrinkStep
  <2> QED
    BY <2>1, <2>2, <2>4, <2>5, <2>6, <2>7 DEF Contracts
<1>2. TypeOK => [Contracts]_vars
  BY <1>1
<1> QED
  BY <1>2, BufferLayout, PTL DEF Spec, MethodContracts
=============================================================================
