------------------------------- MODULE Buffer -------------------------------
(***************************************************************************)
(* net/buffer.{h,cpp}: a growing array with a reader and a writer index.   *)
(*                                                                         *)
(*     0  <=  readerIndex  <=  writerIndex  <=  Len(buffer)                *)
(*                                                                         *)
(* A buffer is a record; the operations that change one are functions on   *)
(* such records, composed as the code composes its methods, and one action *)
(* per public method applies them to the variable b.  Index i of the C++   *)
(* vector is element i + 1 of the sequence.  Bytes outside the readable    *)
(* part keep whatever was there, as in the code.  Numbers are signed, of   *)
(* IntSizes bytes each, and stored in network order (net/endian.h).        *)
(*                                                                         *)
(* Bounds: MaxSize (length of the array), MaxLen (length of one argument). *)
(***************************************************************************)
EXTENDS Integers, Sequences

CONSTANTS
  kCheapPrepend, kInitialSize,
  kExtra,           \* sizeof(extrabuf) in readFd
  Base,             \* the number of values of a byte
  kCR, kLF,         \* kCRLF
  IntSizes, kInt16, \* sizeof(int8_t), ...; kInt16 = sizeof(int16_t)
  MaxSize, MaxLen

ASSUME BufferConstants ==
  /\ kCheapPrepend \in Nat /\ kInitialSize \in Nat /\ kExtra \in Nat
  /\ MaxSize \in Nat /\ MaxLen \in Nat
  /\ Base \in Nat \ {0, 1} /\ Base % 2 = 0
  /\ kCR \in 0..(Base - 1) /\ kLF \in 0..(Base - 1) /\ kCR # kLF
  /\ IntSizes \subseteq Nat \ {0} /\ kInt16 \in IntSizes

Bytes == 0..(Base - 1)
Zero == 0    \* what vector::resize fills with

VARIABLES
  b,       \* the buffer
  taken    \* what the last retrieveAsString returned

vars == <<b, taken>>

Readable(x) == x.writerIndex - x.readerIndex
Writable(x) == Len(x.buffer) - x.writerIndex
Prependable(x) == x.readerIndex

\* peek() .. beginWrite()
Content(x) == [i \in 1..Readable(x) |-> x.buffer[x.readerIndex + i]]

\* std::copy of d to begin() + at
Copy(x, at, d) ==
  [x EXCEPT !.buffer = [i \in 1..Len(x.buffer) |->
     IF at < i /\ i <= at + Len(d) THEN d[i - at] ELSE x.buffer[i]]]

\* vector::resize to a larger size
Resize(x, n) ==
  [x EXCEPT !.buffer = [i \in 1..n |-> IF i <= Len(x.buffer) THEN x.buffer[i] ELSE Zero]]

\* The default constructor.
NewBuffer ==
  [buffer |-> [i \in 1..(kCheapPrepend + kInitialSize) |-> Zero],
   readerIndex |-> kCheapPrepend, writerIndex |-> kCheapPrepend]

-----------------------------------------------------------------------------
(* Operations on a buffer *)

\* MUTANT of MustGrow: the reserved prefix is counted as free space.
MustGrowLate(x, len) == Writable(x) + Prependable(x) < len

\* The space that remains is not enough, even after a move.
MustGrow(x, len) == Writable(x) + Prependable(x) < len + kCheapPrepend

\* The readable part is moved down to kCheapPrepend.
MoveDown(x) ==
  [Copy(x, kCheapPrepend, Content(x)) EXCEPT
     !.readerIndex = kCheapPrepend, !.writerIndex = kCheapPrepend + Readable(x)]

makeSpace(x, len) ==
  IF MustGrow(x, len) THEN Resize(x, x.writerIndex + len) ELSE MoveDown(x)

ensureWritableBytes(x, len) ==
  IF Writable(x) < len THEN makeSpace(x, len) ELSE x

hasWritten(x, len) == [x EXCEPT !.writerIndex = @ + len]

append(x, d) ==
  LET y == ensureWritableBytes(x, Len(d)) IN
  hasWritten(Copy(y, y.writerIndex, d), Len(d))

retrieveAll(x) ==
  [x EXCEPT !.readerIndex = kCheapPrepend, !.writerIndex = kCheapPrepend]

\* MUTANT of retrieve: the reset is applied one byte early.
retrieveResetsEarly(x, len) ==
  IF len + 1 < Readable(x) THEN [x EXCEPT !.readerIndex = @ + len] ELSE retrieveAll(x)

retrieve(x, len) ==
  IF len < Readable(x) THEN [x EXCEPT !.readerIndex = @ + len] ELSE retrieveAll(x)

unwrite(x, len) == [x EXCEPT !.writerIndex = @ - len]

\* MUTANT of prepend: readerIndex_ is not moved before the copy.
prependInPlace(x, d) == Copy(x, x.readerIndex, d)

prepend(x, d) ==
  LET y == [x EXCEPT !.readerIndex = @ - Len(d)] IN Copy(y, y.readerIndex, d)

\* A new buffer takes over the contents, and is swapped in.
shrink(x, reserve) ==
  append(ensureWritableBytes(NewBuffer, Readable(x) + reserve), Content(x))

\* readv delivers d: the writable part first, the rest through extrabuf.
readFd(x, d) ==
  IF Len(d) <= Writable(x)
    THEN hasWritten(Copy(x, x.writerIndex, d), Len(d))
    ELSE LET n == Writable(x)
             full == hasWritten(Copy(x, x.writerIndex, [i \in 1..n |-> d[i]]), n)
         IN append(full, [i \in 1..(Len(d) - n) |-> d[n + i]])

-----------------------------------------------------------------------------
(* Searching and numbers *)

\* std::search and memchr: the first place p of start..writerIndex_ where d
\* begins, or writerIndex_ itself.
Search(x, start, d) ==
  LET hits == {p \in start..(x.writerIndex - Len(d)) :
                 \A i \in DOMAIN d : x.buffer[p + i] = d[i]}
  IN IF hits = {} THEN x.writerIndex ELSE CHOOSE p \in hits : \A q \in hits : p <= q

NULL == -1

findCRLF(x, start) ==
  LET crlf == Search(x, start, <<kCR, kLF>>) IN IF crlf = x.writerIndex THEN NULL ELSE crlf

findEOL(x, start) ==
  LET eol == Search(x, start, <<kLF>>) IN IF eol = x.writerIndex THEN NULL ELSE eol

\* How many values n bytes have.
Values[n \in Nat] == IF n = 0 THEN 1 ELSE Base * Values[n - 1]

\* The numbers of n bytes.
Ints(n) == -(Values[n] \div 2)..(Values[n] \div 2 - 1)

\* hostToNetworkN: the bytes of v in memory, the most significant one first.
hostToNetwork(v, n) == [i \in 1..n |-> ((v % Values[n]) \div Values[n - i]) % Base]

\* MUTANT of networkToHost: the bytes are taken in the host's order.
networkToHostUnswapped(d) ==
  LET n == Len(d)
      value[i \in 0..n] == IF i = 0 THEN 0 ELSE Base * value[i - 1] + d[n + 1 - i]
  IN IF 2 * value[n] < Values[n] THEN value[n] ELSE value[n] - Values[n]

\* networkToHostN, and the conversion of its result to a signed number.
networkToHost(d) ==
  LET n == Len(d)
      value[i \in 0..n] == IF i = 0 THEN 0 ELSE Base * value[i - 1] + d[i]
  IN IF 2 * value[n] < Values[n] THEN value[n] ELSE value[n] - Values[n]

\* What peekIntN may return; peekInt16 has no return statement.
peekInt(x, n) ==
  IF n = kInt16 THEN Ints(n) ELSE {networkToHost([i \in 1..n |-> Content(x)[i]])}

-----------------------------------------------------------------------------
(* The methods as actions; each guard is the method's assert *)

Init == b = NewBuffer /\ taken = <<>>

Become(x) == Len(x.buffer) <= MaxSize /\ b' = x

Append_(d) == Become(append(b, d)) /\ UNCHANGED taken

EnsureWritableBytes(len) == Become(ensureWritableBytes(b, len)) /\ UNCHANGED taken

\* The caller fills beginWrite() itself and then says so.
HasWritten(d) ==
  /\ Len(d) <= Writable(b)
  /\ Become(hasWritten(Copy(b, b.writerIndex, d), Len(d)))
  /\ UNCHANGED taken

Retrieve(len) == len <= Readable(b) /\ Become(retrieve(b, len)) /\ UNCHANGED taken

RetrieveAll == Become(retrieveAll(b)) /\ UNCHANGED taken

RetrieveAsString(len) ==
  /\ len <= Readable(b)
  /\ taken' = [i \in 1..len |-> Content(b)[i]]
  /\ Become(retrieve(b, len))

Unwrite(len) == len <= Readable(b) /\ Become(unwrite(b, len)) /\ UNCHANGED taken

Prepend(d) == Len(d) <= Prependable(b) /\ Become(prepend(b, d)) /\ UNCHANGED taken

Shrink(reserve) == Become(shrink(b, reserve)) /\ UNCHANGED taken

\* readv fills the writable part, and extrabuf if that part is smaller than it.
ReadFd(d) ==
  /\ Len(d) <= Writable(b) + (IF Writable(b) < kExtra THEN kExtra ELSE 0)
  /\ Become(readFd(b, d))
  /\ UNCHANGED taken

\* appendIntN, prependIntN and readIntN (peekIntN, then retrieveIntN).
AppendInt(v, n) == Append_(hostToNetwork(v, n))

PrependInt(v, n) == Prepend(hostToNetwork(v, n))

ReadInt(n) == n <= Readable(b) /\ Become(retrieve(b, n)) /\ UNCHANGED taken

\* retrieveUnitl(end), as a reader of lines uses it: end is what a search found.
RetrieveUntil(end) ==
  /\ b.readerIndex <= end /\ end <= b.writerIndex
  /\ Become(retrieve(b, end - b.readerIndex))
  /\ UNCHANGED taken

Strings == UNION {[1..n -> Bytes] : n \in 0..MaxLen}

\* What one call may put in, the bytes of numbers included.
PutStrings == Strings \cup UNION {[1..n -> Bytes] : n \in IntSizes}

Next ==
  \/ \E d \in Strings : Append_(d) \/ HasWritten(d) \/ Prepend(d) \/ ReadFd(d)
  \/ \E n \in 0..MaxLen : EnsureWritableBytes(n) \/ Shrink(n) \/ RetrieveAsString(n)
  \/ \E n \in 0..MaxSize : Retrieve(n) \/ Unwrite(n)
  \/ \E n \in IntSizes : ReadInt(n) \/ \E v \in Ints(n) : AppendInt(v, n) \/ PrependInt(v, n)
  \/ \E end \in {findCRLF(b, b.readerIndex), findEOL(b, b.readerIndex)} : RetrieveUntil(end)
  \/ RetrieveAll

Spec == Init /\ [][Next]_vars

-----------------------------------------------------------------------------
(* Properties *)

Buffers == [buffer : Seq(Bytes), readerIndex : Nat, writerIndex : Nat]

Layout(x) ==
  /\ x.readerIndex <= x.writerIndex /\ x.writerIndex <= Len(x.buffer)
  /\ kCheapPrepend <= Len(x.buffer)

\* The picture at the top of buffer.h: the indices stay in order and in range.
TypeOK == b \in Buffers /\ taken \in Seq(Bytes) /\ Layout(b)

\* ensureWritableBytes, whenever it may be called and for any length, leaves
\* enough room behind the writer index (its own assert), never runs into the
\* assert of makeSpace that there is something to move down over, and does not
\* touch the readable bytes.
SpaceIsMade ==
  \A len \in 0..MaxLen :
    LET x == ensureWritableBytes(b, len) IN
      /\ Writable(x) >= len
      /\ Content(x) = Content(b)
      /\ Writable(b) < len /\ ~MustGrow(b, len) => kCheapPrepend < b.readerIndex

\* A number put behind or in front of whatever the buffer holds reads back as
\* the number it was, sign included, once the bytes before it are retrieved;
\* for every size but that of peekInt16, whose result is undefined.
IntsReadBack ==
  \A n \in IntSizes \ {kInt16} : \A v \in Ints(n) :
    LET d == hostToNetwork(v, n) IN
      /\ peekInt(retrieve(append(b, d), Readable(b)), n) = {v}
      /\ n <= Prependable(b) => peekInt(prepend(b, d), n) = {v}

\* Wherever a search starts, a CRLF that findCRLF reports lies in the readable
\* bytes with its LF where findEOL reports one, and a search that found nothing
\* stays without result from every later start.
LineEnds ==
  \A start \in b.readerIndex..b.writerIndex :
    LET crlf == findCRLF(b, start) IN
      /\ crlf # NULL => /\ start <= crlf /\ crlf + 2 <= b.writerIndex
                        /\ findEOL(b, crlf) = crlf + 1
      /\ crlf = NULL => \A p \in start..b.writerIndex : findCRLF(b, p) = NULL

\* The layout, that every state of the array lets room be made, and that what
\* is stored can be found and read back.
BufferInv == TypeOK /\ SpaceIsMade /\ IntsReadBack /\ LineEnds

\* Whatever is appended, prepended, moved, grown, shrunk or read through
\* extrabuf, the readable bytes behave as a queue of bytes.
Queue == INSTANCE ByteQueue WITH
  content <- Content(b),
  Strings <- PutStrings
ImplementsByteQueue == Queue!Spec

\* Each method does to the queue of bytes what its name says, and those that
\* only rearrange the array leave the queue alone.
Contracts ==
  /\ \A d \in Strings : Append_(d) \/ HasWritten(d) \/ ReadFd(d) => Queue!PutBack(d)
  /\ \A d \in Strings : Prepend(d) => Queue!PutFront(d)
  /\ \A n \in 0..MaxSize : /\ Retrieve(n) => Queue!DropFront(n)
                           /\ Unwrite(n) => Queue!DropBack(n)
  /\ \A n \in 0..MaxLen : /\ RetrieveAsString(n) => Queue!TakeFront(n)
                          /\ EnsureWritableBytes(n) \/ Shrink(n) => Queue!PutBack(<<>>)
MethodContracts == [][Contracts]_vars
=============================================================================
