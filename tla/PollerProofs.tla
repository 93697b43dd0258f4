---------------------------- MODULE PollerProofs ----------------------------
(***************************************************************************)
(* Proofs about both pollers, PollPoller and EPollPoller, for any number   *)
(* of channels and descriptors and any set of events.  PollInv and         *)
(* EPollInv are not inductive: they say what the asserts read, in the      *)
(* states in which they may run.                                           *)
(*                                                                         *)
(* PollIInv adds that channels_ holds exactly the channels of the loop and *)
(* what each place asks for; that no two channels share a place follows,   *)
(* since a place names its descriptor.  EPollIInv adds what index_,        *)
(* channels_ and the kernel's list say of each other in every state.  Both *)
(* say how far the loop has come with activeChannels_.                     *)
(***************************************************************************)
EXTENDS PollPoller, EPollPoller, SequenceTheorems, TLAPS

-----------------------------------------------------------------------------
(* PollPoller *)

\* channels_ holds exactly the channels of the loop, each at its descriptor.
MapIsLife ==
  /\ \A c \in Channels : life[c] = "in" => channels[Fd[c]] = c
  /\ \A f \in Fds : channels[f] # None =>
       Fd[channels[f]] = f /\ life[channels[f]] = "in"

\* The place of each channel of the loop is its own and asks for its events; it
\* is hidden only without events, and then always unless disableAll() was the
\* first call.  Channel::Channel leaves index_ at -1.
OwnPlace ==
  \A c \in Channels :
    /\ life[c] = "new" => index[c] = -1
    /\ life[c] = "in" =>
         /\ index[c] + 1 \in DOMAIN pollfds
         /\ pollfds[index[c] + 1].ev = events[c]
         /\ \/ pollfds[index[c] + 1].fd = Fd[c] /\ (events[c] # {} \/ DisableFirst)
            \/ pollfds[index[c] + 1].fd = Hidden(Fd[c]) /\ events[c] = {}

\* Every place belongs to a channel of the loop.
NoSparePlace ==
  \A i \in DOMAIN pollfds : \E c \in Channels : life[c] = "in" /\ index[c] = i - 1

\* The inductive invariant.
PollIInv == TypeOK /\ MapIsLife /\ OwnPlace /\ NoSparePlace /\ DispatchInStep

\* enableReading .. disableAll leave a set of events in events_.
LEMMA NextEventsType ==
  ASSUME TypeOK, NEW c \in Channels, NEW ev \in NextEvents(c)
  PROVE  ev \subseteq Events
  BY DEF NextEvents, TypeOK, ChannelTypeOK

\* -fd-1 is negative, and the same formula takes it back.
LEMMA HiddenFd ==
  ASSUME NEW c \in Channels
  PROVE  /\ Fd[c] \in Nat /\ Fd[c] \in Fds
         /\ Hidden(Fd[c]) \in Int /\ Hidden(Fd[c]) < 0
         /\ Hidden(Hidden(Fd[c])) = Fd[c]
  BY ChannelConstants DEF Hidden, Fds

\* pop_back of a vector that is not empty.
LEMMA FrontOfSeq ==
  ASSUME NEW S, NEW s \in Seq(S), s # <<>>
  PROVE  /\ FrontOf(s) \in Seq(S)
         /\ Len(FrontOf(s)) = Len(s) - 1
         /\ \A i \in 1..(Len(s) - 1) : FrontOf(s)[i] = s[i]
<1> DEFINE n == Len(s) - 1
<1>1. n \in Nat /\ n <= Len(s)
  BY EmptySeq, LenProperties
<1>2. \A i \in 1..n : s[i] \in S
  BY <1>1
<1>3. SubSeq(s, 1, n) = [i \in 1..n |-> s[i]]
  BY <1>1
<1>4. SubSeq(s, 1, n) \in Seq(S) /\ Len(SubSeq(s, 1, n)) = n
  <2>1. [i \in 1..n |-> s[i]] \in [1..n -> S]
    BY <1>2
  <2> HIDE DEF n
  <2> QED
    BY <1>1, <2>1, <1>3
<1> QED
  BY <1>1, <1>3, <1>4 DEF FrontOf

\* Two channels of the loop have different descriptors and different places.
LEMMA PlacesDiffer ==
  ASSUME PollIInv, NEW c \in Channels, NEW d \in Channels,
         life[c] = "in", life[d] = "in", c # d
  PROVE  Fd[c] # Fd[d] /\ index[c] # index[d]
<1>1. Fd[c] # Fd[d]
  BY DEF PollIInv, MapIsLife
<1>2. /\ pollfds[index[c] + 1].fd \in {Fd[c], Hidden(Fd[c])}
      /\ pollfds[index[d] + 1].fd \in {Fd[d], Hidden(Fd[d])}
  BY DEF PollIInv, OwnPlace
<1>3. {Fd[c], Hidden(Fd[c])} \cap {Fd[d], Hidden(Fd[d])} = {}
  BY <1>1, ChannelConstants DEF Hidden
<1> QED
  BY <1>1, <1>2, <1>3

\* Whenever update() may be called, a channel that is not in the loop is new and
\* channels_ has nothing at its descriptor.
LEMMA OwnerOfUpdated ==
  ASSUME PollIInv, NEW c \in Channels, MayUpdate(c)
  PROVE  /\ life[c] \in {"new", "in"}
         /\ life[c] = "in" => channels[Fd[c]] = c /\ index[c] >= 0
         /\ life[c] = "new" => channels[Fd[c]] = None /\ index[c] = -1
<1>T. TypeOK /\ Fd[c] \in Fds
  BY HiddenFd DEF PollIInv
<1>1. life[c] \in {"new", "in"}
  BY <1>T DEF MayUpdate, TypeOK, ChannelTypeOK
<1>2. life[c] = "in" => channels[Fd[c]] = c
  BY DEF PollIInv, MapIsLife
<1>3. life[c] = "in" => index[c] >= 0
  <2>1. life[c] = "in" => index[c] + 1 \in 1..Len(pollfds) /\ Len(pollfds) \in Nat
    BY <1>T DEF TypeOK
  <2> QED
    BY <2>1, <1>T DEF TypeOK
<1>4. life[c] = "new" => index[c] = -1
  BY DEF PollIInv, OwnPlace
<1>5. ASSUME life[c] = "new" PROVE channels[Fd[c]] = None
  <2>1. channels[Fd[c]] # None => channels[Fd[c]] \in Channels \ {c}
    BY <1>T, <1>5 DEF PollIInv, MapIsLife, TypeOK
  <2> QED
    BY <1>T, <2>1 DEF PollIInv, MapIsLife, MayUpdate
<1> QED
  BY <1>1, <1>2, <1>3, <1>4, <1>5

\* The inductive invariant implies the asserts of updateChannel and removeChannel.
LEMMA IInvImpliesInv == PollIInv => PollInv
<1> SUFFICES ASSUME PollIInv PROVE PollInv
  OBVIOUS
<1>1. TypeOK /\ NoDanglingChannel
  BY DEF PollIInv, DispatchInStep
<1>2. PlacesAgree
  <2>1. ASSUME NEW c \in Channels, MayUpdate(c)
        PROVE  \/ index[c] < 0 /\ channels[Fd[c]] = None
               \/ /\ index[c] + 1 \in DOMAIN pollfds /\ channels[Fd[c]] = c
                  /\ pollfds[index[c] + 1].fd \in {Fd[c], Hidden(Fd[c])}
    <3>1. CASE life[c] = "in"
      BY <2>1, <3>1, OwnerOfUpdated DEF PollIInv, OwnPlace
    <3>2. CASE life[c] = "new"
      BY <2>1, <3>2, OwnerOfUpdated
    <3> QED
      BY <2>1, <3>1, <3>2, OwnerOfUpdated
  <2>2. \A i \in DOMAIN pollfds : \E c \in Channels : life[c] = "in" /\ index[c] = i - 1
    BY DEF PollIInv, NoSparePlace
  <2> QED
    BY <2>1, <2>2 DEF PlacesAgree
<1>3. RemoveAssertHolds
  <2> SUFFICES ASSUME NEW c \in Channels, MayRemove(c), ~DisableFirst
               PROVE  /\ channels[Fd[c]] = c /\ index[c] + 1 \in DOMAIN pollfds
                      /\ pollfds[index[c] + 1] = [fd |-> Hidden(Fd[c]), ev |-> {}]
    BY DEF RemoveAssertHolds
  <2>1. life[c] = "in" /\ events[c] = {}
    BY DEF MayRemove
  <2>2. channels[Fd[c]] = c
    BY <2>1 DEF PollIInv, MapIsLife
  <2>3. /\ index[c] + 1 \in DOMAIN pollfds
        /\ pollfds[index[c] + 1].fd = Hidden(Fd[c]) /\ pollfds[index[c] + 1].ev = {}
    BY <2>1 DEF PollIInv, OwnPlace
  <2>4. pollfds[index[c] + 1] \in [fd : Int, ev : SUBSET Events]
    <3> DEFINE Entry == [fd : Int, ev : SUBSET Events]
    <3>1. pollfds \in Seq(Entry)
      BY <1>1 DEF TypeOK
    <3> HIDE DEF Entry
    <3>2. pollfds[index[c] + 1] \in Entry
      BY <3>1, <2>3
    <3> QED
      BY <3>2 DEF Entry
  <2> QED
    BY <2>2, <2>3, <2>4
<1> QED
  BY <1>1, <1>2, <1>3 DEF PollInv

\* The constructors' state satisfies the invariant.
LEMMA InitIInv == Init => PollIInv
<1> SUFFICES ASSUME Init PROVE PollIInv
  OBVIOUS
<1> USE ChannelConstants DEF Init, ChannelInit
<1>1. TypeOK
  <2>1. ChannelTypeOK
    BY DEF ChannelTypeOK
  <2>3. index \in [Channels -> Int] /\ channels \in [Fds -> Channels \cup {None}]
    OBVIOUS
  <2>2. pollfds \in Seq([fd : Int, ev : SUBSET Events])
    OBVIOUS
  <2> QED
    BY <2>1, <2>2, <2>3 DEF TypeOK
<1>2. MapIsLife /\ OwnPlace /\ NoSparePlace
  BY DEF MapIsLife, OwnPlace, NoSparePlace
<1>3. DispatchInStep
  BY DEF DispatchInStep, NoDanglingChannel
<1> QED
  BY <1>1, <1>2, <1>3 DEF PollIInv

\* updateChannel preserves the invariant: a new channel gets a place of its own,
\* an old one rewrites its own place.
LEMMA UpdateIInv ==
  ASSUME PollIInv, NEW c \in Channels, NEW ev \in NextEvents(c), Update(c, ev)
  PROVE  PollIInv'
<1> DEFINE Entry == [fd : Int, ev : SUBSET Events]
<1>F. Fd[c] \in Nat /\ Fd[c] \in Fds /\ Hidden(Fd[c]) \in Int
  BY HiddenFd
<1>T. TypeOK /\ pollfds \in Seq(Entry) /\ ev \in SUBSET Events
  BY NextEventsType DEF PollIInv, TypeOK
<1>U. /\ MayUpdate(c) /\ UNCHANGED <<phase, active, todo, current, failed>>
      /\ events' = [events EXCEPT ![c] = ev] /\ life' = [life EXCEPT ![c] = "in"]
      /\ life[c] = "new" /\ ev = {} => DisableFirst
  BY DEF Update, ChannelUpdate, loopVars
<1>O. /\ life[c] \in {"new", "in"}
      /\ life[c] = "in" => channels[Fd[c]] = c /\ index[c] >= 0
      /\ life[c] = "new" => channels[Fd[c]] = None /\ index[c] = -1
  BY <1>U, OwnerOfUpdated
<1>L. /\ life'[c] = "in" /\ events'[c] = ev
      /\ \A d \in Channels \ {c} : life'[d] = life[d] /\ events'[d] = events[d]
  BY <1>T, <1>U DEF TypeOK, ChannelTypeOK
<1>1. ChannelTypeOK'
  BY <1>T, <1>U DEF TypeOK, ChannelTypeOK
<1>2. DispatchInStep'
  BY <1>T, <1>U, <1>L DEF PollIInv, DispatchInStep, NoDanglingChannel, TypeOK, ChannelTypeOK
<1>3. CASE life[c] = "new"
  <2> DEFINE new == [fd |-> Fd[c], ev |-> ev]
  <2>1. /\ pollfds' = Append(pollfds, new)
        /\ index' = [index EXCEPT ![c] = Len(pollfds)]
        /\ channels' = [channels EXCEPT ![Fd[c]] = c]
    BY <1>3, <1>O DEF Update, UpdateChannel
  <2>2. new \in Entry /\ new.fd = Fd[c] /\ new.ev = ev
    BY <1>F, <1>T
  <2> HIDE DEF Entry, new
  <2>3. /\ pollfds' \in Seq(Entry) /\ Len(pollfds) \in Nat
        /\ DOMAIN pollfds' = 1..(Len(pollfds) + 1) /\ DOMAIN pollfds = 1..Len(pollfds)
        /\ pollfds'[Len(pollfds) + 1] = new
        /\ \A i \in DOMAIN pollfds : pollfds'[i] = pollfds[i]
    BY <1>T, <2>1, <2>2
  <2>4. /\ index'[c] = Len(pollfds) /\ index' \in [Channels -> Int]
        /\ \A d \in Channels \ {c} : index'[d] = index[d]
    BY <1>T, <2>1, <2>3 DEF TypeOK
  <2>5. /\ channels' \in [Fds -> Channels \cup {None}] /\ channels'[Fd[c]] = c
        /\ \A f \in Fds \ {Fd[c]} : channels'[f] = channels[f]
    BY <1>T, <1>F, <2>1 DEF TypeOK
  <2>6. MapIsLife'
    <3>1. ASSUME NEW d \in Channels, life'[d] = "in" PROVE channels'[Fd[d]] = d
      <4>1. CASE d = c
        BY <4>1, <2>5
      <4>2. CASE d # c
        <5>1. life[d] = "in" /\ Fd[d] # Fd[c] /\ Fd[d] \in Fds
          BY <3>1, <4>2, <1>L, <1>U, HiddenFd DEF MayUpdate
        <5> QED
          BY <5>1, <2>5 DEF PollIInv, MapIsLife
      <4> QED
        BY <4>1, <4>2
    <3>2. ASSUME NEW f \in Fds, channels'[f] # None
          PROVE  Fd[channels'[f]] = f /\ life'[channels'[f]] = "in"
      <4>1. CASE f = Fd[c]
        BY <4>1, <2>5, <1>L
      <4>2. CASE f # Fd[c]
        <5>1. channels'[f] = channels[f] /\ channels[f] \in Channels /\ Fd[channels[f]] = f
              /\ life[channels[f]] = "in"
          BY <3>2, <4>2, <2>5, <1>T DEF PollIInv, MapIsLife, TypeOK
        <5>2. channels[f] # c
          BY <5>1, <4>2
        <5> QED
          BY <5>1, <5>2, <1>L
      <4> QED
        BY <4>1, <4>2
    <3> QED
      BY <3>1, <3>2 DEF MapIsLife
  <2>7. OwnPlace'
    <3>1. ASSUME NEW d \in Channels \ {c}, life[d] = "in"
          PROVE  index'[d] + 1 \in DOMAIN pollfds' /\ pollfds'[index'[d] + 1] = pollfds[index[d] + 1]
      <4>1. index[d] \in Int /\ index[d] + 1 \in DOMAIN pollfds
        BY <3>1, <1>T DEF PollIInv, OwnPlace, TypeOK
      <4> QED
        BY <4>1, <2>3, <2>4
    <3>2. /\ index'[c] + 1 \in DOMAIN pollfds' /\ pollfds'[index'[c] + 1].ev = events'[c]
          /\ pollfds'[index'[c] + 1].fd = Fd[c] /\ (events'[c] # {} \/ DisableFirst)
      BY <2>2, <2>3, <2>4, <1>L, <1>U, <1>3
    <3>3. ASSUME NEW d \in Channels \ {c}
          PROVE  /\ life'[d] = life[d] /\ index'[d] = index[d] /\ events'[d] = events[d]
      BY <2>4, <1>L
    <3> QED
      BY <3>1, <3>2, <3>3, <1>L DEF PollIInv, OwnPlace
  <2>8. NoSparePlace'
    <3> SUFFICES ASSUME NEW i \in DOMAIN pollfds'
                 PROVE  \E d \in Channels : life'[d] = "in" /\ index'[d] = i - 1
      BY DEF NoSparePlace
    <3>1. CASE i = Len(pollfds) + 1
      BY <3>1, <2>3, <2>4, <1>L
    <3>2. CASE i \in DOMAIN pollfds
      <4>1. PICK d \in Channels : life[d] = "in" /\ index[d] = i - 1
        BY <3>2 DEF PollIInv, NoSparePlace
      <4> QED
        BY <4>1, <1>3, <1>L, <2>4
    <3> QED
      BY <3>1, <3>2, <2>3
  <2>9. TypeOK'
    BY <1>1, <2>3, <2>4, <2>5, <2>7 DEF TypeOK, OwnPlace, Entry
  <2> QED
    BY <1>2, <2>6, <2>7, <2>8, <2>9 DEF PollIInv
<1>4. CASE life[c] = "in"
  <2> DEFINE new == [fd |-> IF ev = {} THEN Hidden(Fd[c]) ELSE Fd[c], ev |-> ev]
  <2>1. pollfds' = [pollfds EXCEPT ![index[c] + 1] = new] /\ UNCHANGED <<index, channels>>
    BY <1>4, <1>O, <1>T DEF Update, UpdateChannel, TypeOK
  <2>2. /\ new \in Entry /\ new.ev = ev
        /\ new.fd = IF ev = {} THEN Hidden(Fd[c]) ELSE Fd[c]
    BY <1>F, <1>T
  <2> HIDE DEF Entry, new
  <2>3. index[c] + 1 \in DOMAIN pollfds
    BY <1>4 DEF PollIInv, OwnPlace
  <2>4. /\ pollfds' \in Seq(Entry) /\ DOMAIN pollfds' = DOMAIN pollfds
        /\ pollfds'[index[c] + 1] = new
        /\ \A i \in DOMAIN pollfds : i # index[c] + 1 => pollfds'[i] = pollfds[i]
    BY <1>T, <2>1, <2>2, <2>3, ExceptSeq
  <2>5. life' = life
    BY <1>4, <1>T, <1>U DEF TypeOK, ChannelTypeOK
  <2>6. MapIsLife' /\ NoSparePlace'
    BY <2>1, <2>4, <2>5 DEF PollIInv, MapIsLife, NoSparePlace
  <2>7. OwnPlace'
    <3>1. ASSUME NEW d \in Channels \ {c}, life[d] = "in"
          PROVE  /\ index[d] + 1 \in DOMAIN pollfds
                 /\ pollfds'[index[d] + 1] = pollfds[index[d] + 1]
      <4>1. index[d] # index[c]
        BY <3>1, <1>4, PlacesDiffer
      <4>2. index[d] \in Int /\ index[c] \in Int /\ index[d] + 1 \in DOMAIN pollfds
        BY <3>1, <1>T DEF PollIInv, OwnPlace, TypeOK
      <4>3. index[d] + 1 # index[c] + 1
        BY <4>1, <4>2
      <4> QED
        BY <4>2, <4>3, <2>4
    <3>2. /\ pollfds'[index[c] + 1].ev = events'[c]
          /\ \/ pollfds'[index[c] + 1].fd = Fd[c] /\ events'[c] # {}
             \/ pollfds'[index[c] + 1].fd = Hidden(Fd[c]) /\ events'[c] = {}
      BY <2>2, <2>4, <1>L
    <3> QED
      BY <3>1, <3>2, <2>1, <2>3, <2>4, <2>5, <1>L, <1>4 DEF PollIInv, OwnPlace
  <2>8. TypeOK'
    BY <1>1, <1>T, <2>1, <2>4, <2>5 DEF TypeOK, Entry
  <2> QED
    BY <1>2, <2>6, <2>7, <2>8 DEF PollIInv
<1> QED
  BY <1>O, <1>3, <1>4

\* The channel that removeChannel moves is the one whose place is the last.
LEMMA ChannelAtEnd ==
  ASSUME PollIInv, pollfds # <<>>
  PROVE  /\ channelAtEnd \in Channels /\ life[channelAtEnd] = "in"
         /\ index[channelAtEnd] = Len(pollfds) - 1
<1>T. TypeOK
  BY DEF PollIInv
<1>1. Len(pollfds) \in DOMAIN pollfds /\ Len(pollfds) \in Nat
  BY <1>T, EmptySeq, LenProperties DEF TypeOK
<1>2. PICK e \in Channels : life[e] = "in" /\ index[e] = Len(pollfds) - 1
  BY <1>1 DEF PollIInv, NoSparePlace
<1>3. index[e] + 1 = Len(pollfds)
  BY <1>1, <1>2
<1>4. Last.fd = Fd[e] \/ Last.fd = Hidden(Fd[e])
  BY <1>2, <1>3 DEF PollIInv, OwnPlace, Last
<1>5. (IF Last.fd < 0 THEN Hidden(Last.fd) ELSE Last.fd) = Fd[e]
  BY <1>4, HiddenFd
<1>6. channelAtEnd = e
  BY <1>2, <1>5 DEF PollIInv, MapIsLife, channelAtEnd
<1> QED
  BY <1>2, <1>6

\* removeChannel preserves the invariant: the channel at the end, if it is
\* another one, is told that it moved into the gap.
LEMMA RemoveIInv ==
  ASSUME PollIInv, NEW c \in Channels, Remove(c)
  PROVE  PollIInv'
<1> DEFINE Entry == [fd : Int, ev : SUBSET Events]
           e == channelAtEnd
           n == Len(pollfds)
<1>T. TypeOK /\ pollfds \in Seq(Entry)
  BY DEF PollIInv, TypeOK
<1>F. Fd[c] \in Fds
  BY HiddenFd
<1>R. /\ life[c] = "in" /\ events[c] = {} /\ RemovalIsSafe(c)
      /\ life' = [life EXCEPT ![c] = "removed"]
      /\ UNCHANGED <<events, phase, active, todo, current, failed>>
      /\ channels' = [channels EXCEPT ![Fd[c]] = None]
  BY DEF Remove, ChannelRemove, MayRemove, RemoveChannel, loopVars
<1>L. /\ life'[c] = "removed" /\ \A d \in Channels \ {c} : life'[d] = life[d]
      /\ \A d \in Channels : life'[d] # "removed" => d # c
  BY <1>R, <1>T DEF TypeOK, ChannelTypeOK
<1>C. /\ channels' \in [Fds -> Channels \cup {None}] /\ channels'[Fd[c]] = None
      /\ \A f \in Fds \ {Fd[c]} : channels'[f] = channels[f]
  BY <1>R, <1>T, <1>F DEF TypeOK
<1> HIDE DEF Entry
<1>I. /\ \A d \in Channels : index[d] \in Int
      /\ index[c] + 1 \in DOMAIN pollfds /\ n \in Nat /\ DOMAIN pollfds = 1..n
      /\ pollfds # <<>> /\ index[c] \in 0..(n - 1)
  <2>1. index[c] + 1 \in DOMAIN pollfds /\ \A d \in Channels : index[d] \in Int
    BY <1>R, <1>T DEF PollIInv, OwnPlace, TypeOK
  <2>2. n \in Nat /\ DOMAIN pollfds = 1..n /\ pollfds # <<>>
    BY <1>T, <2>1
  <2> QED
    BY <2>1, <2>2
<1>E. e \in Channels /\ life[e] = "in" /\ index[e] = n - 1
  BY <1>I, ChannelAtEnd
<1>1. ChannelTypeOK'
  BY <1>R, <1>T DEF TypeOK, ChannelTypeOK
<1>2. DispatchInStep'
  <2>1. c \notin todo
    BY <1>R, <1>T DEF PollIInv, DispatchInStep, RemovalIsSafe, TypeOK, ChannelTypeOK
  <2> QED
    BY <2>1, <1>R, <1>L, <1>T DEF PollIInv, DispatchInStep, NoDanglingChannel, TypeOK,
       ChannelTypeOK
<1>3. MapIsLife'
  <2>1. ASSUME NEW d \in Channels, life'[d] = "in" PROVE channels'[Fd[d]] = d
    <3>1. d # c /\ life[d] = "in" /\ Fd[d] \in Fds
      BY <2>1, <1>L, HiddenFd
    <3>2. Fd[d] # Fd[c]
      BY <3>1, <1>R, PlacesDiffer
    <3> QED
      BY <3>1, <3>2, <1>C DEF PollIInv, MapIsLife
  <2>2. ASSUME NEW f \in Fds, channels'[f] # None
        PROVE  Fd[channels'[f]] = f /\ life'[channels'[f]] = "in"
    <3>1. f # Fd[c] /\ channels'[f] = channels[f]
      BY <2>2, <1>C
    <3>2. channels[f] \in Channels /\ Fd[channels[f]] = f /\ life[channels[f]] = "in"
      BY <2>2, <3>1, <1>T DEF PollIInv, MapIsLife, TypeOK
    <3> QED
      BY <3>1, <3>2, <1>L
  <2> QED
    BY <2>1, <2>2 DEF MapIsLife
\* Both ways of removing leave the same picture: the place of each channel that
\* stays is the old one, but for the channel at the end, which has c's.
<1>4. /\ pollfds' \in Seq(Entry) /\ Len(pollfds') = n - 1 /\ DOMAIN pollfds' = 1..(n - 1)
      /\ index' \in [Channels -> Int]
      /\ \A d \in Channels \ {c} :
           /\ index'[d] = IF d = e THEN index[c] ELSE index[d]
           /\ life[d] = "in" => /\ index'[d] + 1 \in 1..(n - 1)
                               /\ pollfds'[index'[d] + 1] = pollfds[index[d] + 1]
  <2>D. \A d \in Channels \ {c} : life[d] = "in" =>
          index[d] # index[c] /\ index[d] \in 0..(n - 1)
    <3> SUFFICES ASSUME NEW d \in Channels \ {c}, life[d] = "in"
                 PROVE  index[d] # index[c] /\ index[d] \in 0..(n - 1)
      OBVIOUS
    <3>1. index[d] # index[c]
      BY <1>R, PlacesDiffer
    <3>2. index[d] + 1 \in 1..n
      BY <1>I DEF PollIInv, OwnPlace
    <3> QED
      BY <3>1, <3>2, <1>I
  <2>1. CASE index[c] = n - 1
    <3>1. pollfds' = FrontOf(pollfds) /\ index' = index
      BY <2>1, <1>I DEF Remove, RemoveChannel
    <3>2. e = c
      BY <2>1, <1>E, <1>R, PlacesDiffer
    <3>3. /\ pollfds' \in Seq(Entry) /\ Len(pollfds') = n - 1
          /\ \A i \in 1..(n - 1) : pollfds'[i] = pollfds[i]
      BY <3>1, <1>T, <1>I, FrontOfSeq
    <3>4. \A d \in Channels \ {c} : life[d] = "in" => index[d] + 1 \in 1..(n - 1)
      BY <2>1, <2>D, <1>I
    <3>5. DOMAIN pollfds' = 1..(n - 1)
      BY <3>3, LenProperties
    <3>6. index' \in [Channels -> Int]
      BY <3>1, <1>T DEF TypeOK
    <3> HIDE DEF e, n
    <3> QED
      BY <3>1, <3>2, <3>3, <3>4, <3>5, <3>6
  <2>2. CASE index[c] # n - 1
    <3> DEFINE moved == [pollfds EXCEPT ![index[c] + 1] = Last]
    <3>1. pollfds' = FrontOf(moved) /\ index' = [index EXCEPT ![e] = index[c]]
      BY <2>2, <1>I DEF Remove, RemoveChannel
    <3>2. Last \in Entry /\ Last = pollfds[n]
      BY <1>T, <1>I DEF Last
    <3>3. /\ moved \in Seq(Entry) /\ Len(moved) = n /\ moved # <<>>
          /\ moved[index[c] + 1] = Last
          /\ \A i \in 1..n : i # index[c] + 1 => moved[i] = pollfds[i]
      BY <3>2, <1>T, <1>I, ExceptSeq
    <3> HIDE DEF moved
    <3>4. /\ pollfds' \in Seq(Entry) /\ Len(pollfds') = n - 1
          /\ \A i \in 1..(n - 1) : pollfds'[i] = moved[i]
      BY <3>1, <3>3, FrontOfSeq
    <3>5. DOMAIN pollfds' = 1..(n - 1)
      BY <3>4, LenProperties
    <3>6. /\ index' \in [Channels -> Int] /\ e # c
          /\ \A d \in Channels : index'[d] = IF d = e THEN index[c] ELSE index[d]
      BY <3>1, <1>T, <1>I, <1>E, <2>2 DEF TypeOK
    <3>7. ASSUME NEW d \in Channels \ {c}, life[d] = "in"
          PROVE  /\ index'[d] + 1 \in 1..(n - 1)
                 /\ pollfds'[index'[d] + 1] = pollfds[index[d] + 1]
      <4>1. CASE d = e
        <5>1. index'[d] = index[c] /\ index[c] + 1 \in 1..(n - 1)
          BY <4>1, <3>6, <2>2, <1>I
        <5>2. pollfds'[index[c] + 1] = pollfds[n] /\ index[d] + 1 = n
          BY <5>1, <4>1, <3>2, <3>3, <3>4, <1>E, <1>I
        <5> QED
          BY <5>1, <5>2
      <4>2. CASE d # e
        <5>1. index[d] # index[c] /\ index[d] # n - 1 /\ index[d] \in 0..(n - 1)
          BY <3>7, <4>2, <2>D, <1>E, PlacesDiffer
        <5>2. index'[d] = index[d] /\ index[d] + 1 \in 1..(n - 1) /\ index[d] + 1 # index[c] + 1
          BY <5>1, <4>2, <3>6, <1>I
        <5>3. pollfds'[index[d] + 1] = moved[index[d] + 1]
          BY <5>2, <3>4
        <5>4. moved[index[d] + 1] = pollfds[index[d] + 1]
          BY <5>2, <3>3, <1>I
        <5> QED
          BY <5>2, <5>3, <5>4
      <4> QED
        BY <4>1, <4>2
    <3> HIDE DEF e, n
    <3> QED
      BY <3>4, <3>5, <3>6, <3>7
  <2> QED
    BY <2>1, <2>2
<1> HIDE DEF e, n
<1>5. OwnPlace'
  <2> SUFFICES ASSUME NEW d \in Channels, life'[d] # "removed"
               PROVE  /\ life'[d] = "new" => index'[d] = -1
                      /\ life'[d] = "in" =>
                           /\ index'[d] + 1 \in DOMAIN pollfds'
                           /\ pollfds'[index'[d] + 1].ev = events'[d]
                           /\ \/ pollfds'[index'[d] + 1].fd = Fd[d] /\ (events'[d] # {} \/ DisableFirst)
                              \/ pollfds'[index'[d] + 1].fd = Hidden(Fd[d]) /\ events'[d] = {}
    BY DEF OwnPlace
  <2>1. d # c /\ life'[d] = life[d] /\ events'[d] = events[d]
    BY <1>L, <1>R
  <2>2. CASE life[d] = "in"
    BY <2>1, <2>2, <1>4 DEF PollIInv, OwnPlace
  <2>3. CASE life[d] = "new"
    BY <2>1, <2>3, <1>4, <1>E DEF PollIInv, OwnPlace
  <2> QED
    BY <2>1, <2>2, <2>3
<1>6. NoSparePlace'
  <2> SUFFICES ASSUME NEW i \in 1..(n - 1)
               PROVE  \E d \in Channels : life'[d] = "in" /\ index'[d] = i - 1
    BY <1>4 DEF NoSparePlace
  <2>1. CASE i = index[c] + 1
    <3>1. e # c /\ index'[e] = index[c]
      BY <2>1, <1>4, <1>E, <1>I
    <3> QED
      BY <2>1, <3>1, <1>E, <1>L, <1>I
  <2>2. CASE i # index[c] + 1
    <3>1. PICK d \in Channels : life[d] = "in" /\ index[d] = i - 1
      <4>1. i \in DOMAIN pollfds
        BY <1>I
      <4> QED
        BY <4>1 DEF PollIInv, NoSparePlace
    <3>2. d # c /\ d # e
      BY <2>2, <3>1, <1>E, <1>I
    <3> QED
      BY <3>1, <3>2, <1>4, <1>L
  <2> QED
    BY <2>1, <2>2
<1>7. TypeOK'
  <2>1. \A d \in Channels : life'[d] = "in" => index'[d] + 1 \in DOMAIN pollfds'
    BY <1>5 DEF OwnPlace
  <2> QED
    BY <2>1, <1>1, <1>4, <1>C DEF TypeOK, Entry
<1> QED
  BY <1>2, <1>3, <1>5, <1>6, <1>7 DEF PollIInv

\* Every step preserves the invariant.
LEMMA NextIInv == PollIInv /\ [Next]_vars => PollIInv'
<1> SUFFICES ASSUME PollIInv, [Next]_vars PROVE PollIInv'
  OBVIOUS
<1> USE ChannelConstants DEF loopVars, tables
<1>T. TypeOK
  BY DEF PollIInv
<1>P. ASSUME UNCHANGED <<events, life, tables>>, ChannelTypeOK', DispatchInStep'
      PROVE  PollIInv'
  BY <1>P DEF PollIInv, TypeOK, MapIsLife, OwnPlace, NoSparePlace
<1>1. ASSUME NEW c \in Channels, Dispatch(c), UNCHANGED tables PROVE PollIInv'
  <2>1. ChannelTypeOK'
    BY <1>1, <1>T DEF Dispatch, TypeOK, ChannelTypeOK
  <2>2. DispatchInStep'
    BY <1>1, <1>T DEF Dispatch, PollIInv, DispatchInStep, NoDanglingChannel
  <2> QED
    BY <1>1, <1>P, <2>1, <2>2 DEF Dispatch
<1>2. ASSUME NEW c \in Channels, ChannelRemoveAborts(c), UNCHANGED tables PROVE PollIInv'
  <2>1. ChannelTypeOK' /\ DispatchInStep'
    BY <1>2, <1>T DEF ChannelRemoveAborts, PollIInv, DispatchInStep, NoDanglingChannel,
      TypeOK, ChannelTypeOK
  <2> QED
    BY <1>2, <1>P, <2>1 DEF ChannelRemoveAborts
<1>3. CASE HandlerReturns /\ UNCHANGED tables
  <2>1. ChannelTypeOK' /\ DispatchInStep'
    BY <1>3, <1>T DEF HandlerReturns, PollIInv, DispatchInStep, NoDanglingChannel,
      TypeOK, ChannelTypeOK
  <2> QED
    BY <1>3, <1>P, <2>1 DEF HandlerReturns
<1>4. CASE EndHandling /\ UNCHANGED tables
  <2>1. ChannelTypeOK' /\ DispatchInStep'
    BY <1>4, <1>T DEF EndHandling, PollIInv, DispatchInStep, NoDanglingChannel,
      TypeOK, ChannelTypeOK
  <2> QED
    BY <1>4, <1>P, <2>1 DEF EndHandling
<1>5. ASSUME NEW is \in SUBSET DOMAIN pollfds, Poll(is) PROVE PollIInv'
  <2>1. \A i \in is : /\ channels[pollfds[i].fd] \in Channels
                      /\ life[channels[pollfds[i].fd]] = "in"
    <3> SUFFICES ASSUME NEW i \in is
                 PROVE  /\ channels[pollfds[i].fd] \in Channels
                        /\ life[channels[pollfds[i].fd]] = "in"
      OBVIOUS
    <3>1. pollfds[i].fd >= 0 /\ i \in DOMAIN pollfds /\ i \in Int
      BY <1>5, <1>T DEF Poll, Polled, TypeOK
    <3>2. PICK c \in Channels : life[c] = "in" /\ index[c] = i - 1
      BY <3>1 DEF PollIInv, NoSparePlace
    <3>3. index[c] + 1 = i
      BY <3>1, <3>2
    <3>4. pollfds[i].fd = Fd[c]
      BY <3>1, <3>2, <3>3, HiddenFd DEF PollIInv, OwnPlace
    <3> QED
      BY <3>2, <3>4 DEF PollIInv, MapIsLife
  <2>2. ChannelTypeOK'
    BY <1>5, <2>1, <1>T DEF Poll, ChannelPoll, TypeOK, ChannelTypeOK
  <2>3. DispatchInStep'
    BY <1>5, <2>1 DEF Poll, ChannelPoll, PollIInv, DispatchInStep, NoDanglingChannel
  <2> QED
    BY <1>5, <1>P, <2>2, <2>3 DEF Poll, ChannelPoll
<1>6. ASSUME NEW c \in Channels, Remove(c) PROVE PollIInv'
  BY <1>6, RemoveIInv
<1>7. ASSUME NEW c \in Channels, Construct(c) PROVE PollIInv'
  <2>1. /\ \A d \in Channels : life'[d] = "in" <=> life[d] = "in"
        /\ \A d \in Channels \ {c} : life'[d] = life[d] /\ index'[d] = index[d]
        /\ index'[c] = -1 /\ life'[c] = "new" /\ life[c] = "removed"
        /\ index' \in [Channels -> Int]
        /\ UNCHANGED <<channels, pollfds, events, phase, active, todo, current, failed>>
    BY <1>7, <1>T DEF Construct, ChannelConstruct, TypeOK, ChannelTypeOK
  <2>2. ChannelTypeOK'
    BY <1>7, <1>T DEF Construct, ChannelConstruct, TypeOK, ChannelTypeOK
  <2>3. MapIsLife'
    BY <2>1, <1>T DEF PollIInv, MapIsLife, TypeOK
  <2>4. OwnPlace'
    BY <2>1 DEF PollIInv, OwnPlace
  <2>5. NoSparePlace'
    <3> SUFFICES ASSUME NEW i \in DOMAIN pollfds
                 PROVE  \E d \in Channels : life'[d] = "in" /\ index'[d] = i - 1
      BY <2>1 DEF NoSparePlace
    <3>1. PICK d \in Channels : life[d] = "in" /\ index[d] = i - 1
      BY DEF PollIInv, NoSparePlace
    <3> QED
      BY <3>1, <2>1
  <2>6. TypeOK'
    BY <2>1, <2>2, <2>4, <1>T DEF TypeOK, OwnPlace
  <2>7. DispatchInStep'
    BY <2>1, <1>T DEF PollIInv, DispatchInStep, NoDanglingChannel, TypeOK, ChannelTypeOK
  <2> QED
    BY <2>3, <2>4, <2>5, <2>6, <2>7 DEF PollIInv
<1>8. ASSUME NEW c \in Channels, NEW ev \in NextEvents(c), Update(c, ev) PROVE PollIInv'
  BY <1>8, UpdateIInv
<1>9. CASE UNCHANGED vars
  BY <1>9, <1>P, <1>T DEF vars, PollIInv, TypeOK, ChannelTypeOK, DispatchInStep,
    NoDanglingChannel
<1> QED
  BY <1>1, <1>2, <1>3, <1>4, <1>5, <1>6, <1>7, <1>8, <1>9 DEF Next, LoopStep

\* The inductive invariant holds of every reachable state.
THEOREM PollIInvHolds == Spec => []PollIInv
  BY InitIInv, NextIInv, PTL DEF Spec

\* index_, channels_ and pollfds_ agree whenever an assert of the poller compares
\* them, however often removeChannel moved the last place into a gap, and the
\* loop dispatches no removed channel.
THEOREM PollCorrect == Spec => []PollInv
  BY PollIInvHolds, IInvImpliesInv, PTL

-----------------------------------------------------------------------------
\* poll(2) is asked for the events of the channel that channels_ has at a
\* descriptor, and for nothing at a descriptor without a channel.
AskedAgrees ==
  \A f \in Fds : Asked(f) = IF channels[f] = None THEN {} ELSE events[channels[f]]

\* The inductive invariant implies it.
LEMMA AskedIsEvents == PollIInv => AskedAgrees
<1> SUFFICES ASSUME PollIInv, NEW f \in Fds
             PROVE  Asked(f) = IF channels[f] = None THEN {} ELSE events[channels[f]]
  BY DEF AskedAgrees
<1>T. TypeOK
  BY DEF PollIInv
<1>1. ASSUME NEW j \in DOMAIN pollfds, pollfds[j].fd = f
      PROVE  channels[f] \in Channels /\ index[channels[f]] + 1 = j
  <2>1. PICK c \in Channels : life[c] = "in" /\ index[c] = j - 1
    BY DEF PollIInv, NoSparePlace
  <2>2. j \in Int /\ index[c] + 1 = j
    BY <2>1, <1>T DEF TypeOK
  <2>3. f \in Nat
    BY ChannelConstants DEF Fds
  <2>4. Fd[c] = f
    BY <1>1, <2>1, <2>2, <2>3, HiddenFd DEF PollIInv, OwnPlace
  <2> QED
    BY <2>1, <2>2, <2>4 DEF PollIInv, MapIsLife
<1>2. CASE channels[f] = None
  BY <1>1, <1>2, ChannelConstants DEF Asked
<1>3. CASE channels[f] # None
  <2> DEFINE c == channels[f]
             i == index[c] + 1
  <2>1. c \in Channels /\ Fd[c] = f /\ life[c] = "in"
    BY <1>3, <1>T DEF PollIInv, MapIsLife, TypeOK
  <2>2. /\ i \in DOMAIN pollfds /\ pollfds[i].ev = events[c]
        /\ pollfds[i].fd = f \/ events[c] = {}
    BY <2>1 DEF PollIInv, OwnPlace
  <2>3. {j \in DOMAIN pollfds : pollfds[j].fd = f} \subseteq {i}
    BY <1>1
  <2> HIDE DEF c, i
  <2>4. Asked(f) = events[c]
    <3>1. CASE pollfds[i].fd = f
      <4>1. {j \in DOMAIN pollfds : pollfds[j].fd = f} = {i}
        BY <2>2, <2>3, <3>1
      <4> QED
        BY <4>1, <2>2 DEF Asked
    <3>2. CASE events[c] = {}
      BY <2>2, <2>3, <3>2 DEF Asked
    <3> QED
      BY <2>2, <3>1, <3>2
  <2> QED
    BY <1>3, <2>4 DEF c
<1> QED
  BY <1>2, <1>3

\* The first state of the poller is one of the specification Poller.
LEMMA RefinesInit == Init => Abstract!Init
<1> SUFFICES ASSUME Init PROVE Abstract!Init
  OBVIOUS
<1>1. \A f \in Fds : Asked(f) = {}
  BY DEF Init, Asked
<1> QED
  BY <1>1 DEF Init, ChannelInit, Abstract!Init, Abstract!Fds, Fds

\* updateChannel is the Update of Poller, for a new place and for an old one.
LEMMA RefinesUpdate ==
  ASSUME PollIInv, NEW c \in Channels, NEW ev \in NextEvents(c), Update(c, ev)
  PROVE  Abstract!Update(c, ev)
<1>T. TypeOK /\ PollIInv' /\ Fd[c] \in Fds
  BY UpdateIInv, HiddenFd DEF PollIInv
<1>O. /\ channels[Fd[c]] \in {None, c}
      /\ channels' = [channels EXCEPT ![Fd[c]] = c]
      /\ events' = [events EXCEPT ![c] = ev]
  <2>1. MayUpdate(c) /\ events' = [events EXCEPT ![c] = ev]
    BY DEF Update, ChannelUpdate
  <2>2. channels[Fd[c]] \in {None, c}
    BY <2>1, OwnerOfUpdated
  <2>3. CASE life[c] = "new"
    BY <2>1, <2>2, <2>3, OwnerOfUpdated DEF Update, UpdateChannel
  <2>4. CASE life[c] = "in"
    <3>1. channels' = channels /\ channels[Fd[c]] = c
      BY <2>1, <2>4, OwnerOfUpdated, <1>T DEF Update, UpdateChannel, TypeOK
    <3> QED
      BY <2>1, <2>2, <3>1, <1>T DEF TypeOK
  <2> QED
    BY <2>1, <2>3, <2>4, OwnerOfUpdated
<1>1. \A f \in Fds : Asked(f) = IF channels[f] = None THEN {} ELSE events[channels[f]]
  BY AskedIsEvents DEF AskedAgrees
<1>2. \A f \in Fds : Asked(f)' = IF channels'[f] = None THEN {} ELSE events'[channels'[f]]
  <2>1. AskedAgrees'
    BY AskedIsEvents, <1>T, PTL
  <2> QED
    BY <2>1 DEF AskedAgrees
<1>3. Asked(Fd[c])' = ev
  BY <1>2, <1>O, <1>T, ChannelConstants DEF TypeOK, ChannelTypeOK
<1>4. ASSUME NEW f \in Fds, f # Fd[c] PROVE Asked(f)' = Asked(f)
  <2>1. channels'[f] = channels[f] /\ (channels[f] # None => channels[f] \in Channels \ {c})
    BY <1>4, <1>O, <1>T DEF PollIInv, MapIsLife, TypeOK
  <2>2. channels[f] # None => events'[channels[f]] = events[channels[f]]
    BY <2>1, <1>O, <1>T DEF TypeOK, ChannelTypeOK
  <2> QED
    BY <1>1, <1>2, <2>1, <2>2
<1>5. [f \in Fds |-> Asked(f)]' = [[f \in Fds |-> Asked(f)] EXCEPT ![Fd[c]] = ev]
  BY <1>3, <1>4, <1>T
<1> QED
  BY <1>O, <1>5 DEF Abstract!Update

\* removeChannel is the Remove of Poller: the channel had no events left, and the
\* place that moved asks for what it asked for before.
LEMMA RefinesRemove ==
  ASSUME PollIInv, NEW c \in Channels, Remove(c)
  PROVE  Abstract!Remove(c)
<1>T. TypeOK /\ PollIInv' /\ Fd[c] \in Fds
  BY RemoveIInv, HiddenFd DEF PollIInv
<1>O. /\ channels[Fd[c]] = c /\ events[c] = {} /\ events' = events
      /\ channels' = [channels EXCEPT ![Fd[c]] = None]
  BY DEF Remove, ChannelRemove, MayRemove, RemoveChannel, PollIInv, MapIsLife
<1>1. \A f \in Fds : Asked(f) = IF channels[f] = None THEN {} ELSE events[channels[f]]
  BY AskedIsEvents DEF AskedAgrees
<1>2. \A f \in Fds : Asked(f)' = IF channels'[f] = None THEN {} ELSE events'[channels'[f]]
  <2>1. AskedAgrees'
    BY AskedIsEvents, <1>T, PTL
  <2> QED
    BY <2>1 DEF AskedAgrees
<1>3. \A f \in Fds : Asked(f)' = Asked(f)
  BY <1>1, <1>2, <1>O, <1>T, ZenonT(60) DEF TypeOK
<1>4. Asked(Fd[c]) = {}
  BY <1>1, <1>O, <1>T
<1>5. [f \in Fds |-> Asked(f)]' = [f \in Fds |-> Asked(f)]
  BY <1>3
<1> QED
  BY <1>O, <1>4, <1>5, <1>T DEF Abstract!Remove

\* Every step of the poller is a step of Poller or leaves its state alone.
LEMMA RefinesNext == PollIInv /\ [Next]_vars => [Abstract!Next]_(Abstract!vars)
<1> SUFFICES ASSUME PollIInv, [Next]_vars PROVE [Abstract!Next]_(Abstract!vars)
  OBVIOUS
<1>S. ASSUME UNCHANGED <<events, channels, pollfds>> PROVE UNCHANGED Abstract!vars
  BY <1>S DEF Abstract!vars, Asked
<1>1. CASE LoopStep
  BY <1>1, <1>S DEF LoopStep, Dispatch, ChannelRemoveAborts, HandlerReturns, EndHandling,
     tables
<1>2. ASSUME NEW is \in SUBSET DOMAIN pollfds, Poll(is) PROVE UNCHANGED Abstract!vars
  BY <1>2, <1>S DEF Poll, ChannelPoll, tables
<1>3. ASSUME NEW c \in Channels, Remove(c) PROVE Abstract!Next
  BY <1>3, RefinesRemove DEF Abstract!Next
<1>4. ASSUME NEW c \in Channels, Construct(c) PROVE UNCHANGED Abstract!vars
  BY <1>4, <1>S DEF Construct, ChannelConstruct
<1>5. ASSUME NEW c \in Channels, NEW ev \in NextEvents(c), Update(c, ev) PROVE Abstract!Next
  <2>1. ev \in SUBSET Events
    BY NextEventsType DEF PollIInv
  <2> QED
    BY <1>5, <2>1, RefinesUpdate DEF Abstract!Next
<1>6. CASE UNCHANGED vars
  BY <1>6, <1>S DEF vars, tables
<1> QED
  BY <1>1, <1>2, <1>3, <1>4, <1>5, <1>6 DEF Next

\* PollPoller keeps the same promise as EPollPoller: poll(2) watches each
\* descriptor for what its channel asked for last.
THEOREM PollImplementsPoller == Spec => ImplementsPoller
<1>1. Init => Abstract!Init
  BY RefinesInit
<1>2. PollIInv /\ [Next]_vars => [Abstract!Next]_(Abstract!vars)
  BY RefinesNext
<1> QED
  BY <1>1, <1>2, PollIInvHolds, PTL DEF Spec, ImplementsPoller, Abstract!Spec

-----------------------------------------------------------------------------
(* EPollPoller *)

\* index_ is kNew outside addedToLoop_, and a channel that is not in the
\* kernel's list has no events left.
IndexFollowsLife ==
  \A c \in Channels :
    /\ index[c] = kNew <=> life[c] # "in"
    /\ index[c] # kAdded => events[c] = {}

\* The kernel's entry of a descriptor follows from channels_ and index_.
KernelIsMap ==
  \A f \in Fds :
    kernel[f] = IF channels[f] # None /\ index[channels[f]] = kAdded
                THEN [ch |-> channels[f], ev |-> events[channels[f]]]
                ELSE Absent

\* The inductive invariant.
EPollIInv ==
  EPollTypeOK /\ IndexFollowsLife /\ MapIsLife /\ KernelIsMap /\ DispatchInStep

USE DEF kNew, kAdded, kDeleted, Absent

\* enableReading .. disableAll leave a set of events in events_.
LEMMA EPollNextEventsType ==
  ASSUME EPollTypeOK, NEW c \in Channels, NEW ev \in NextEvents(c)
  PROVE  ev \subseteq Events
  BY DEF NextEvents, EPollTypeOK, ChannelTypeOK

\* Whenever update() may be called, channels_ has at the channel's descriptor
\* what index_ says: nothing for a new channel, else the channel itself.
LEMMA EPollOwnerOfUpdated ==
  ASSUME EPollIInv, NEW c \in Channels, MayUpdate(c)
  PROVE  channels[Fd[c]] = IF index[c] = kNew THEN None ELSE c
<1>1. Fd[c] \in Fds
  BY DEF Fds
<1>2. CASE life[c] = "in"
  BY <1>2 DEF EPollIInv, IndexFollowsLife, MapIsLife
<1>3. CASE life[c] # "in"
  <2>1. channels[Fd[c]] \in Channels \cup {None}
    BY <1>1 DEF EPollIInv, EPollTypeOK
  <2>2. channels[Fd[c]] # None => channels[Fd[c]] \in Channels \ {c}
    BY <1>1, <1>3, <2>1 DEF EPollIInv, MapIsLife
  <2>3. channels[Fd[c]] = None
    BY <1>1, <2>2 DEF EPollIInv, MapIsLife, MayUpdate
  <2> QED
    BY <1>3, <2>3 DEF EPollIInv, IndexFollowsLife
<1> QED
  BY <1>2, <1>3

\* The two forms of an entry of the kernel's list.
LEMMA EntryOfChannel ==
  ASSUME EPollIInv, NEW f \in Fds
  PROVE  /\ channels[f] # None /\ index[channels[f]] = kAdded =>
              kernel[f].ch = channels[f] /\ kernel[f].ev = events[channels[f]]
         /\ ~(channels[f] # None /\ index[channels[f]] = kAdded) =>
              kernel[f] = Absent /\ kernel[f].ev = {}
<1>1. CASE channels[f] # None /\ index[channels[f]] = kAdded
  <2>1. kernel[f] = [ch |-> channels[f], ev |-> events[channels[f]]]
    BY <1>1 DEF EPollIInv, KernelIsMap
  <2> QED
    BY <1>1, <2>1
<1>2. CASE ~(channels[f] # None /\ index[channels[f]] = kAdded)
  <2>1. kernel[f] = Absent
    BY <1>2 DEF EPollIInv, KernelIsMap
  <2> QED
    BY <1>2, <2>1
<1> QED
  BY <1>1, <1>2

\* The inductive invariant implies the asserts of updateChannel, removeChannel
\* and fillActiveChannels.
LEMMA EPollIInvImpliesInv == EPollIInv => EPollInv
<1> SUFFICES ASSUME EPollIInv PROVE EPollInv
  OBVIOUS
<1>1. EPollTypeOK /\ NoDanglingChannel
  BY DEF EPollIInv, DispatchInStep
<1>2. TablesAgree
  <2> SUFFICES ASSUME NEW c \in Channels
               PROVE  /\ MayUpdate(c) => channels[Fd[c]] = IF index[c] = kNew THEN None ELSE c
                      /\ MayRemove(c) => channels[Fd[c]] = c /\ index[c] \in {kAdded, kDeleted}
    BY DEF TablesAgree
  <2>1. MayUpdate(c) => channels[Fd[c]] = IF index[c] = kNew THEN None ELSE c
    BY EPollOwnerOfUpdated
  <2>2. MayRemove(c) => channels[Fd[c]] = c /\ index[c] \in {kAdded, kDeleted}
    BY <1>1 DEF MayRemove, EPollIInv, EPollTypeOK, MapIsLife, IndexFollowsLife
  <2> QED
    BY <2>1, <2>2
<1>3. KernelPointsToOwner
  BY EntryOfChannel DEF KernelPointsToOwner
<1> QED
  BY <1>1, <1>2, <1>3 DEF EPollInv

\* The constructors' state satisfies the invariant.
LEMMA EPollInitIInv == EPollInit => EPollIInv
<1> SUFFICES ASSUME EPollInit PROVE EPollIInv
  OBVIOUS
<1> USE ChannelConstants DEF EPollInit, ChannelInit
<1>1. EPollTypeOK
  BY DEF EPollTypeOK, ChannelTypeOK
<1>2. IndexFollowsLife /\ MapIsLife /\ KernelIsMap
  BY DEF IndexFollowsLife, MapIsLife, KernelIsMap, Fds
<1>3. DispatchInStep
  BY DEF DispatchInStep, NoDanglingChannel
<1> QED
  BY <1>1, <1>2, <1>3 DEF EPollIInv

\* updateChannel with the new events of a channel preserves the invariant.
LEMMA EPollUpdateIInv ==
  ASSUME EPollIInv, NEW c \in Channels, NEW ev \in NextEvents(c), EPollUpdate(c, ev)
  PROVE  EPollIInv'
<1> USE ChannelConstants
    DEF EPollUpdate, ChannelUpdate, EPollUpdateChannel, Set, Del, loopVars
<1>F. Fd[c] \in Fds
  BY DEF Fds
<1>T. EPollTypeOK /\ ev \subseteq Events
  BY EPollNextEventsType DEF EPollIInv
<1>O. channels[Fd[c]] = IF index[c] = kNew THEN None ELSE c
  BY EPollOwnerOfUpdated
<1>1. EPollTypeOK'
  BY <1>F, <1>T DEF EPollTypeOK, ChannelTypeOK
<1>2. IndexFollowsLife'
  BY <1>T DEF EPollIInv, IndexFollowsLife, EPollTypeOK, ChannelTypeOK
<1>3. MapIsLife'
  <2>1. ASSUME NEW d \in Channels, life'[d] = "in" PROVE channels'[Fd[d]] = d
    <3>1. CASE d = c
      BY <3>1, <1>F, <1>T DEF EPollTypeOK
    <3>2. CASE d # c
      <4>1. life[d] = "in" /\ Fd[d] # Fd[c] /\ Fd[d] \in Fds
        BY <2>1, <3>2, <1>T DEF MayUpdate, Fds, EPollTypeOK,
           ChannelTypeOK
      <4> QED
        BY <4>1, <1>T DEF EPollIInv, MapIsLife, EPollTypeOK
    <3> QED
      BY <3>1, <3>2
  <2>2. ASSUME NEW f \in Fds, channels'[f] # None
        PROVE  Fd[channels'[f]] = f /\ life'[channels'[f]] = "in"
    BY <2>2, <1>T DEF EPollIInv, MapIsLife, EPollTypeOK, ChannelTypeOK
  <2> QED
    BY <2>1, <2>2 DEF MapIsLife
<1>4. KernelIsMap'
  <2> SUFFICES ASSUME NEW f \in Fds
               PROVE  kernel'[f] = IF channels'[f] # None /\ index'[channels'[f]] = kAdded
                                   THEN [ch |-> channels'[f], ev |-> events'[channels'[f]]]
                                   ELSE Absent
    BY DEF KernelIsMap
  <2>1. CASE f = Fd[c]
    <3>1. channels'[f] = c /\ events'[c] = ev /\ c # None
      BY <2>1, <1>F, <1>T DEF EPollTypeOK, ChannelTypeOK
    <3>2. CASE index[c] = kAdded /\ ev = {}
      <4>1. index'[c] # kAdded /\ kernel'[f] = Absent
        BY <2>1, <3>2, <1>F, <1>T DEF EPollTypeOK
      <4> QED
        BY <3>1, <4>1
    <3>3. CASE ~(index[c] = kAdded /\ ev = {})
      <4>1. index'[c] = kAdded /\ kernel'[f] = [ch |-> c, ev |-> ev]
        BY <2>1, <3>3, <1>F, <1>T DEF EPollTypeOK
      <4> QED
        BY <3>1, <4>1
    <3> QED
      BY <3>2, <3>3
  <2>2. CASE f # Fd[c]
    <3>1. kernel'[f] = kernel[f] /\ channels'[f] = channels[f]
      BY <2>2, <1>T DEF EPollTypeOK
    <3>2. channels[f] # None => channels[f] \in Channels \ {c}
      BY <2>2, <1>T DEF EPollIInv, MapIsLife, EPollTypeOK
    <3>3. channels[f] # None => /\ index'[channels[f]] = index[channels[f]]
                                /\ events'[channels[f]] = events[channels[f]]
      BY <3>2, <1>T DEF EPollTypeOK, ChannelTypeOK
    <3>4. kernel[f] = IF channels[f] # None /\ index[channels[f]] = kAdded
                      THEN [ch |-> channels[f], ev |-> events[channels[f]]]
                      ELSE Absent
      BY Zenon DEF EPollIInv, KernelIsMap
    <3> HIDE DEF EPollUpdate
    <3> QED
      BY <3>1, <3>3, <3>4
  <2> QED
    BY <2>1, <2>2
<1>5. DispatchInStep'
  BY <1>T DEF EPollIInv, DispatchInStep, NoDanglingChannel, EPollTypeOK,
     ChannelTypeOK
<1> QED
  BY <1>1, <1>2, <1>3, <1>4, <1>5 DEF EPollIInv

\* removeChannel preserves the invariant: the assert of EventLoop::removeChannel
\* keeps a channel that is still to be dispatched.
LEMMA EPollRemoveIInv ==
  ASSUME EPollIInv, NEW c \in Channels, EPollRemove(c)
  PROVE  EPollIInv'
<1> USE ChannelConstants
    DEF EPollRemove, ChannelRemove, EPollRemoveChannel, MayRemove,
        Del, loopVars
<1>F. Fd[c] \in Fds
  BY DEF Fds
<1>T. EPollTypeOK
  BY DEF EPollIInv
<1>O. channels[Fd[c]] = c
  BY DEF EPollIInv, MapIsLife
<1>1. EPollTypeOK'
  BY <1>F, <1>T DEF EPollTypeOK, ChannelTypeOK
<1>2. IndexFollowsLife'
  BY <1>T DEF EPollIInv, IndexFollowsLife, EPollTypeOK, ChannelTypeOK
<1>3. MapIsLife'
  <2>1. ASSUME NEW d \in Channels, life'[d] = "in" PROVE channels'[Fd[d]] = d
    <3>1. d # c /\ life[d] = "in" /\ Fd[d] \in Fds
      BY <2>1, <1>T DEF Fds, EPollTypeOK, ChannelTypeOK
    <3>2. channels[Fd[d]] = d
      BY <3>1 DEF EPollIInv, MapIsLife
    <3> QED
      BY <3>1, <3>2, <1>O, <1>T DEF EPollTypeOK
  <2>2. ASSUME NEW f \in Fds, channels'[f] # None
        PROVE  Fd[channels'[f]] = f /\ life'[channels'[f]] = "in"
    BY <2>2, <1>O, <1>T DEF EPollIInv, MapIsLife, EPollTypeOK, ChannelTypeOK
  <2> QED
    BY <2>1, <2>2 DEF MapIsLife
<1>4. KernelIsMap'
  <2> SUFFICES ASSUME NEW f \in Fds
               PROVE  kernel'[f] = IF channels'[f] # None /\ index'[channels'[f]] = kAdded
                                   THEN [ch |-> channels'[f], ev |-> events'[channels'[f]]]
                                   ELSE Absent
    BY DEF KernelIsMap
  <2>1. CASE f = Fd[c]
    BY <2>1, <1>F, <1>O, <1>T DEF EPollIInv, KernelIsMap, EPollTypeOK, ChannelTypeOK
  <2>2. CASE f # Fd[c]
    <3>1. kernel'[f] = kernel[f] /\ channels'[f] = channels[f]
      BY <2>2, <1>T DEF EPollTypeOK
    <3>2. channels[f] # None => channels[f] \in Channels \ {c}
      BY <2>2, <1>T DEF EPollIInv, MapIsLife, EPollTypeOK
    <3>3. channels[f] # None => index'[channels[f]] = index[channels[f]]
      BY <3>2, <1>T DEF EPollTypeOK
    <3> QED
      BY <3>1, <3>3 DEF EPollIInv, KernelIsMap
  <2> QED
    BY <2>1, <2>2
<1>5. DispatchInStep'
  <2>1. c \notin todo
    BY <1>T DEF EPollIInv, DispatchInStep, RemovalIsSafe, EPollTypeOK,
       ChannelTypeOK
  <2> QED
    BY <2>1, <1>T DEF EPollIInv, DispatchInStep, NoDanglingChannel,
       EPollTypeOK, ChannelTypeOK
<1> QED
  BY <1>1, <1>2, <1>3, <1>4, <1>5 DEF EPollIInv

\* Every step preserves the invariant.
LEMMA EPollNextIInv == EPollIInv /\ [EPollNext]_epollVars => EPollIInv'
<1> SUFFICES ASSUME EPollIInv, [EPollNext]_epollVars
             PROVE  EPollIInv'
  OBVIOUS
<1> USE ChannelConstants DEF loopVars, epollTables
<1>T. EPollTypeOK
  BY DEF EPollIInv
<1>P. ASSUME UNCHANGED <<events, life, epollTables>>, ChannelTypeOK', DispatchInStep'
      PROVE  EPollIInv'
  BY <1>P DEF EPollIInv, EPollTypeOK, IndexFollowsLife, MapIsLife, KernelIsMap
<1>1. ASSUME NEW c \in Channels, Dispatch(c), UNCHANGED epollTables
      PROVE  EPollIInv'
  <2>1. ChannelTypeOK'
    BY <1>1, <1>T DEF Dispatch, EPollTypeOK, ChannelTypeOK
  <2>2. DispatchInStep'
    BY <1>1, <1>T DEF Dispatch, EPollIInv, DispatchInStep,
       NoDanglingChannel
  <2> QED
    BY <1>1, <1>P, <2>1, <2>2 DEF Dispatch
<1>2. ASSUME NEW c \in Channels, ChannelRemoveAborts(c), UNCHANGED epollTables
      PROVE  EPollIInv'
  <2>1. ChannelTypeOK' /\ DispatchInStep'
    BY <1>2, <1>T DEF ChannelRemoveAborts, EPollIInv, DispatchInStep,
       NoDanglingChannel,
      EPollTypeOK, ChannelTypeOK
  <2> QED
    BY <1>2, <1>P, <2>1 DEF ChannelRemoveAborts
<1>3. CASE HandlerReturns /\ UNCHANGED epollTables
  <2>1. ChannelTypeOK' /\ DispatchInStep'
    BY <1>3, <1>T DEF HandlerReturns, EPollIInv, DispatchInStep,
       NoDanglingChannel,
      EPollTypeOK, ChannelTypeOK
  <2> QED
    BY <1>3, <1>P, <2>1 DEF HandlerReturns
<1>4. CASE EndHandling /\ UNCHANGED epollTables
  <2>1. ChannelTypeOK' /\ DispatchInStep'
    BY <1>4, <1>T DEF EndHandling, EPollIInv, DispatchInStep,
       NoDanglingChannel,
      EPollTypeOK, ChannelTypeOK
  <2> QED
    BY <1>4, <1>P, <2>1 DEF EndHandling
<1>5. ASSUME NEW fs \in SUBSET Fds, EPollPoll(fs) PROVE EPollIInv'
  <2>1. \A f \in fs : kernel[f].ch \in Channels /\ life[kernel[f].ch] = "in"
    <3> SUFFICES ASSUME NEW f \in fs
                 PROVE  kernel[f].ch \in Channels /\ life[kernel[f].ch] = "in"
      OBVIOUS
    <3>1. f \in Fds /\ kernel[f] # Absent
      BY <1>5 DEF EPollPoll
    <3>2. kernel[f].ch = channels[f] /\ channels[f] # None
      BY <3>1, EntryOfChannel
    <3> QED
      BY <3>1, <3>2, <1>T DEF EPollIInv, MapIsLife, EPollTypeOK
  <2>2. ChannelTypeOK'
    BY <1>5, <2>1, <1>T DEF EPollPoll, ChannelPoll, FillActiveChannels,
       EPollTypeOK, ChannelTypeOK
  <2>3. DispatchInStep'
    BY <1>5, <2>1 DEF EPollPoll, ChannelPoll, FillActiveChannels, EPollIInv,
       DispatchInStep, NoDanglingChannel
  <2> QED
    BY <1>5, <1>P, <2>2, <2>3 DEF EPollPoll, ChannelPoll
<1>6. ASSUME NEW c \in Channels, EPollRemove(c) PROVE EPollIInv'
  BY <1>6, EPollRemoveIInv
<1>7. ASSUME NEW c \in Channels, EPollConstruct(c) PROVE EPollIInv'
  <2> USE <1>7 DEF EPollConstruct, ChannelConstruct
  <2>1. index[c] = kNew /\ index' = index
    BY <1>T DEF EPollIInv, IndexFollowsLife, EPollTypeOK
  <2>2. \A d \in Channels : life'[d] = "in" <=> life[d] = "in"
    BY <1>T DEF EPollTypeOK, ChannelTypeOK
  <2>3. EPollTypeOK'
    BY <2>1, <1>T DEF EPollTypeOK, ChannelTypeOK
  <2>4. IndexFollowsLife' /\ KernelIsMap'
    <3>1. events' = events /\ kernel' = kernel /\ channels' = channels
      OBVIOUS
    <3>2. IndexFollowsLife'
      BY <2>1, <2>2, <3>1, SMTT(40) DEF EPollIInv, IndexFollowsLife
    <3>3. KernelIsMap'
      BY <2>1, <3>1, SMTT(40) DEF EPollIInv, KernelIsMap
    <3> QED
      BY <3>2, <3>3
  <2>5. MapIsLife'
    BY <2>2, <1>T DEF EPollIInv, MapIsLife, EPollTypeOK
  <2>6. DispatchInStep'
    BY <2>2, <1>T DEF EPollIInv, DispatchInStep, NoDanglingChannel,
       EPollTypeOK, ChannelTypeOK
  <2> QED
    BY <2>3, <2>4, <2>5, <2>6 DEF EPollIInv
<1>8. ASSUME NEW c \in Channels, NEW ev \in NextEvents(c), EPollUpdate(c, ev)
      PROVE  EPollIInv'
  BY <1>8, EPollUpdateIInv
<1>9. CASE UNCHANGED epollVars
  BY <1>9, <1>P, <1>T DEF epollVars, EPollIInv, EPollTypeOK, ChannelTypeOK,
     DispatchInStep,
    NoDanglingChannel
<1> QED
  BY <1>1, <1>2, <1>3, <1>4, <1>5, <1>6, <1>7, <1>8, <1>9 DEF EPollNext, EPollLoopStep

\* The inductive invariant holds of every reachable state.
THEOREM EPollIInvHolds == EPollSpec => []EPollIInv
  BY EPollInitIInv, EPollNextIInv, PTL DEF EPollSpec

\* index_, channels_ and the kernel's interest list agree whenever an assert of
\* the poller compares them, and the loop dispatches no removed channel.
THEOREM EPollCorrect == EPollSpec => []EPollInv
  BY EPollIInvHolds, EPollIInvImpliesInv, PTL

-----------------------------------------------------------------------------
\* The first state of the poller is one of the specification Poller.
LEMMA EPollRefinesInit == EPollInit => EPollAbstract!Init
<1> SUFFICES ASSUME EPollInit PROVE EPollAbstract!Init
  OBVIOUS
<1>1. \A f \in Fds : kernel[f].ev = {}
  BY DEF EPollInit
<1> QED
  BY <1>1 DEF EPollInit, ChannelInit, EPollAbstract!Init, EPollAbstract!Fds,
     Fds

\* updateChannel is the Update of Poller, whichever epoll_ctl it chose.
LEMMA EPollRefinesUpdate ==
  ASSUME EPollIInv, NEW c \in Channels, NEW ev \in NextEvents(c), EPollUpdate(c, ev)
  PROVE  EPollAbstract!Update(c, ev)
<1>F. Fd[c] \in Fds
  BY DEF Fds
<1>T. EPollTypeOK
  BY DEF EPollIInv
<1>1. MayUpdate(c)
  BY DEF EPollUpdate, ChannelUpdate
<1>2. channels[Fd[c]] \in {None, c}
  BY <1>1, EPollOwnerOfUpdated
<1>3. [f \in Fds |-> kernel'[f].ev] = [[f \in Fds |-> kernel[f].ev] EXCEPT ![Fd[c]] = ev]
  <2>1. \A f \in Fds : f # Fd[c] => kernel'[f] = kernel[f]
    BY <1>F, <1>T DEF EPollUpdate, EPollUpdateChannel, Set, Del, EPollTypeOK
  <2>2. kernel'[Fd[c]].ev = ev
    <3>1. CASE index[c] = kAdded /\ ev = {}
      <4>1. kernel'[Fd[c]] = Absent
        BY <3>1, <1>F, <1>T DEF EPollUpdate, EPollUpdateChannel, Del, EPollTypeOK
      <4> QED
        BY <3>1, <4>1
    <3>2. CASE ~(index[c] = kAdded /\ ev = {})
      <4>1. kernel'[Fd[c]] = [ch |-> c, ev |-> ev]
        BY <3>2, <1>F, <1>T DEF EPollUpdate, EPollUpdateChannel, Set, EPollTypeOK
      <4> QED
        BY <4>1
    <3> QED
      BY <3>1, <3>2
  <2> QED
    BY <2>1, <2>2
<1> QED
  BY <1>2, <1>3 DEF EPollAbstract!Update, EPollUpdate, ChannelUpdate,
     EPollUpdateChannel

\* removeChannel is the Remove of Poller: the channel had no events left.
LEMMA EPollRefinesRemove ==
  ASSUME EPollIInv, NEW c \in Channels, EPollRemove(c)
  PROVE  EPollAbstract!Remove(c)
<1>F. Fd[c] \in Fds
  BY DEF Fds
<1>T. EPollTypeOK
  BY DEF EPollIInv
<1>1. life[c] = "in" /\ events[c] = {}
  BY DEF EPollRemove, ChannelRemove, MayRemove
<1>2. channels[Fd[c]] = c
  BY <1>1 DEF EPollIInv, MapIsLife
<1>3. kernel[Fd[c]].ev = {}
  BY <1>F, <1>1, <1>2, EntryOfChannel
<1>4. [f \in Fds |-> kernel'[f].ev] = [f \in Fds |-> kernel[f].ev]
  <2>1. \A f \in Fds : kernel'[f] = kernel[f] \/ (f = Fd[c] /\ kernel'[f] = Absent)
    <3>1. kernel' = kernel \/ kernel' = [kernel EXCEPT ![Fd[c]] = Absent]
      BY DEF EPollRemove, EPollRemoveChannel, Del
    <3> QED
      BY <3>1, <1>T DEF EPollTypeOK
  <2> QED
    BY <2>1, <1>3, SMTT(40)
<1> QED
  BY <1>F, <1>2, <1>3, <1>4 DEF EPollAbstract!Remove, EPollRemove, ChannelRemove,
     EPollRemoveChannel

\* Every step of the poller is a step of Poller or leaves its state alone.
LEMMA EPollRefinesNext ==
  EPollIInv /\ [EPollNext]_epollVars => [EPollAbstract!Next]_(EPollAbstract!vars)
<1> SUFFICES ASSUME EPollIInv, [EPollNext]_epollVars
             PROVE  [EPollAbstract!Next]_(EPollAbstract!vars)
  OBVIOUS
<1>S. ASSUME UNCHANGED <<events, channels, kernel>> PROVE UNCHANGED EPollAbstract!vars
  BY <1>S DEF EPollAbstract!vars
<1>1. CASE EPollLoopStep
  BY <1>1, <1>S DEF EPollLoopStep, Dispatch, ChannelRemoveAborts,
     HandlerReturns, EndHandling, epollTables
<1>2. ASSUME NEW fs \in SUBSET Fds, EPollPoll(fs) PROVE UNCHANGED EPollAbstract!vars
  BY <1>2, <1>S DEF EPollPoll, ChannelPoll, epollTables
<1>3. ASSUME NEW c \in Channels, EPollRemove(c) PROVE EPollAbstract!Next
  BY <1>3, EPollRefinesRemove DEF EPollAbstract!Next
<1>4. ASSUME NEW c \in Channels, EPollConstruct(c) PROVE UNCHANGED EPollAbstract!vars
  BY <1>4, <1>S DEF EPollConstruct, ChannelConstruct
<1>5. ASSUME NEW c \in Channels, NEW ev \in NextEvents(c), EPollUpdate(c, ev)
      PROVE  EPollAbstract!Next
  <2>1. ev \in SUBSET Events
    BY EPollNextEventsType DEF EPollIInv
  <2> QED
    BY <1>5, <2>1, EPollRefinesUpdate DEF EPollAbstract!Next
<1>6. CASE UNCHANGED epollVars
  BY <1>6, <1>S DEF epollVars, epollTables
<1> QED
  BY <1>1, <1>2, <1>3, <1>4, <1>5, <1>6 DEF EPollNext

\* EPollPoller keeps the promise of Poller: a descriptor belongs to at most one
\* channel and the kernel watches it for what that channel asked for last.
THEOREM EPollRefinesPoller == EPollSpec => EPollImplementsPoller
<1>1. EPollInit => EPollAbstract!Init
  BY EPollRefinesInit
<1>2. 
  EPollIInv /\ [EPollNext]_epollVars => [EPollAbstract!Next]_(EPollAbstract!vars)
  BY EPollRefinesNext
<1> QED
  BY <1>1, <1>2, EPollIInvHolds, PTL DEF EPollSpec, EPollImplementsPoller,
     EPollAbstract!Spec
=============================================================================
