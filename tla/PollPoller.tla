----------------------------- MODULE PollPoller -----------------------------
(***************************************************************************)
(* net/poller/pollpoller.cpp: the map channels_, and the array pollfds_    *)
(* handed to poll(2), in which index_ is the place of a channel.  A place  *)
(* whose channel has no events holds -fd-1, which poll(2) ignores.         *)
(* removeChannel fills the gap with the last place of the array.           *)
(*                                                                         *)
(* Index i of the C++ vector is element i + 1 of the sequence.             *)
(***************************************************************************)
EXTENDS Channel, Sequences

VARIABLE pollfds

tables == <<index, channels, pollfds>>
vars == <<events, life, loopVars, failed, tables>>

Init ==
  /\ ChannelInit
  /\ index = [c \in Channels |-> -1]
  /\ channels = [f \in Fds |-> None]
  /\ pollfds = <<>>

\* pfd.fd of a channel without events; the same formula takes it back.
Hidden(f) == -f - 1

\* MUTANT of UpdateChannel: a channel without events keeps its descriptor.
UpdateChannelShown(c, ev) ==
  IF index[c] < 0
    THEN /\ pollfds' = Append(pollfds, [fd |-> Fd[c], ev |-> ev])
         /\ index' = [index EXCEPT ![c] = Len(pollfds)]
         /\ channels' = [channels EXCEPT ![Fd[c]] = c]
    ELSE /\ pollfds' = [pollfds EXCEPT ![index[c] + 1] = [fd |-> Fd[c], ev |-> ev]]
         /\ UNCHANGED <<index, channels>>

\* MUTANT of UpdateChannel: a hidden descriptor is not put back.
UpdateChannelStaysHidden(c, ev) ==
  IF index[c] < 0
    THEN /\ pollfds' = Append(pollfds, [fd |-> Fd[c], ev |-> ev])
         /\ index' = [index EXCEPT ![c] = Len(pollfds)]
         /\ channels' = [channels EXCEPT ![Fd[c]] = c]
    ELSE /\ pollfds' = [pollfds EXCEPT ![index[c] + 1] =
              [fd |-> IF ev = {} THEN Hidden(Fd[c]) ELSE @.fd, ev |-> ev]]
         /\ UNCHANGED <<index, channels>>

\* updateChannel: a new channel gets the last place, an old one is rewritten.
UpdateChannel(c, ev) ==
  \/ /\ index[c] < 0
     /\ pollfds' = Append(pollfds, [fd |-> Fd[c], ev |-> ev])
     /\ index' = [index EXCEPT ![c] = Len(pollfds)]
     /\ channels' = [channels EXCEPT ![Fd[c]] = c]
  \/ /\ index[c] >= 0
     /\ pollfds' = [pollfds EXCEPT ![index[c] + 1] =
          [fd |-> IF ev = {} THEN Hidden(Fd[c]) ELSE Fd[c], ev |-> ev]]
     /\ UNCHANGED <<index, channels>>

Last == pollfds[Len(pollfds)]
FrontOf(s) == SubSeq(s, 1, Len(s) - 1)

\* The channel at the last place.
channelAtEnd == channels[IF Last.fd < 0 THEN Hidden(Last.fd) ELSE Last.fd]

\* MUTANT of RemoveChannel: the channel that was moved is not told its place.
RemoveChannelForgetsIndex(c) ==
  /\ channels' = [channels EXCEPT ![Fd[c]] = None]
  /\ pollfds' = IF index[c] = Len(pollfds) - 1
                  THEN FrontOf(pollfds)
                  ELSE FrontOf([pollfds EXCEPT ![index[c] + 1] = Last])
  /\ UNCHANGED index

\* removeChannel: pop the last place, after it was copied into the gap.
RemoveChannel(c) ==
  /\ channels' = [channels EXCEPT ![Fd[c]] = None]
  /\ \/ /\ index[c] = Len(pollfds) - 1
        /\ pollfds' = FrontOf(pollfds)
        /\ UNCHANGED index
     \/ /\ index[c] < Len(pollfds) - 1
        /\ pollfds' = FrontOf([pollfds EXCEPT ![index[c] + 1] = Last])
        /\ index' = [index EXCEPT ![channelAtEnd] = index[c]]

\* poll(2) sets revents at the places is, never at one with a negative fd.
Polled(is) == \A i \in is : pollfds[i].fd >= 0

Poll(is) ==
  /\ Polled(is)
  /\ ChannelPoll({channels[pollfds[i].fd] : i \in is})
  /\ UNCHANGED tables

Update(c, ev) == ChannelUpdate(c, ev) /\ UpdateChannel(c, ev)
Remove(c) == ChannelRemove(c) /\ RemoveChannel(c)

\* Channel::Channel sets index_ to -1.
Construct(c) ==
  /\ ChannelConstruct(c)
  /\ index' = [index EXCEPT ![c] = -1]
  /\ UNCHANGED <<channels, pollfds>>

LoopStep ==
  /\ (\E c \in Channels : Dispatch(c) \/ ChannelRemoveAborts(c)) \/ HandlerReturns \/ EndHandling
  /\ UNCHANGED tables

Next ==
  \/ LoopStep
  \/ \E is \in SUBSET DOMAIN pollfds : Poll(is)
  \/ \E c \in Channels : Remove(c) \/ Construct(c) \/ \E ev \in NextEvents(c) : Update(c, ev)

Spec == Init /\ [][Next]_vars

-----------------------------------------------------------------------------
(* Properties *)

\* (A removed channel keeps a stale index_ until it is destroyed.)
TypeOK ==
  /\ ChannelTypeOK
  /\ index \in [Channels -> Int]
  /\ \A c \in Channels : life[c] = "in" => index[c] + 1 \in DOMAIN pollfds
  /\ channels \in [Fds -> Channels \cup {None}]
  /\ pollfds \in Seq([fd : Int, ev : SUBSET Events])

\* The asserts of updateChannel hold whenever it may be called, and the array
\* has one place per registered channel: each channel finds its own place,
\* although removals move other channels about.
PlacesAgree ==
  /\ \A c \in Channels : MayUpdate(c) =>
       \/ index[c] < 0 /\ channels[Fd[c]] = None
       \/ /\ index[c] + 1 \in DOMAIN pollfds /\ channels[Fd[c]] = c
          /\ pollfds[index[c] + 1].fd \in {Fd[c], Hidden(Fd[c])}
  /\ \A i \in DOMAIN pollfds : \E c \in Channels : life[c] = "in" /\ index[c] = i - 1

\* The assert of removeChannel: the place of a channel that may be removed is
\* its own and hidden from poll(2).  A channel whose first call is disableAll()
\* is not hidden, and would fail it.
RemoveAssertHolds ==
  \A c \in Channels : MayRemove(c) /\ ~DisableFirst =>
    /\ channels[Fd[c]] = c /\ index[c] + 1 \in DOMAIN pollfds
    /\ pollfds[index[c] + 1] = [fd |-> Hidden(Fd[c]), ev |-> {}]

\* index_, channels_ and pollfds_ agree, and no dangling channel is dispatched.
PollInv == TypeOK /\ PlacesAgree /\ RemoveAssertHolds /\ NoDanglingChannel

\* poll(2) is asked for what the channels asked for.
Asked(f) == UNION {pollfds[i].ev : i \in {j \in DOMAIN pollfds : pollfds[j].fd = f}}

Abstract == INSTANCE Poller WITH
  owner <- channels, interest <- [f \in Fds |-> Asked(f)]
ImplementsPoller == Abstract!Spec
=============================================================================
