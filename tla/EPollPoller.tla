---------------------------- MODULE EPollPoller ----------------------------
(***************************************************************************)
(* net/poller/epollpoller.cpp: the map channels_ from descriptors to       *)
(* channels, the state each channel keeps in index_, and the interest list *)
(* of the kernel, whose entries carry a pointer to the channel.            *)
(*                                                                         *)
(* epoll_ctl succeeds.  Any part of the interest list may be reported,     *)
(* also the entries without events (EPOLLHUP and EPOLLERR need none), so   *)
(* the size of the event list does not matter.                             *)
(*                                                                         *)
(* What PollPoller has under the same name begins with EPoll here.         *)
(***************************************************************************)
EXTENDS Channel

VARIABLE kernel   \* the interest list

epollTables == <<index, channels, kernel>>
epollVars == <<events, life, loopVars, failed, epollTables>>

kNew == -1
kAdded == 1
kDeleted == 2
Absent == [ch |-> None, ev |-> {}]

EPollInit ==
  /\ ChannelInit
  /\ index = [c \in Channels |-> kNew]
  /\ channels = [f \in Fds |-> None]
  /\ kernel = [f \in Fds |-> Absent]

\* update: epoll_ctl with EPOLL_CTL_ADD or MOD, and with EPOLL_CTL_DEL.
Set(c, ev) == kernel' = [kernel EXCEPT ![Fd[c]] = [ch |-> c, ev |-> ev]]
Del(c) == kernel' = [kernel EXCEPT ![Fd[c]] = Absent]

\* MUTANT of EPollUpdateChannel: a channel that lost its last event is only marked.
EPollUpdateChannelMarks(c, ev) ==
  /\ channels' = [channels EXCEPT ![Fd[c]] = c]
  /\ index' = [index EXCEPT ![c] = IF index[c] = kAdded /\ ev = {} THEN kDeleted ELSE kAdded]
  /\ IF index[c] = kAdded /\ ev = {} THEN UNCHANGED kernel ELSE Set(c, ev)

\* updateChannel: kNew and kDeleted are added, kAdded is modified or deleted.
EPollUpdateChannel(c, ev) ==
  /\ channels' = [channels EXCEPT ![Fd[c]] = c]
  /\ \/ /\ index[c] \in {kNew, kDeleted}
        /\ index' = [index EXCEPT ![c] = kAdded]
        /\ Set(c, ev)
     \/ /\ index[c] = kAdded /\ ev = {}
        /\ index' = [index EXCEPT ![c] = kDeleted]
        /\ Del(c)
     \/ /\ index[c] = kAdded /\ ev # {}
        /\ UNCHANGED index
        /\ Set(c, ev)

\* MUTANT of EPollRemoveChannel: the kernel is never told.
EPollRemoveChannelKeepsKernel(c) ==
  /\ channels' = [channels EXCEPT ![Fd[c]] = None]
  /\ index' = [index EXCEPT ![c] = kNew]
  /\ UNCHANGED kernel

\* removeChannel: a channel that is still in the kernel's list leaves it.
EPollRemoveChannel(c) ==
  /\ channels' = [channels EXCEPT ![Fd[c]] = None]
  /\ IF index[c] = kAdded THEN Del(c) ELSE UNCHANGED kernel
  /\ index' = [index EXCEPT ![c] = kNew]

\* epoll_wait and fillActiveChannels.
FillActiveChannels(fs) == {kernel[f].ch : f \in fs}

EPollPoll(fs) ==
  /\ \A f \in fs : kernel[f] # Absent
  /\ ChannelPoll(FillActiveChannels(fs))
  /\ UNCHANGED epollTables

EPollUpdate(c, ev) == ChannelUpdate(c, ev) /\ EPollUpdateChannel(c, ev)
EPollRemove(c) == ChannelRemove(c) /\ EPollRemoveChannel(c)

\* Channel::Channel sets index_ to -1.
EPollConstruct(c) ==
  /\ ChannelConstruct(c)
  /\ index' = [index EXCEPT ![c] = kNew]
  /\ UNCHANGED <<channels, kernel>>

EPollLoopStep ==
  /\ (\E c \in Channels : Dispatch(c) \/ ChannelRemoveAborts(c)) \/ HandlerReturns \/ EndHandling
  /\ UNCHANGED epollTables

EPollNext ==
  \/ EPollLoopStep
  \/ \E fs \in SUBSET Fds : EPollPoll(fs)
  \/ \E c \in Channels : EPollRemove(c) \/ EPollConstruct(c)
  \/ \E c \in Channels : \E ev \in NextEvents(c) : EPollUpdate(c, ev)

EPollSpec == EPollInit /\ [][EPollNext]_epollVars

-----------------------------------------------------------------------------
(* Properties *)

\* Types; index_ takes the three values of the enumeration.
EPollTypeOK ==
  /\ ChannelTypeOK
  /\ index \in [Channels -> {kNew, kAdded, kDeleted}]
  /\ channels \in [Fds -> Channels \cup {None}]
  /\ kernel \in [Fds -> [ch : Channels \cup {None}, ev : SUBSET Events]]

\* The asserts of updateChannel and removeChannel hold whenever those may be
\* called: what index_ says of a channel agrees with channels_.
TablesAgree ==
  \A c \in Channels :
    /\ MayUpdate(c) => channels[Fd[c]] = IF index[c] = kNew THEN None ELSE c
    /\ MayRemove(c) => channels[Fd[c]] = c /\ index[c] \in {kAdded, kDeleted}

\* The asserts of fillActiveChannels: an entry of the kernel's list points to
\* the channel that is registered for its descriptor.
KernelPointsToOwner ==
  \A f \in Fds : kernel[f] # Absent => kernel[f].ch = channels[f]

\* index_, channels_ and the kernel's list agree, and no dangling channel is
\* dispatched.
EPollInv == EPollTypeOK /\ TablesAgree /\ KernelPointsToOwner /\ NoDanglingChannel

\* The kernel is asked for what the channels asked for.
EPollAbstract == INSTANCE Poller WITH
  owner <- channels, interest <- [f \in Fds |-> kernel[f].ev]
EPollImplementsPoller == EPollAbstract!Spec
=============================================================================
