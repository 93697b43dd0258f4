------------------------------ MODULE Channel ------------------------------
(***************************************************************************)
(* The part of net/channel.{h,cpp} and of EventLoop::loop, updateChannel   *)
(* and removeChannel that both pollers share.  Each of the modules         *)
(* EPollPoller and PollPoller extends it with its own tables.              *)
(*                                                                         *)
(* Two Channel objects may be built for one descriptor, one after the      *)
(* other (Connector hands its socket over to a TcpConnection); the first   *)
(* has been removed when the second is registered.  A Channel is not used  *)
(* again after remove() until it is destroyed and a new one is built at    *)
(* its address.  Callers disable a channel before they remove it.          *)
(***************************************************************************)
EXTENDS Integers

CONSTANTS
  Channels,
  Fd,             \* fd_ of each channel
  None,           \* no channel
  Events,         \* what a channel can be interested in: kReadEvent, kWriteEvent
  DisableFirst    \* may disableAll() be the first call on a channel?

ASSUME ChannelConstants ==
  Fd \in [Channels -> Nat] /\ None \notin Channels /\ DisableFirst \in BOOLEAN

VARIABLES
  index,     \* index_ of each channel
  channels,  \* channels_ of the poller: the channel of each descriptor
  events,    \* events_ of each channel
  life,      \* new, in (addedToLoop_), removed
  phase,     \* poll and functors are "functors"; "handle" is eventHandling_
  active,    \* activeChannels_
  todo,      \* the part of it that is still to be dispatched
  current,   \* currentActiveChannel_
  failed     \* the assert of removeChannel failed

loopVars == <<phase, active, todo, current>>

Fds == {Fd[c] : c \in Channels}

ChannelInit ==
  /\ events = [c \in Channels |-> {}] /\ life = [c \in Channels |-> "new"]
  /\ phase = "functors" /\ active = {} /\ todo = {} /\ current = None
  /\ failed = FALSE

\* User code runs in functors and in the callback of the current channel.
InUser == ~failed /\ (phase = "functors" \/ current # None)

\* What enableReading .. disableAll may leave in events_.
NextEvents(c) ==
  {{}} \cup UNION {{events[c] \cup {e}, events[c] \ {e}} : e \in Events}

MayUpdate(c) ==
  /\ InUser /\ life[c] # "removed"
  /\ \A d \in Channels \ {c} : Fd[d] = Fd[c] => life[d] # "in"

\* Channel::update, up to the poller.
ChannelUpdate(c, ev) ==
  /\ MayUpdate(c)
  /\ life[c] = "new" /\ ev = {} => DisableFirst
  /\ events' = [events EXCEPT ![c] = ev]
  /\ life' = [life EXCEPT ![c] = "in"]
  /\ UNCHANGED <<loopVars, failed>>

MayRemove(c) == InUser /\ life[c] = "in" /\ events[c] = {}

\* MUTANT of RemovalIsSafe: the assert of EventLoop::removeChannel is gone.
RemovalIsAlwaysSafe(c) == TRUE

\* EventLoop::removeChannel: while events are handled only the current channel,
\* or one that was not reported, may go.
RemovalIsSafe(c) == phase = "handle" => current = c \/ c \notin active

\* Channel::remove and EventLoop::removeChannel, up to the poller.
ChannelRemove(c) ==
  /\ MayRemove(c) /\ RemovalIsSafe(c)
  /\ life' = [life EXCEPT ![c] = "removed"]
  /\ UNCHANGED <<events, loopVars, failed>>

\* The assert of EventLoop::removeChannel fails and the process ends.
ChannelRemoveAborts(c) ==
  /\ MayRemove(c) /\ ~RemovalIsSafe(c)
  /\ failed' = TRUE
  /\ UNCHANGED <<events, life, loopVars>>

\* ~Channel, and the constructor of the next channel at this address.
ChannelConstruct(c) ==
  /\ InUser /\ life[c] = "removed" /\ current # c
  /\ life' = [life EXCEPT ![c] = "new"]
  /\ UNCHANGED <<events, loopVars, failed>>

\* poll() returns and fills activeChannels_ with the channels cs.
ChannelPoll(cs) ==
  /\ ~failed /\ phase = "functors"
  /\ phase' = "handle" /\ active' = cs /\ todo' = cs
  /\ UNCHANGED <<events, life, current, failed>>

\* handleEvent, from its call to its return.
Dispatch(c) ==
  /\ ~failed /\ phase = "handle" /\ current = None /\ c \in todo
  /\ current' = c /\ todo' = todo \ {c}
  /\ UNCHANGED <<events, life, phase, active, failed>>

HandlerReturns ==
  /\ ~failed /\ current # None
  /\ current' = None
  /\ UNCHANGED <<events, life, phase, active, todo, failed>>

\* The for loop ends, eventHandling_ is reset and the functors are run.
EndHandling ==
  /\ ~failed /\ phase = "handle" /\ current = None /\ todo = {}
  /\ phase' = "functors"
  /\ UNCHANGED <<events, life, active, todo, current, failed>>

ChannelTypeOK ==
  /\ events \in [Channels -> SUBSET Events]
  /\ life \in [Channels -> {"new", "in", "removed"}]
  /\ phase \in {"functors", "handle"}
  /\ todo \subseteq active /\ active \subseteq Channels
  /\ current \in Channels \cup {None} /\ failed \in BOOLEAN

\* The loop calls handleEvent on channels that are still registered, whatever
\* the callbacks before it did: activeChannels_ holds no dangling pointer.
NoDanglingChannel == \A c \in todo : life[c] = "in"

\* What keeps it so: outside the dispatch nothing is left to do, and the channel
\* whose callback runs has left the list.
DispatchInStep ==
  /\ phase = "functors" => current = None /\ todo = {}
  /\ current \notin todo
  /\ NoDanglingChannel
=============================================================================
