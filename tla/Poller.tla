------------------------------- MODULE Poller -------------------------------
(***************************************************************************)
(* What a Poller (net/poller.h) promises to the EventLoop, whichever of    *)
(* its two implementations is chosen: each descriptor belongs to at most   *)
(* one channel, and the kernel is asked for exactly the events the channel *)
(* asked for last.                                                         *)
(***************************************************************************)
EXTENDS Naturals

CONSTANTS Channels, Fd, None, Events

VARIABLES
  events,     \* what each channel has asked for
  owner,      \* the channel registered for each descriptor, or None
  interest    \* what the kernel watches each descriptor for

vars == <<events, owner, interest>>

Fds == {Fd[c] : c \in Channels}

Init ==
  /\ events = [c \in Channels |-> {}]
  /\ owner = [f \in Fds |-> None] /\ interest = [f \in Fds |-> {}]

Update(c, ev) ==
  /\ owner[Fd[c]] \in {None, c}
  /\ events' = [events EXCEPT ![c] = ev]
  /\ owner' = [owner EXCEPT ![Fd[c]] = c]
  /\ interest' = [interest EXCEPT ![Fd[c]] = ev]

Remove(c) ==
  /\ owner[Fd[c]] = c /\ interest[Fd[c]] = {}
  /\ owner' = [owner EXCEPT ![Fd[c]] = None]
  /\ UNCHANGED <<events, interest>>

Next == \E c \in Channels : Remove(c) \/ \E ev \in SUBSET Events : Update(c, ev)

Spec == Init /\ [][Next]_vars
=============================================================================
