---------------------------- MODULE MCPollPoller ----------------------------
\* Four channels on three descriptors, two of them on descriptor 0.
EXTENDS PollPoller, TLC

CONSTANTS c1, c2, c3, c4

MCChannels == {c1, c2, c3, c4}
MCFd == (c1 :> 0) @@ (c2 :> 0) @@ (c3 :> 1) @@ (c4 :> 2)
=============================================================================
