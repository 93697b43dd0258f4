--------------------------- MODULE MCEPollPoller ---------------------------
\* Three channels on two descriptors, two of them on descriptor 0.
EXTENDS EPollPoller, TLC

CONSTANTS c1, c2, c3

MCChannels == {c1, c2, c3}
MCFd == (c1 :> 0) @@ (c2 :> 0) @@ (c3 :> 1)
=============================================================================
