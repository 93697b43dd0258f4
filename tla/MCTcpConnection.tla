--------------------------- MODULE MCTcpConnection ---------------------------
\* The careful use, and each of the others on its own.
EXTENDS TcpConnection

LoopOnlyUse == [remote |-> {"send"}, dies |-> FALSE, reads |-> {}]

MCUses == {LoopOnlyUse,
           [LoopOnlyUse EXCEPT !.remote = {"send", "shutdown"}],
           [LoopOnlyUse EXCEPT !.remote = {"forceClose"}],
           [LoopOnlyUse EXCEPT !.remote = {}, !.dies = TRUE],
           [LoopOnlyUse EXCEPT !.remote = {}, !.reads = {"up"}]}
=============================================================================
