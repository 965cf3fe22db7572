----------------------------- MODULE MCCmdMgr -----------------------------
(* Small instances of CmdMgr for TLC. *)
EXTENDS CmdMgr, TLC

CONSTANTS p1, p2,               \* senders
          scan, key, traffic    \* confirmation ids

Reqs(ids, kinds) == [id : ids, kind : kinds]

\* Every way to send, and the traffic indication.
AllRequests ==
    Reqs({scan}, {"plain", "defer", "buffer"}) \cup Reqs({key}, {"oneway"})
    \cup Reqs({traffic}, {"plain"})
BufferRequests == Reqs({scan}, {"buffer", "plain"})
DeferRequests == Reqs({scan}, {"defer"})

SenderSymmetry == Permutations(Senders)
=============================================================================
