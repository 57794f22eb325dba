-------------------------- MODULE MCBoundedChannel --------------------------
(***************************************************************************)
(* Instances of BoundedChannel for TLC.                                    *)
(***************************************************************************)
EXTENDS BoundedChannel, TLC

CONSTANTS s1, s2, r1, r2

OneSender == {s1}
TwoSenders == {s1, s2}
OneReceiver == {r1}
TwoReceivers == {r1, r2}

OnlyBlock == {"Block"}
OnlyBuffer == {"Buffer"}
EveryStrategy == {"Block", "DropOldest", "DropNewest", "Buffer"}
AllButBuffer == EveryStrategy \ {"Buffer"}

Blocking == {"send"}
BothSends == {"send", "send_timeout"}
Recv == {"recv"}
RecvWithTimeout == {"recv", "recv_timeout"}
AllRecvs == {"recv", "recv_timeout", "try_recv"}

(* Threads of one kind are interchangeable in the runs without liveness. *)
Symmetry == Permutations(Senders) \cup Permutations(Receivers)
=============================================================================
