----------------------------- MODULE MCMsgRing -----------------------------
(* Model-checking instance of MsgRing: see MsgRing.cfg.                    *)
EXTENDS MsgRing, TLC

Symmetry == Permutations(Senders) \cup Permutations(Ports)
=============================================================================
