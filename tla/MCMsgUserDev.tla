----------------------------- MODULE MCMsgUserDev -----------------------------
(* Model-checking instance of MsgUserDev: see MsgUserDev.cfg.              *)
EXTENDS MsgUserDev, TLC
Symmetry == Permutations(Files)
=============================================================================
