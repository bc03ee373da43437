------------------------------- MODULE MCAxMmb -------------------------------
(* Model-checking instance of AxMmb: see AxMmb.cfg.                        *)
EXTENDS AxMmb, TLC
ThreadSymmetry == Permutations(Threads)
=============================================================================
