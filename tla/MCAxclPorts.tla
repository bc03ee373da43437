---------------------------- MODULE MCAxclPorts ----------------------------
(* Model-checking instance of AxclPorts: see the .cfg files.               *)
EXTENDS AxclPorts, TLC

\* A list that names one port, of a handle of two or of nobody.
OthersLists == {{21}}

ProcSymmetry == Permutations(Procs)
=============================================================================
