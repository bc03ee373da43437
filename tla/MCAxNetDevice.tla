--------------------------- MODULE MCAxNetDevice ---------------------------
EXTENDS AxNetDevice, TLC
Symmetry == Permutations(Cards) \cup Permutations(Callers)
MCMaxEvents == [net |-> 2, rest |-> 2]
NoEvents == [net |-> 0, rest |-> 0]
NetSpec == ClientsInit /\ clients = "net" /\ [][ClientsNext]_ndVars
=============================================================================
