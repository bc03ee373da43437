---------------------------- MODULE MCAxclDriver ----------------------------
EXTENDS AxclDriver, TLC
Image1 == <<0, 1>>
Symmetry == Permutations(Cards)
=============================================================================
