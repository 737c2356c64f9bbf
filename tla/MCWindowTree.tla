---------------------------- MODULE MCWindowTree ----------------------------
EXTENDS WindowTree, TLC

ClientSymmetry == Permutations(Clients)

=============================================================================
