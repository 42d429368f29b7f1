---------------------------- MODULE MCGuestAgent ----------------------------
EXTENDS GuestAgent, TLC

Symmetry == Permutations(Conns)

=============================================================================
