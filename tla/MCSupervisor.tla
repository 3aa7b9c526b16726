---------------------------- MODULE MCSupervisor ----------------------------
EXTENDS Supervisor, TLC

CONSTANTS c1, c2

Symmetry == Permutations({c1, c2})
=============================================================================
