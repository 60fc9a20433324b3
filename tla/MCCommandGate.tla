--------------------------- MODULE MCCommandGate ---------------------------
(* Instances of CommandGate for TLC. *)
EXTENDS CommandGate, TLC

CONSTANTS k1, k2, k3, mount, select, r1, r2

ThreeKeys == {k1, k2, k3}
TwoCommands == {mount, select}
MountOnly == {mount}
TwoRequests == {r1, r2}

Symmetry == Permutations(Key) \cup Permutations(Request)
=============================================================================
