--------------------------- MODULE MCHostInstance ---------------------------
(* Instances of HostInstance for TLC. *)
EXTENDS HostInstance, TLC

CONSTANTS here, there, page, other

TwoInstances == {here, there}
OneResource == {page}
TwoResources == {page, other}
ResourceSymmetry == Permutations(TwoResources)
=============================================================================
