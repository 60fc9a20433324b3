---------------------------- MODULE MCRoomStore ----------------------------
(* Instances of RoomStore for TLC: values of its constants and symmetries. *)
EXTENDS RoomStore, TLC

CONSTANTS i1, i2, s1, s2, c1, r1, r2, r3

TwoInstances == {i1, i2}
OneServer == {s1}
TwoServers == {s1, s2}
OneCell == {c1}
OneRequest == {r1}
TwoRequests == {r1, r2}
ThreeRequests == {r1, r2, r3}

\* Sound in runs without liveness; requests are interchangeable only when all
\* of them may carry a mount.
InstancesAndServers == Permutations(Instance) \cup Permutations(Server)
AllSymmetric == InstancesAndServers \cup Permutations(Request)
=============================================================================
