---------------------------- MODULE MCRoomEvents ----------------------------
(* Instances of RoomEvents for TLC. *)
EXTENDS RoomEvents, TLC

CONSTANTS h1, p1

OneOfEach == {h1, p1}
OnePinned == {h1}
=============================================================================
