------------------------------ MODULE MCRoomctl ------------------------------
(* Instances of Roomctl for TLC. *)
EXTENDS Roomctl

CONSTANTS here, there, page

TwoInstances == {here, there}
OneResource == {page}
=============================================================================
