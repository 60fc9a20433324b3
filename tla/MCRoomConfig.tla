----------------------------- MODULE MCRoomConfig ----------------------------
(* The instance of RoomConfig that TLC checks.                              *)
EXTENDS RoomConfig

CONSTANTS a, b

\* What clients upsert: two specs with all fields that differ in the selection,
\* one with no optional field, and one that the validation refuses.
SpecsOfClients ==
    {[instances |-> <<a, b>>, order |-> <<b, a>>, hidden |-> {b}, selected |-> b],
     [instances |-> <<a, b>>, order |-> <<b, a>>, hidden |-> {b}, selected |-> NoInstance],
     [instances |-> <<a, b>>, order |-> Unset, hidden |-> {}, selected |-> Unset],
     [instances |-> <<a, b>>, order |-> <<b>>, hidden |-> {}, selected |-> NoInstance]}
=============================================================================
