---------------------------- MODULE EventWindow ----------------------------
(***************************************************************************)
(* The promise a room makes to everybody who watches it: its revision      *)
(* grows one at a time, and a bounded window keeps the newest events.      *)
(* RoomStore implements this specification, and RoomEvents builds the      *)
(* event streams of the clients on it.                                     *)
(*                                                                         *)
(* An event is identified by the revision it publishes; the state it       *)
(* carries is abstracted here.                                             *)
(***************************************************************************)
EXTENDS Integers, FiniteSets, Lists

CONSTANT EventWindowSize    \* RoomStoreOptions.eventWindowSize

ASSUME WindowAssumption == EventWindowSize \in Nat

VARIABLES
    revision,   \* room.revision
    window      \* the revisions of room.events, oldest first

windowVars == <<revision, window>>

-----------------------------------------------------------------------------
WindowInit ==
    /\ revision = 0
    /\ window = <<>>

\* commit(): one more revision, its event appended, the oldest ones dropped.
Publish ==
    /\ revision' = revision + 1
    /\ window' = Newest(Append(window, revision + 1), EventWindowSize)

WindowSpec == WindowInit /\ [][Publish]_windowVars

-----------------------------------------------------------------------------
\* The events getReplayEvents() filters for a client that has seen revision
\* since.  The window is in ascending order, so these are its last elements.
EventsAfter(since) ==
    LET seen == {k \in 1..Len(window) : window[k] <= since} IN
    SubSeq(window, Cardinality(seen) + 1, Len(window))

\* "replay-window-miss": the window does not reach back to since.
WindowMiss(since) == window = <<>> \/ since < Head(window) - 1

-----------------------------------------------------------------------------
\* The window never has a hole and is never needlessly short: it holds the
\* newest EventWindowSize revisions (commit(), getReplayEvents()).
WindowContiguous ==
    /\ revision \in Nat
    /\ window \in Seq(Nat)
    /\ Len(window) = IF revision <= EventWindowSize THEN revision ELSE EventWindowSize
    /\ \A k \in 1..Len(window) : window[k] = revision - Len(window) + k
=============================================================================
