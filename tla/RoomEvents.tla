----------------------------- MODULE RoomEvents -----------------------------
(***************************************************************************)
(* How a client's view of a room follows the room: GET /state and then the *)
(* server-sent events of GET /rooms/:id/events, with connections that drop *)
(* and a server that restarts without its rooms.                           *)
(*                                                                         *)
(* Two kinds of subscriber exist.  A host canvas puts the revision of its  *)
(* snapshot into the URL of the EventSource, which repeats that URL, and   *)
(* with it that revision, whenever it reconnects.  A plain subscriber has  *)
(* no revision in the URL and resumes by its Last-Event-ID.                *)
(*                                                                         *)
(* A state is identified by the revision and the life of the server        *)
(* process in which the room had it.                                       *)
(***************************************************************************)
EXTENDS EventWindow

CONSTANTS
    Host,           \* subscribers
    Pinned,         \* those with sinceRevision in their URL
    Bootstrapped,   \* the room is listed in ROOMD_BOOTSTRAP_ROOMS
    Nothing,        \* no state shown yet
    MaxRevision, MaxDrops, MaxRestarts      \* bounds of a run

ASSUME EventsAssumption ==
    /\ Pinned \subseteq Host
    /\ Bootstrapped \in BOOLEAN
    /\ Nothing \notin [life : Nat, revision : Nat]
    /\ MaxRevision \in Nat /\ MaxDrops \in Nat /\ MaxRestarts \in Nat

VARIABLES
    life,       \* how often the server has restarted
    exists,     \* the server knows the room
    phase,      \* of each subscriber's connection
    since,      \* the point its snapshot was taken at
    shown,      \* the state it shows
    queue,      \* events written to its response and not yet handled
    drops       \* connections lost so far

connVars == <<phase, since, shown, queue>>
vars == <<windowVars, life, exists, connVars, drops>>

-----------------------------------------------------------------------------
Point == [life : Nat, revision : Nat]
Now == [life |-> life, revision |-> revision]

Phase == {"off", "opening", "connecting", "streaming", "refused"}
Streaming(h) == phase[h] = "streaming"

\* The point that parseSinceRevision() reads from the request: the query
\* parameter if there is one, else the last event id the client has seen.
Resume(h) == IF h \in Pinned THEN since[h] ELSE shown[h]

-----------------------------------------------------------------------------
(* Faulty variants; PROJECT.json names them as mutants.                    *)

Replay_NothingOnMiss(h) ==
    IF Resume(h) = Nothing THEN <<revision>>
    ELSE IF Resume(h).revision >= revision \/ WindowMiss(Resume(h).revision) THEN <<>>
    ELSE EventsAfter(Resume(h).revision)

Replay_AlwaysWholeWindow(h) ==
    IF Resume(h) = Nothing THEN <<revision>>
    ELSE IF Resume(h).revision >= revision THEN <<>>
    ELSE window

Broadcast_FirstOnly ==
    queue' = [h \in Host |-> IF Streaming(h) /\ queue[h] = <<>>
                             THEN <<revision + 1>> ELSE queue[h]]

-----------------------------------------------------------------------------
\* getReplayEvents(): one snapshot-reset with the current state for a client
\* without a point or behind the window, else the events it has missed.
Replay(h) ==
    IF Resume(h) = Nothing THEN <<revision>>
    ELSE IF Resume(h).revision >= revision THEN <<>>
    ELSE IF WindowMiss(Resume(h).revision) THEN <<revision>>
    ELSE EventsAfter(Resume(h).revision)

\* commit() hands the event to every subscriber, which writes it out.
Broadcast ==
    queue' = [h \in Host |-> IF Streaming(h) THEN Append(queue[h], revision + 1)
                             ELSE queue[h]]

-----------------------------------------------------------------------------
Init ==
    /\ WindowInit
    /\ life = 0 /\ drops = 0
    /\ exists = Bootstrapped
    /\ phase = [h \in Host |-> "off"]
    /\ since = [h \in Host |-> Nothing]
    /\ shown = [h \in Host |-> Nothing]
    /\ queue = [h \in Host |-> <<>>]

\* Some handler of the room commits.
Commit ==
    /\ exists /\ revision < MaxRevision
    /\ Publish
    /\ Broadcast
    /\ UNCHANGED <<life, exists, phase, since, shown, drops>>

\* subscribeToRoomEvents() first makes sure that the room exists.  A plain
\* subscriber only opens its stream.
Open(h) ==
    /\ phase[h] = "off"
    /\ IF h \in Pinned
       THEN phase' = [phase EXCEPT ![h] = "opening"] /\ exists' = TRUE
       ELSE phase' = [phase EXCEPT ![h] = "connecting"] /\ UNCHANGED exists
    /\ UNCHANGED <<windowVars, life, since, shown, queue, drops>>

\* It then fetches the state, shows it, and creates the EventSource with the
\* revision it has seen.  A room configuration loaded before the fetch is so
\* many commits.  If the server has restarted meanwhile the fetch fails.
Snapshot(h) ==
    /\ phase[h] = "opening"
    /\ IF exists
       THEN /\ phase' = [phase EXCEPT ![h] = "connecting"]
            /\ since' = [since EXCEPT ![h] = Now]
            /\ shown' = [shown EXCEPT ![h] = Now]
       ELSE /\ phase' = [phase EXCEPT ![h] = "refused"]
            /\ UNCHANGED <<since, shown>>
    /\ UNCHANGED <<windowVars, life, exists, queue, drops>>

\* The events handler: replay and subscribe, without an await in between.
Connect(h) ==
    /\ phase[h] = "connecting" /\ exists
    /\ phase' = [phase EXCEPT ![h] = "streaming"]
    /\ queue' = [queue EXCEPT ![h] = Replay(h)]
    /\ UNCHANGED <<windowVars, life, exists, since, shown, drops>>

\* The room is unknown: an EventSource gives up on an error status.
ConnectRefused(h) ==
    /\ phase[h] = "connecting" /\ ~exists
    /\ phase' = [phase EXCEPT ![h] = "refused"]
    /\ UNCHANGED <<windowVars, life, exists, since, shown, queue, drops>>

\* onEvent(): the state of the event replaces the one shown.
Deliver(h) ==
    /\ Streaming(h) /\ queue[h] # <<>>
    /\ shown' = [shown EXCEPT ![h] = [life |-> life, revision |-> Head(queue[h])]]
    /\ queue' = [queue EXCEPT ![h] = Tail(@)]
    /\ UNCHANGED <<windowVars, life, exists, phase, since, drops>>

\* The connection is lost, with what was under way; EventSource reconnects.
Drop(h) ==
    /\ Streaming(h) /\ drops < MaxDrops
    /\ phase' = [phase EXCEPT ![h] = "connecting"]
    /\ queue' = [queue EXCEPT ![h] = <<>>]
    /\ drops' = drops + 1
    /\ UNCHANGED <<windowVars, life, exists, since, shown>>

\* The page is left, or reloaded: a later Open starts anew.
Close(h) ==
    /\ phase[h] # "off"
    /\ phase' = [phase EXCEPT ![h] = "off"]
    /\ since' = [since EXCEPT ![h] = Nothing]
    /\ shown' = [shown EXCEPT ![h] = Nothing]
    /\ queue' = [queue EXCEPT ![h] = <<>>]
    /\ UNCHANGED <<windowVars, life, exists, drops>>

\* roomd keeps its rooms in memory: a new process has only those it is told
\* to create, at revision 0.
Restart ==
    /\ life < MaxRestarts
    /\ life' = life + 1
    /\ exists' = Bootstrapped
    /\ revision' = 0 /\ window' = <<>>
    /\ phase' = [h \in Host |-> IF Streaming(h) THEN "connecting" ELSE phase[h]]
    /\ queue' = [h \in Host |-> <<>>]
    /\ UNCHANGED <<since, shown, drops>>

Next ==
    \/ Commit
    \/ Restart
    \/ \E h \in Host : \/ Open(h) \/ Snapshot(h) \/ Close(h)
                       \/ Connect(h) \/ ConnectRefused(h)
                       \/ Deliver(h) \/ Drop(h)

Spec == Init /\ [][Next]_vars

\* EventSource retries until it is answered, and the browser handles what has
\* arrived.
FairSpec ==
    /\ Spec
    /\ \A h \in Host : /\ WF_vars(Connect(h) \/ ConnectRefused(h))
                       /\ WF_vars(Deliver(h))

-----------------------------------------------------------------------------
(* Properties.                                                             *)

\* Types, and that only a streaming connection holds undelivered events.
TypeOK ==
    /\ revision \in Nat /\ window \in Seq(Nat)
    /\ life \in Nat /\ drops \in Nat /\ exists \in BOOLEAN
    /\ phase \in [Host -> Phase]
    /\ since \in [Host -> Point \cup {Nothing}]
    /\ shown \in [Host -> Point \cup {Nothing}]
    /\ queue \in [Host -> Seq(Nat)]
    /\ \A h \in Host : queue[h] # <<>> => Streaming(h)

\* What is on its way to a client is an unbroken run of revisions that ends
\* with the current one: replay and live events join without hole or repeat
\* (server.ts writes the replay before it subscribes, both in one handler).
StreamGapFree ==
    \A h \in Host : Streaming(h) =>
        \A k \in 1..Len(queue[h]) : queue[h][k] = revision - Len(queue[h]) + k

\* The point a client resumes from belongs to an earlier life of the server
\* and the room has not grown past it: getReplayEvents() compares revisions only.
Outlived(h) == /\ Resume(h) # Nothing
               /\ Resume(h).life # life
               /\ revision <= Resume(h).revision

\* A connected client with nothing under way shows the current state, unless
\* it has outlived the room it knows.
UpToDate ==
    \A h \in Host : Streaming(h) /\ queue[h] = <<>> => shown[h] = Now \/ Outlived(h)

\* Within one life, a client never sees a state older than its snapshot, nor
\* one that the room has not reached: reconnecting repeats events at worst.
NeverBeforeSnapshot ==
    \A h \in Pinned : since[h] # Nothing /\ shown[h].life = since[h].life =>
        /\ since[h].revision <= shown[h].revision
        /\ shown[h].life = life => shown[h].revision <= revision

\* What the invariants above rest on.  No point lies ahead of the room as it
\* was in that point's life, and neither what a host shows nor what is on its
\* way precedes the snapshot in its URL (room-events.ts:39-41).
PointsInOrder ==
    /\ \A h \in Host : \A p \in {since[h], shown[h]} \ {Nothing} :
           /\ p.life <= life
           /\ p.life = life => p.revision <= revision
    /\ \A h \in Pinned : since[h] # Nothing =>
           /\ shown[h] # Nothing
           /\ since[h].life <= shown[h].life
           /\ since[h].life = shown[h].life => since[h].revision <= shown[h].revision
           /\ Streaming(h) /\ since[h].life = life =>
                  since[h].revision <= revision - Len(queue[h])

\* A client that connects catches up with the room, or learns that the room is
\* gone, once the room falls silent: the bounds on commits, drops and restarts
\* say that it does.
CatchesUp ==
    \A h \in Host : phase[h] = "connecting" ~>
        \/ phase[h] # "connecting" /\ ~Streaming(h)
        \/ Streaming(h) /\ (shown[h] = Now \/ Outlived(h))
=============================================================================
