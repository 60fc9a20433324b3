----------------------------- MODULE RoomStore -----------------------------
(***************************************************************************)
(* One room of roomd, as services/roomd/src/store.ts keeps it: the mounted *)
(* instances, their order and selection, the negotiated sessions, the tool *)
(* invocations, the evidence list and the published events.                *)
(*                                                                         *)
(* The store runs on one JavaScript thread, so everything between two      *)
(* awaits is one atomic step.  A handler without an await is one action.   *)
(* A mount, the unmount of a server's last instance and a tool call do     *)
(* await; each occupies a slot of Request while it is in flight, and its   *)
(* steps interleave with those of every other handler.                     *)
(*                                                                         *)
(* Requests that the store refuses (validation, policy, unknown instance)  *)
(* change nothing and are not modelled as steps.  Idempotency keys are the *)
(* subject of CommandGate, the geometry of a layout that of GridLayout.    *)
(***************************************************************************)
EXTENDS Naturals, FiniteSets, Lists

CONSTANTS
    Instance,           \* the instance ids clients use
    Server,             \* normalized server targets that the policy allows
    Cell,               \* abstract grid containers
    Request,            \* slots for handlers suspended at an await
    MountSlot,          \* the slots a mount may use: bounds concurrent mounts
    None,               \* no instance, server or container
    EventWindowSize, InvocationHistoryLimit, EvidenceHistoryLimit,
    MaxRevision,        \* bound: nothing new starts once it is reached
    MaxCalls            \* bound: number of tool invocations

ASSUME StoreAssumption ==
    /\ None \notin Instance \cup Server \cup Cell
    /\ MountSlot \subseteq Request
    /\ EventWindowSize \in Nat
    /\ InvocationHistoryLimit \in Nat
    /\ EvidenceHistoryLimit \in Nat
    /\ MaxRevision \in Nat
    /\ MaxCalls \in Nat

VARIABLES
    revision,           \* room.revision
    events,             \* the revisions of room.events
    published,          \* the state carried by the newest event
    mounts,             \* room.mounts, NotMounted where the map has no entry
    order,              \* room.order
    selected,           \* room.selectedInstanceId
    sessions,           \* the keys of room.sessions
    configured,         \* servers whose client capabilities a mount has configured;
                        \* the registry answers with defaults for the others
    conn,               \* this room's entries in the session factory
    invocations,        \* room.invocations, NoInvocation where absent
    invocationOrder,    \* room.invocationOrder
    invocationCounter,  \* this.invocationCounter
    evidence,           \* room.evidence
    evidenceCounter,    \* room.evidenceCounter
    req                 \* what each suspended handler remembers

roomVars == <<mounts, order, selected>>
historyVars == <<invocations, invocationOrder, invocationCounter>>
evidenceVars == <<evidence, evidenceCounter>>
feedVars == <<revision, events, published>>
sessionVars == <<sessions, configured, conn>>
vars == <<roomVars, historyVars, evidenceVars, feedVars, sessionVars, req>>

-----------------------------------------------------------------------------
CallId == 1..MaxCalls

NotMounted == [server |-> None, visible |-> FALSE, container |-> None]
Mount == [server : Server, visible : BOOLEAN, container : Cell]

NoInvocation == [inst |-> None, status |-> "none"]
Invocation == [inst : Instance, status : {"running", "completed", "failed"}]

EvidenceEvent == {"room_created", "mount_applied", "rpc_sent", "rpc_succeeded",
                  "rpc_failed", "host_report"}
Evidence == [id : Nat, revision : Nat, event : EvidenceEvent,
             inst : Instance \cup {None}, call : Nat]

\* A suspended handler: where it is, and the locals it uses after the await.
Phase == {"idle", "inspecting", "attaching", "releasing", "connecting", "sent"}
\* wait says what became of the connection it awaits: still the cached one,
\* dropped from the cache by a release, or failed.
Wait == {"none", "cached", "dropped", "failed"}
Idle == [phase |-> "idle", inst |-> None, server |-> None, had |-> FALSE,
         call |-> 0, wait |-> "none"]
Handler == [phase : Phase, inst : Instance \cup {None}, server : Server \cup {None},
            had : BOOLEAN, call : Nat, wait : Wait]

Mounted == {i \in Instance : mounts[i] # NotMounted}
MountedOn(s) == {i \in Instance : mounts[i].server = s}

\* buildState(): what GET /state and every event show.
View == [mounts |-> mounts, order |-> order, selected |-> selected,
         invocations |-> invocations, invocationOrder |-> invocationOrder,
         evidence |-> evidence]

-----------------------------------------------------------------------------
(* Faulty variants of the helpers below.  They are no part of the model;   *)
(* PROJECT.json names them as mutants that its properties must reject.     *)

AppendEvidence_FixedId(event, inst, call) ==
    /\ evidence' = Newest(Append(evidence,
                        [id |-> evidenceCounter, revision |-> revision + 1,
                         event |-> event, inst |-> inst, call |-> call]),
                        EvidenceHistoryLimit)
    /\ UNCHANGED evidenceCounter

Commit_StateBefore ==
    /\ revision' = revision + 1
    /\ events' = Newest(Append(events, revision + 1), EventWindowSize)
    /\ published' = View

Commit_OldRevision ==
    /\ revision' = revision + 1
    /\ events' = Newest(Append(events, revision), EventWindowSize)
    /\ published' = View'

RemoveInstance_KeepsOrder(i) ==
    /\ mounts' = [mounts EXCEPT ![i] = NotMounted]
    /\ UNCHANGED order

Deselect_Never(i) == UNCHANGED selected

ForgetServer_KeepsConfiguration(s) ==
    /\ sessions' = sessions \ {s}
    /\ UNCHANGED configured
    /\ conn' = [conn EXCEPT ![s] = "none"]

Settle_SuccessOnly(c, status) ==
    /\ invocations' = [invocations EXCEPT ![c].status =
                          IF status = "completed" THEN status ELSE @]
    /\ UNCHANGED <<invocationOrder, invocationCounter>>

Settle_EveryCall(c, status) ==
    /\ invocations' = [d \in CallId |-> IF d <= c
                          THEN [inst |-> invocations[c].inst, status |-> status]
                          ELSE invocations[d]]
    /\ UNCHANGED <<invocationOrder, invocationCounter>>

-----------------------------------------------------------------------------
(* What the handlers share.                                                *)

AppendEvidence(event, inst, call) ==
    /\ evidence' = Newest(Append(evidence,
                        [id |-> evidenceCounter, revision |-> revision + 1,
                         event |-> event, inst |-> inst, call |-> call]),
                        EvidenceHistoryLimit)
    /\ evidenceCounter' = evidenceCounter + 1

\* commit(): the next revision, published with the state as it is now.
Commit ==
    /\ revision' = revision + 1
    /\ events' = Newest(Append(events, revision + 1), EventWindowSize)
    /\ published' = View'

\* An unmount takes the instance out of both collections...
RemoveInstance(i) ==
    /\ mounts' = [mounts EXCEPT ![i] = NotMounted]
    /\ order' = Without(order, {i})

\* ... out of the selection, and takes its invocations with it.
Deselect(i) == selected' = IF selected = i THEN None ELSE selected
DropInvocations(i) ==
    LET removed == {c \in Elements(invocationOrder) : invocations[c].inst = i} IN
    /\ invocations' = [c \in CallId |->
                          IF c \in removed THEN NoInvocation ELSE invocations[c]]
    /\ invocationOrder' = Without(invocationOrder, removed)
    /\ UNCHANGED invocationCounter

\* moveToEnd() and moveToStart() take the instance out first.
Others(i) == Without(order, {i})

\* insertInvocation(): the ids that survive the history limit.
InvocationsAfter(c) == Newest(Append(invocationOrder, c), InvocationHistoryLimit)

\* The outcome of a tool call.
Settle(c, status) ==
    /\ invocations' = [invocations EXCEPT ![c].status = status]
    /\ UNCHANGED <<invocationOrder, invocationCounter>>

\* Negotiated session, client capabilities and factory entry of a server go
\* together.  releaseSession() deletes the entry before it awaits.
ForgetServer(s) ==
    /\ sessions' = sessions \ {s}
    /\ configured' = configured \ {s}
    /\ conn' = [conn EXCEPT ![s] = "none"]

\* New work starts only below the bound; what is in flight may still finish.
FreeSlot(r) == req[r].phase = "idle" /\ revision < MaxRevision
MayStart == \E r \in Request : FreeSlot(r)

\* The session factory's getSession(): connects unless an entry exists.
WithSession(s) == [conn EXCEPT ![s] = IF @ = "none" THEN "connecting" ELSE @]

\* Requests that await a connection keep awaiting it when its entry goes.
Detached(handlers, s, outcome) ==
    [r \in Request |-> IF handlers[r].server = s /\ handlers[r].wait = "cached"
                       THEN [handlers[r] EXCEPT !.wait = outcome]
                       ELSE handlers[r]]

\* The awaited getSession() may have returned, or have thrown.
SessionSettled(r) == req[r].wait = "cached" => conn[req[r].server] # "connecting"
SessionReady(r) == SessionSettled(r) /\ req[r].wait # "failed"

-----------------------------------------------------------------------------
\* createRoom(): revision 0, one evidence record, nothing published yet.
Init ==
    /\ revision = 0 /\ events = <<>>
    /\ mounts = [i \in Instance |-> NotMounted]
    /\ order = <<>> /\ selected = None
    /\ sessions = {} /\ configured = {}
    /\ conn = [s \in Server |-> "none"]
    /\ invocations = [c \in CallId |-> NoInvocation]
    /\ invocationOrder = <<>> /\ invocationCounter = 1
    /\ evidence = Newest(<<[id |-> 1, revision |-> 0, event |-> "room_created",
                            inst |-> None, call |-> 0]>>, EvidenceHistoryLimit)
    /\ evidenceCounter = 2
    /\ published = View
    /\ req = [r \in Request |-> Idle]

-----------------------------------------------------------------------------
(* mount: check, inspect the server, fetch the session, apply or clean up. *)

MountBegin(r, i, s) ==
    /\ FreeSlot(r) /\ r \in MountSlot
    /\ i \notin Mounted
    /\ configured' = configured \cup (IF s \in sessions THEN {} ELSE {s})
    /\ conn' = WithSession(s)
    /\ req' = [req EXCEPT ![r] = [phase |-> "inspecting", inst |-> i, server |-> s,
                                  had |-> s \in sessions, call |-> 0,
                                  wait |-> "cached"]]
    /\ UNCHANGED <<roomVars, historyVars, evidenceVars, feedVars, sessions>>

\* inspectServerWithSession() returned; getSession() once more.
MountInspected(r) ==
    /\ req[r].phase = "inspecting" /\ SessionReady(r)
    /\ conn' = WithSession(req[r].server)
    /\ req' = [req EXCEPT ![r].phase = "attaching", ![r].wait = "cached"]
    /\ UNCHANGED <<roomVars, historyVars, evidenceVars, feedVars, sessions, configured>>

\* The rest of the try block, with no await in it.
MountApplied(r) ==
    LET i == req[r].inst
        s == req[r].server IN
    /\ req[r].phase = "attaching" /\ SessionReady(r)
    /\ configured' = configured \cup (IF req[r].had THEN {s} ELSE {})
    /\ sessions' = sessions \cup {s}
    /\ \E cell \in Cell :
           mounts' = [mounts EXCEPT ![i] =
                         [server |-> s, visible |-> TRUE, container |-> cell]]
    /\ order' = Append(order, i)
    /\ selected' = i
    /\ AppendEvidence("mount_applied", i, 0)
    /\ req' = [req EXCEPT ![r] = Idle]
    /\ UNCHANGED <<historyVars, conn>>
    /\ Commit

\* The catch block: a failed connection or inspection, or a UI resource the
\* server does not offer.  What the mount staged is taken back only if the
\* server had no session when the mount began.
MountFailed(r) ==
    LET s == req[r].server
        left == [req EXCEPT ![r] = Idle] IN
    /\ req[r].phase \in {"inspecting", "attaching"} /\ SessionSettled(r)
    /\ IF req[r].had
       THEN UNCHANGED sessionVars /\ req' = left
       ELSE /\ ForgetServer(s)
            /\ req' = Detached(left, s, "dropped")
    /\ UNCHANGED <<roomVars, historyVars, evidenceVars, feedVars>>

-----------------------------------------------------------------------------
(* unmount: the instance leaves the maps at once; selection, invocations   *)
(* and the commit follow, after an await if the server's session goes too. *)

\* Another instance of the server remains: no await, one step.
UnmountShared(i) ==
    /\ MayStart /\ i \in Mounted
    /\ MountedOn(mounts[i].server) # {i}
    /\ RemoveInstance(i)
    /\ Deselect(i)
    /\ DropInvocations(i)
    /\ UNCHANGED <<evidenceVars, sessionVars, req>>
    /\ Commit

\* The last instance of its server: the session is given up and closed.
UnmountBegin(r, i) ==
    LET s == mounts[i].server IN
    /\ FreeSlot(r) /\ i \in Mounted
    /\ MountedOn(s) = {i}
    /\ RemoveInstance(i)
    /\ ForgetServer(s)
    /\ req' = Detached([req EXCEPT ![r] = [Idle EXCEPT !.phase = "releasing",
                                                       !.inst = i, !.server = s]],
                       s, "dropped")
    /\ UNCHANGED <<selected, historyVars, evidenceVars, feedVars>>

UnmountReleased(r) ==
    LET i == req[r].inst IN
    /\ req[r].phase = "releasing"
    /\ Deselect(i)
    /\ DropInvocations(i)
    /\ req' = [req EXCEPT ![r] = Idle]
    /\ UNCHANGED <<mounts, order, evidenceVars, sessionVars>>
    /\ Commit

-----------------------------------------------------------------------------
(* Commands without an await.  A command that asks for what already holds  *)
(* succeeds and commits nothing.                                           *)

HandleVisibility(i, visible) ==
    /\ MayStart /\ i \in Mounted
    /\ mounts[i].visible # visible
    /\ mounts' = [mounts EXCEPT ![i].visible = visible]
    /\ UNCHANGED <<order, selected, historyVars, evidenceVars, sessionVars, req>>
    /\ Commit

HandleSelect(i) ==
    /\ i = None \/ i \in Mounted
    /\ IF selected = i
       THEN UNCHANGED vars
       ELSE /\ MayStart
            /\ selected' = i
            /\ UNCHANGED <<mounts, order, historyVars, evidenceVars, sessionVars, req>>
            /\ Commit

\* The orders a reorder command may ask for: every mounted instance once.
Arrangements == {o \in [1..Cardinality(Mounted) -> Mounted] :
                    \A j, k \in DOMAIN o : o[j] = o[k] => j = k}

HandleReorder(newOrder) ==
    /\ MayStart
    /\ newOrder \in Arrangements
    /\ newOrder # order
    /\ order' = newOrder
    /\ UNCHANGED <<mounts, selected, historyVars, evidenceVars, sessionVars, req>>
    /\ Commit

\* bring-to-front and send-to-back of one instance, or of all, one by one.
Restackings == {order} \cup {Append(Others(i), i) : i \in Mounted}
                       \cup {<<i>> \o Others(i) : i \in Mounted}
                       \cup Arrangements

\* computeLayoutUpdate() normalizes every container and may restack instances;
\* where the containers end up is GridLayout's subject.
HandleLayout(newOrder, place) ==
    LET placed == [i \in Instance |-> IF i \in Mounted
                      THEN [mounts[i] EXCEPT !.container = place[i]]
                      ELSE mounts[i]] IN
    /\ MayStart
    /\ newOrder \in Restackings
    /\ newOrder # order \/ placed # mounts
    /\ mounts' = placed
    /\ order' = newOrder
    /\ UNCHANGED <<selected, historyVars, evidenceVars, sessionVars, req>>
    /\ Commit

\* reportInstanceEvidence(): the host tells about a bridge, a delivery, an app.
ReportInstanceEvidence(i) ==
    /\ MayStart /\ i \in Mounted
    /\ AppendEvidence("host_report", i, 0)
    /\ UNCHANGED <<roomVars, historyVars, sessionVars, req>>
    /\ Commit

-----------------------------------------------------------------------------
(* Sessions as the room sees them; SessionFactory has the detail.          *)

\* List, read, prompt, completion, subscription and roots requests change the
\* room in one way: they open a session if there is none.
Passthrough(i) ==
    /\ MayStart /\ i \in Mounted
    /\ conn[mounts[i].server] = "none"
    /\ conn' = WithSession(mounts[i].server)
    /\ UNCHANGED <<roomVars, historyVars, evidenceVars, feedVars, sessions,
                   configured, req>>

\* A connection attempt ends; a failed one removes the entry.  That the entry
\* may be a later attempt's by then is SessionFactory's subject.
ConnectSettles(s) ==
    /\ conn[s] = "connecting"
    /\ \/ conn' = [conn EXCEPT ![s] = "open"] /\ UNCHANGED req
       \/ conn' = [conn EXCEPT ![s] = "none"] /\ req' = Detached(req, s, "failed")
    /\ UNCHANGED <<roomVars, historyVars, evidenceVars, feedVars, sessions, configured>>

-----------------------------------------------------------------------------
(* callInstanceTool(): get the session, record the call, send, settle.     *)

CallsConnecting == {r \in Request : req[r].phase = "connecting"}

CallBegin(r, i) ==
    /\ FreeSlot(r) /\ i \in Mounted
    /\ invocationCounter + Cardinality(CallsConnecting) <= MaxCalls
    /\ conn' = WithSession(mounts[i].server)
    /\ req' = [req EXCEPT ![r] = [Idle EXCEPT !.phase = "connecting", !.inst = i,
                                              !.server = mounts[i].server,
                                              !.wait = "cached"]]
    /\ UNCHANGED <<roomVars, historyVars, evidenceVars, feedVars, sessions, configured>>

\* getSession() failed: the call ends without a trace in the room.
CallAborted(r) ==
    /\ req[r].phase = "connecting" /\ req[r].wait # "cached"
    /\ req' = [req EXCEPT ![r] = Idle]
    /\ UNCHANGED <<roomVars, historyVars, evidenceVars, feedVars, sessionVars>>

\* insertInvocation(), rpc_sent and the commit.  The mount is not looked up again.
CallSent(r) ==
    LET c == invocationCounter
        kept == Elements(InvocationsAfter(c)) IN
    /\ req[r].phase = "connecting" /\ SessionReady(r)
    /\ invocationOrder' = InvocationsAfter(c)
    /\ invocations' = [d \in CallId |->
                          IF d \notin kept THEN NoInvocation
                          ELSE IF d = c THEN [inst |-> req[r].inst, status |-> "running"]
                          ELSE invocations[d]]
    /\ invocationCounter' = c + 1
    /\ AppendEvidence("rpc_sent", req[r].inst, c)
    /\ req' = [req EXCEPT ![r].phase = "sent", ![r].call = c,
                           ![r].wait = "none"]
    /\ UNCHANGED <<roomVars, sessionVars>>
    /\ Commit

\* The tool answered or failed.  Nothing is recorded if the invocation has
\* been evicted or removed with its instance meanwhile.
CallSettled(r, status) ==
    LET c == req[r].call IN
    /\ req[r].phase = "sent"
    /\ status \in {"completed", "failed"}
    /\ req' = [req EXCEPT ![r] = Idle]
    /\ UNCHANGED <<roomVars, sessionVars>>
    /\ IF invocations[c] = NoInvocation
       THEN UNCHANGED <<historyVars, evidenceVars, feedVars>>
       ELSE /\ Settle(c, status)
            /\ AppendEvidence(IF status = "completed" THEN "rpc_succeeded"
                              ELSE "rpc_failed", invocations[c].inst, c)
            /\ Commit

-----------------------------------------------------------------------------
\* What the suspended handler in slot r does when its await ends.
Progress(r) ==
    \/ MountInspected(r)
    \/ MountApplied(r)
    \/ MountFailed(r)
    \/ UnmountReleased(r)
    \/ CallSent(r)
    \/ CallAborted(r)
    \/ \E status \in {"completed", "failed"} : CallSettled(r, status)

Next ==
    \/ \E r \in Request : Progress(r)
    \/ \E r \in Request, i \in Instance, s \in Server : MountBegin(r, i, s)
    \/ \E r \in Request, i \in Instance : UnmountBegin(r, i)
    \/ \E r \in Request, i \in Instance : CallBegin(r, i)
    \/ \E i \in Instance : UnmountShared(i)
    \/ \E i \in Instance, visible \in BOOLEAN : HandleVisibility(i, visible)
    \/ \E i \in Instance \cup {None} : HandleSelect(i)
    \/ \E newOrder \in Arrangements : HandleReorder(newOrder)
    \/ \E newOrder \in Restackings, place \in [Mounted -> Cell] :
           HandleLayout(newOrder, place)
    \/ \E i \in Instance : ReportInstanceEvidence(i)
    \/ \E i \in Instance : Passthrough(i)
    \/ \E s \in Server : ConnectSettles(s)

Spec == Init /\ [][Next]_vars

\* Every await ends: the SDK's requests and connection attempts time out, and
\* releaseSession() swallows a failing close.
FairSpec ==
    /\ Spec
    /\ \A r \in Request : WF_vars(Progress(r))
    /\ \A s \in Server : WF_vars(ConnectSettles(s))

-----------------------------------------------------------------------------
(* Properties.                                                             *)

\* Types of the room's state and of what suspended handlers remember: past its
\* first step a handler has an instance and a server, a sent call has its id.
RoomTypes ==
    /\ mounts \in [Instance -> Mount \cup {NotMounted}]
    /\ selected \in Instance \cup {None}
    /\ sessions \subseteq Server /\ configured \subseteq Server
    /\ conn \in [Server -> {"none", "connecting", "open"}]
    /\ invocations \in [CallId -> Invocation \cup {NoInvocation}]
    /\ invocationCounter \in Nat \ {0}
    /\ req \in [Request -> Handler]
    /\ \A r \in Request :
           req[r].phase # "idle" => req[r].inst \in Instance /\ req[r].server \in Server

HistoryTypes ==
    /\ revision \in Nat /\ events \in Seq(Nat)
    /\ order \in Seq(Instance) /\ invocationOrder \in Seq(CallId)
    /\ evidence \in Seq(Evidence) /\ evidenceCounter \in Nat
    /\ \A r \in Request : req[r].phase = "sent" => req[r].call \in CallId

TypeOK == RoomTypes /\ HistoryTypes

\* The order array and the mounts map, updated separately by mount, unmount,
\* reorder and layout, name the same instances: buildState() lists a mount
\* only if order has it, handleReorder() compares against the map.
OrderCoversMounts == Elements(order) = Mounted

\* The selection names a mounted instance, except while the unmount that will
\* clear it waits for the session to close (lines 943-948).
SelectionValid ==
    \/ selected = None
    \/ selected \in Mounted
    \/ \E r \in Request : req[r].phase = "releasing" /\ req[r].inst = selected

\* Whatever GET /state shows has been published as an event, except while an
\* unmount is between its map update and its commit: no handler changes the
\* room and forgets to commit, or commits before its last change.
StatePublished ==
    (\A r \in Request : req[r].phase # "releasing") => published = View

\* A running invocation is owned by exactly one call still waiting for the
\* tool: nothing shows "running" forever because its call is gone.
RunningHasOwner ==
    \A c \in CallId : invocations[c].status = "running" =>
        \E r \in Request :
            /\ req[r].phase = "sent" /\ req[r].call = c
            /\ \A q \in Request \ {r} : req[q].call # c

\* The evidence list is in order of id and revision, never ahead of the room,
\* and never reports an outcome that its invocation, if kept, does not have.
EvidenceConsistent ==
    /\ \A j \in 1..Len(evidence) :
           /\ evidence[j].revision <= revision
           /\ evidence[j].id = evidenceCounter - Len(evidence) + j - 1
           /\ \A k \in 1..j : evidence[k].revision <= evidence[j].revision
    /\ \A j \in 1..Len(evidence), c \in CallId :
           evidence[j].call = c /\ invocations[c] # NoInvocation =>
               /\ evidence[j].event = "rpc_succeeded" => invocations[c].status = "completed"
               /\ evidence[j].event = "rpc_failed" => invocations[c].status = "failed"

\* With one mount in flight at a time, room.sessions holds exactly the servers
\* of mounted instances, each with its configured client capabilities, and a
\* configuration without a mount belongs to the mount that staged it.
SessionBookkeeping ==
    /\ sessions = {mounts[i].server : i \in Mounted}
    /\ sessions \subseteq configured
    /\ configured \subseteq sessions \cup
           {req[r].server : r \in {q \in Request :
               req[q].phase \in {"inspecting", "attaching"} /\ ~req[q].had}}

\* An outcome is final: it is never overwritten, and an invocation that was
\* evicted or removed never comes back when its tool answers.
OutcomeIsFinal ==
    [][\A c \in CallId :
          /\ invocations[c].status \in {"completed", "failed"} =>
                 invocations'[c] \in {invocations[c], NoInvocation}
          /\ c < invocationCounter /\ invocations[c] = NoInvocation =>
                 invocations'[c] = NoInvocation]_vars

\* Every invocation shown as running is eventually settled or removed.
InvocationsSettle ==
    \A c \in CallId :
        invocations[c].status = "running" ~> invocations[c].status # "running"

\* The room's revision and events implement the abstract event window.
Feed == INSTANCE EventWindow WITH window <- events
FeedSpec == Feed!WindowSpec
=============================================================================
