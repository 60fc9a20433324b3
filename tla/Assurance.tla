----------------------------- MODULE Assurance -----------------------------
(***************************************************************************)
(* The evidence a room keeps about its instances, and the assurance level  *)
(* it derives from it (services/roomd/src/store/evidence.ts): what roomd   *)
(* says is proven of an instance.                                          *)
(*                                                                         *)
(* Evidence names an instance by its id.  An id can be mounted, unmounted  *)
(* and mounted again: its lives are numbered here, and a record remembers  *)
(* the life it is about in a field the code does not have.  Commands are   *)
(* atomic in this module; RoomStore has their awaits.                      *)
(***************************************************************************)
EXTENDS FiniteSets, Lists

CONSTANTS
    Instance,               \* instance ids of the room
    Here,                   \* the one whose tile a host shows (HostInstance)
    Resource,               \* URIs of UI resources
    None,                   \* no resource
    EvidenceHistoryLimit,
    MaxLives,               \* bound: mounts of Here
    MaxCalls,               \* bound: tool calls on Here
    MaxElsewhere            \* bound: reports about the other instances

ASSUME AssuranceAssumption ==
    /\ Here \in Instance
    /\ None \notin Resource
    /\ EvidenceHistoryLimit \in Nat
    /\ MaxLives \in Nat
    /\ MaxCalls \in Nat
    /\ MaxElsewhere \in Nat

VARIABLES
    revision,   \* room.revision
    life,       \* how many times Here has been mounted
    mounted,    \* whether it is now
    resource,   \* its uiResourceUri, None for an instance without UI
    call,       \* its newest invocation
    calls,      \* how many there have been
    running,    \* those whose tool has not answered yet
    evidence,   \* room.evidence
    elsewhere   \* reports about other instances so far

roomVars == <<revision, life, mounted, resource, call, calls, running, evidence,
              elsewhere>>

-----------------------------------------------------------------------------
Life == 1..MaxLives

HostEvent == {"bridge_connected", "resource_delivered", "app_initialized", "app_error"}
RoomEvent == {"mount_applied", "rpc_sent", "rpc_succeeded", "rpc_failed"}
Record == [event : HostEvent \cup RoomEvent, inst : Instance, revision : Nat, life : Nat]

NoCall == [id |-> 0, status |-> "none"]
Invocation == [id : Nat, status : {"none", "running", "completed", "failed"}]

Kept(list) == Newest(list, EvidenceHistoryLimit)
In(list, event, inst) == \E k \in 1..Len(list) :
                             list[k].event = event /\ list[k].inst = inst

-----------------------------------------------------------------------------
\* appendEvidence() and the commit() that every caller of it goes on to.
AppendEvidence(event, inst, about) ==
    LET record == [event |-> event, inst |-> inst, revision |-> revision + 1,
                   life |-> about] IN
    /\ evidence' = Kept(Append(evidence, record))
    /\ revision' = revision + 1

\* buildRoomAssurance(): the strongest milestone that the list still holds.
Level(list, inst) ==
    IF In(list, "app_initialized", inst) THEN "ui_app_initialized"
    ELSE IF In(list, "resource_delivered", inst) THEN "ui_resource_delivered"
    ELSE IF In(list, "bridge_connected", inst) THEN "ui_bridge_connected"
    ELSE "control_plane_ok"

\* createRoom() and its first evidence record are left out: it names no instance.
RoomInit ==
    /\ revision = 0 /\ life = 0 /\ mounted = FALSE
    /\ resource = None /\ call = NoCall /\ calls = 0 /\ running = {}
    /\ evidence = <<>> /\ elsewhere = 0

-----------------------------------------------------------------------------
MountHere(uri) ==
    /\ ~mounted /\ life < MaxLives
    /\ life' = life + 1
    /\ mounted' = TRUE
    /\ resource' = uri
    /\ call' = NoCall
    /\ AppendEvidence("mount_applied", Here, life + 1)
    /\ UNCHANGED <<calls, running, elsewhere>>

\* The instance takes its invocations with it, but not its evidence.
UnmountHere ==
    /\ mounted
    /\ mounted' = FALSE
    /\ resource' = None
    /\ call' = NoCall
    /\ revision' = revision + 1
    /\ UNCHANGED <<life, calls, running, evidence, elsewhere>>

\* Reports about other instances share the bounded list.
ElsewhereReports(inst) ==
    /\ inst # Here
    /\ elsewhere < MaxElsewhere
    /\ elsewhere' = elsewhere + 1
    /\ AppendEvidence("app_initialized", inst, 0)
    /\ UNCHANGED <<life, mounted, resource, call, calls, running>>

\* reportInstanceEvidence(): refused with 404 unless the id is mounted, by
\* whomever and in whichever life.
Report(event, about) ==
    /\ UNCHANGED <<life, mounted, resource, call, calls, running, elsewhere>>
    /\ IF mounted THEN AppendEvidence(event, Here, about)
                  ELSE UNCHANGED <<revision, evidence>>

\* callInstanceTool() up to the await of the tool, and what follows the await.
\* The result of an invocation that was removed meanwhile leaves no trace.
CallSent ==
    /\ mounted /\ calls < MaxCalls
    /\ calls' = calls + 1
    /\ call' = [id |-> calls + 1, status |-> "running"]
    /\ running' = running \cup {calls + 1}
    /\ AppendEvidence("rpc_sent", Here, life)
    /\ UNCHANGED <<life, mounted, resource, elsewhere>>

CallSettled(id, status) ==
    /\ id \in running
    /\ running' = running \ {id}
    /\ UNCHANGED <<life, mounted, resource, calls, elsewhere>>
    /\ IF call.id = id
       THEN /\ call' = [call EXCEPT !.status = status]
            /\ AppendEvidence(IF status = "completed" THEN "rpc_succeeded"
                              ELSE "rpc_failed", Here, life)
       ELSE UNCHANGED <<revision, call, evidence>>

\* What happens in the room without this host and this command.
Elsewhere ==
    \/ \E uri \in Resource \cup {None} : MountHere(uri)
    \/ UnmountHere
    \/ \E inst \in Instance : ElsewhereReports(inst)

-----------------------------------------------------------------------------
RoomTypeOK ==
    /\ revision \in Nat /\ life \in 0..MaxLives /\ mounted \in BOOLEAN
    /\ resource \in Resource \cup {None} /\ call \in Invocation
    /\ calls \in 0..MaxCalls /\ running \subseteq 1..calls
    /\ evidence \in Seq(Record) /\ elsewhere \in Nat

=============================================================================
