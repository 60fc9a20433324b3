----------------------------- MODULE RoomConfig -----------------------------
(* Room configurations (services/roomd/src/room-config): a repository of    *)
(* revisions, saving a room as a configuration, and loading one into an     *)
(* empty room.  A load is no transaction: it reads the configuration, checks *)
(* the room, inspects the servers and then sends the room one command after *)
(* the other, with an await between any two, while other loads and direct   *)
(* commands go on.                                                          *)
(*                                                                          *)
(* Of the room only what a configuration describes is kept; sessions,       *)
(* containers and tools are RoomStore's and GridLayout's.  Direct commands  *)
(* take effect at once here: RoomStore has their awaits.                    *)
EXTENDS SequencesExt, Lists

CONSTANTS
    Instance,       \* instance ids
    NoInstance,     \* null as a selection
    Unset,          \* an optional field that is absent
    ConfigId,       \* (namespace, configId)
    Spec0,          \* the specs that clients upsert, not all of them valid
    Load,           \* load requests
    Key,            \* their idempotency keys
    MaxRevision,    \* bound: revisions of one configuration
    MaxEdits        \* bound: direct commands to the room

ASSUME ConfigAssumption ==
    /\ NoInstance \notin Instance /\ Unset \notin Instance \cup {NoInstance}
    /\ Unset \notin Seq(Instance)
    /\ Spec0 \subseteq [instances : Seq(Instance), order : Seq(Instance) \cup {Unset},
                        hidden : SUBSET Instance,
                        selected : Instance \cup {NoInstance, Unset}]
    /\ MaxRevision \in Nat /\ MaxEdits \in Nat

VARIABLES
    exists,         \* the room has been created
    room,           \* mounts with their visibility, order, selection
    memory,         \* remembered command keys of loads, with the id they named
    history,        \* room_config_revisions: all specs of a configuration
    current,        \* room_configs: revision and spec
    load,           \* the load requests
    edits           \* number of direct commands so far

vars == <<exists, room, memory, history, current, load, edits>>

EmptyRoom == [visible |-> <<>>, order |-> <<>>, selected |-> NoInstance]
Mounted == DOMAIN room.visible

-----------------------------------------------------------------------------
(* Faulty variants, used only as mutants by PROJECT.json.                   *)

OrderIsComplete_MayOmit(spec) ==
    spec.order # Unset =>
        IsInjective(spec.order) /\ ToSet(spec.order) \subseteq ToSet(spec.instances)

ApplyOrder_AsListed(spec) == spec.instances

SavedSelection_NullIsUnset(r) == IF r.selected = NoInstance THEN Unset ELSE r.selected

NextRevision_Same(c) == IF current[c].revision = 0 THEN 1 ELSE current[c].revision

Advanced_UnlessHide(l) ==
    IF load[l].ops[load[l].next].type = "hide" THEN load[l]
    ELSE [load[l] EXCEPT !.next = @ + 1, !.pc = "applying"]

-----------------------------------------------------------------------------
(* Specs (spec.ts).                                                         *)

\* assertValidRoomConfigSpec()
OrderIsComplete(spec) ==
    spec.order # Unset =>
        /\ IsInjective(spec.order) /\ Len(spec.order) = Len(spec.instances)
        /\ ToSet(spec.order) \subseteq ToSet(spec.instances)

Valid(spec) ==
    /\ spec.instances # <<>> /\ IsInjective(spec.instances)
    /\ OrderIsComplete(spec)
    /\ spec.selected \in ToSet(spec.instances) \cup {NoInstance, Unset}

\* orderRoomConfigInstances()
ApplyOrder(spec) == IF spec.order = Unset THEN spec.instances ELSE spec.order

\* The operations of planLoad(): each mount, hidden at once if the spec says so,
\* and the selection, if the spec has one.
Steps(spec, i) ==
    IF i \in spec.hidden THEN <<[type |-> "mount", id |-> i], [type |-> "hide", id |-> i]>>
                         ELSE <<[type |-> "mount", id |-> i]>>
Operations(spec) ==
    LET line == ApplyOrder(spec) IN
    FlattenSeq([k \in 1..Len(line) |-> Steps(spec, line[k])])
    \o IF spec.selected = Unset THEN <<>>
       ELSE <<[type |-> "select", id |-> spec.selected]>>

\* buildRoomConfigUpsertFromRoomState(): selectedInstanceId is always set.
SavedSelection(r) == r.selected
Saved(r) == [instances |-> r.order, order |-> r.order,
             hidden |-> {i \in DOMAIN r.visible : ~r.visible[i]},
             selected |-> SavedSelection(r)]

-----------------------------------------------------------------------------
(* The repository.  An upsert is one database transaction.                  *)

NextRevision(c) == current[c].revision + 1

InsertRevision(c, spec) ==
    /\ current[c].revision < MaxRevision
    /\ current' = [current EXCEPT ![c] = [revision |-> NextRevision(c), spec |-> spec]]
    /\ history' = [history EXCEPT ![c] = Append(@, spec)]

\* get(): the row of a configuration, revision 0 if it has none.
Row(c) == current[c]

\* persistUpsert()
Store(c, spec) == Valid(spec) /\ InsertRevision(c, spec)

Upsert(c, spec) == Store(c, spec) /\ UNCHANGED <<exists, room, memory, load, edits>>

SaveFromRoomState(c) ==
    exists /\ Store(c, Saved(room)) /\ UNCHANGED <<exists, room, memory, load, edits>>

-----------------------------------------------------------------------------
(* Rooms.                                                                   *)

WithMount(r, i) ==
    [visible |-> [j \in DOMAIN r.visible \cup {i} |-> IF j = i THEN TRUE ELSE r.visible[j]],
     order |-> Append(r.order, i), selected |-> i]
WithoutMount(r, i) ==
    [visible |-> [j \in DOMAIN r.visible \ {i} |-> r.visible[j]],
     order |-> Without(r.order, {i}),
     selected |-> IF r.selected = i THEN NoInstance ELSE r.selected]

\* Whoever changes the room disturbs the loads that are under way.
Disturb(others) ==
    [l \in Load |-> IF l \in others THEN [load[l] EXCEPT !.alone = FALSE] ELSE load[l]]

\* A direct command to the room.
Edit(r) ==
    /\ exists /\ edits < MaxEdits /\ r # room
    /\ room' = r
    /\ edits' = edits + 1
    /\ load' = Disturb(Load)
    /\ UNCHANGED <<exists, memory, history, current>>

CreateRoom ==
    ~exists /\ exists' = TRUE /\ UNCHANGED <<room, memory, history, current, load, edits>>
MountDirectly(i) == i \notin Mounted /\ Edit(WithMount(room, i))
Unmount(i) == i \in Mounted /\ Edit(WithoutMount(room, i))
SetVisible(i, v) == i \in Mounted /\ Edit([room EXCEPT !.visible[i] = v])
Select(i) == i \in Mounted \cup {NoInstance} /\ Edit([room EXCEPT !.selected = i])

-----------------------------------------------------------------------------
(* Loads.                                                                   *)

Idle == [pc |-> "idle", config |-> Unset, key |-> Unset, revision |-> 0, spec |-> Unset,
         ops |-> <<>>, next |-> 1, alone |-> FALSE]

Refuse(l) == load' = [load EXCEPT ![l].pc = "refused"]

\* planLoad(), up to its await of the repository.
Begin(l, c, k) ==
    /\ load[l].pc = "idle"
    /\ load' = [load EXCEPT ![l].pc = "reading", ![l].config = c, ![l].key = k]
    /\ UNCHANGED <<exists, room, memory, history, current, edits>>

\* The repository answers with the row it has.
Read(l) ==
    /\ load[l].pc = "reading"
    /\ LET row == Row(load[l].config) IN
       IF row.revision = 0 THEN Refuse(l)
       ELSE load' = [load EXCEPT ![l].pc = "planning", ![l].revision = row.revision,
                                 ![l].spec = row.spec]
    /\ UNCHANGED <<exists, room, memory, history, current, edits>>

\* snapshotRoomState(): a room that does not exist has no mounts.
SnapshotMounts == IF exists THEN Mounted ELSE {}

\* The rest of planLoad(): the room must be empty now.
PlanLoad(l) ==
    /\ load[l].pc = "planning"
    /\ IF SnapshotMounts # {} \/ ~Valid(load[l].spec) THEN Refuse(l)
       ELSE load' = [load EXCEPT ![l].pc = "inspecting",
                                 ![l].ops = Operations(load[l].spec),
                                 ![l].alone = \A k \in DOMAIN memory : k[1] # load[l].key]
    /\ UNCHANGED <<exists, room, memory, history, current, edits>>

\* preflightOperations() awaits the server of each mount, reads nothing of the
\* room, and may fail if there is one.
InspectionFails(l) ==
    /\ \E n \in DOMAIN load[l].ops : load[l].ops[n].type = "mount"
    /\ Refuse(l)

\* A dry run is over after it.
Preflight(l) ==
    /\ load[l].pc = "inspecting"
    /\ \/ InspectionFails(l) /\ UNCHANGED exists
       \/ load' = [load EXCEPT ![l].pc = "dry"] /\ UNCHANGED exists
       \/ load' = [load EXCEPT ![l].pc = "applying"] /\ exists' = TRUE
    /\ UNCHANGED <<room, memory, history, current, edits>>

\* The idempotency key of the load's next command: that of a select has no id.
CommandKey(l) ==
    LET n == load[l].next
        op == load[l].ops[n]
    IN <<load[l].key, op.type, n, IF op.type = "select" THEN NoInstance ELSE op.id>>

NextOp(l) == load[l].ops[load[l].next]
HasNext(l) == load[l].next <= Len(load[l].ops)

Advanced(l) == [load[l] EXCEPT !.next = @ + 1, !.pc = "applying"]

\* A command of the load has been executed, with r as the new room.
Executed(l, r) ==
    /\ room' = r
    /\ memory' = [k \in DOMAIN memory \cup {CommandKey(l)} |->
                      IF k = CommandKey(l) THEN NextOp(l).id ELSE memory[k]]
    /\ load' = [Disturb(Load \ {l}) EXCEPT ![l] = Advanced(l)]

\* applyCommand() under a key it remembers.
Remembered(l) ==
    /\ load[l].pc = "applying" /\ HasNext(l) /\ CommandKey(l) \in DOMAIN memory
    /\ IF memory[CommandKey(l)] = NextOp(l).id
       THEN load' = [load EXCEPT ![l] = Advanced(l)]
       ELSE Refuse(l)
    /\ UNCHANGED <<exists, room, memory, history, current, edits>>

\* applyCommand() under a new key: a mount goes to await its server.
StartCommand(l) ==
    /\ load[l].pc = "applying" /\ HasNext(l) /\ CommandKey(l) \notin DOMAIN memory
    /\ LET op == NextOp(l) IN
       \/ /\ op.type = "mount" /\ op.id \notin Mounted
          /\ load' = [load EXCEPT ![l].pc = "mounting"]
          /\ UNCHANGED <<room, memory>>
       \/ /\ op.type = "hide" /\ op.id \in Mounted
          /\ Executed(l, [room EXCEPT !.visible[op.id] = FALSE])
       \/ /\ op.type = "select" /\ op.id \in Mounted \cup {NoInstance}
          /\ Executed(l, [room EXCEPT !.selected = op.id])
       \/ /\ \/ op.type = "mount" /\ op.id \in Mounted
             \/ op.type # "mount" /\ op.id \notin Mounted \cup {NoInstance}
          /\ Refuse(l) /\ UNCHANGED <<room, memory>>
    /\ UNCHANGED <<exists, history, current, edits>>

\* The mount's awaits are over; it does not look at the room again.
FinishMount(l) ==
    /\ load[l].pc = "mounting"
    /\ \/ Executed(l, WithMount(room, NextOp(l).id))
       \/ Refuse(l) /\ UNCHANGED <<room, memory>>
    /\ UNCHANGED <<exists, history, current, edits>>

\* All commands are through: "applied: true".
Answer(l) ==
    /\ load[l].pc = "applying" /\ ~HasNext(l)
    /\ load' = [load EXCEPT ![l].pc = "applied"]
    /\ UNCHANGED <<exists, room, memory, history, current, edits>>

-----------------------------------------------------------------------------
Init ==
    /\ exists = FALSE /\ room = EmptyRoom /\ memory = <<>> /\ edits = 0
    /\ history = [c \in ConfigId |-> <<>>]
    /\ current = [c \in ConfigId |-> [revision |-> 0, spec |-> Unset]]
    /\ load = [l \in Load |-> Idle]

Proceed(l) ==
    \/ Read(l) \/ PlanLoad(l) \/ Preflight(l) \/ Remembered(l)
    \/ StartCommand(l) \/ FinishMount(l) \/ Answer(l)

Next ==
    \/ \E c \in ConfigId, spec \in Spec0 : Upsert(c, spec)
    \/ \E c \in ConfigId : SaveFromRoomState(c)
    \/ CreateRoom
    \/ \E i \in Instance : MountDirectly(i) \/ Unmount(i)
    \/ \E i \in Instance, v \in BOOLEAN : SetVisible(i, v)
    \/ \E i \in Instance \cup {NoInstance} : Select(i)
    \/ \E l \in Load, c \in ConfigId, k \in Key : Begin(l, c, k)
    \/ \E l \in Load : Proceed(l)

Spec == Init /\ [][Next]_vars

\* Every await of a load ends: repository, inspection and mount answer or fail.
FairSpec == Spec /\ \A l \in Load : WF_vars(Proceed(l))
-----------------------------------------------------------------------------
(* Properties.                                                              *)

ValidSpec == [instances : Seq(Instance), order : Seq(Instance) \cup {Unset},
              hidden : SUBSET Instance, selected : Instance \cup {NoInstance, Unset}]

TypeOK ==
    /\ exists \in BOOLEAN /\ edits \in 0..MaxEdits
    /\ Mounted \subseteq Instance /\ \A i \in Mounted : room.visible[i] \in BOOLEAN
    /\ room.order \in Seq(Instance) /\ ToSet(room.order) = Mounted
    /\ room.selected \in Mounted \cup {NoInstance}
    /\ ~exists => room = EmptyRoom
    /\ \A k \in DOMAIN memory : memory[k] \in Instance \cup {NoInstance}
    /\ \A c \in ConfigId : /\ current[c].revision \in 0..MaxRevision
                           /\ history[c] \in Seq(ValidSpec)
    /\ \A l \in Load :
          /\ load[l].pc \in {"idle", "reading", "planning", "inspecting", "applying",
                             "mounting", "refused", "dry", "applied"}
          /\ load[l].next \in 1..Len(load[l].ops) + 1
          /\ load[l].pc = "mounting" => HasNext(l) /\ NextOp(l).type = "mount"

\* The room that a spec describes: with no selection of its own, the instance
\* that comes last is selected (targetSelectedInstanceId of the plan's summary).
Described(spec) ==
    LET line == IF spec.order = Unset THEN spec.instances ELSE spec.order IN
    [visible |-> [i \in ToSet(spec.instances) |-> i \notin spec.hidden],
     order |-> line,
     selected |-> IF spec.selected = Unset THEN Last(line) ELSE spec.selected]

\* The table of current configurations and that of their revisions agree, and a
\* load applies the spec of the revision that it reports, whatever is upserted or
\* saved while it runs.
RevisionsAgree ==
    /\ \A c \in ConfigId : /\ current[c].revision = Len(history[c])
                           /\ history[c] # <<>> => current[c].spec = Last(history[c])
    /\ \A l \in Load : load[l].revision > 0 =>
          /\ load[l].revision <= Len(history[load[l].config])
          /\ load[l].spec = history[load[l].config][load[l].revision]

\* A load that nobody disturbs leaves the room as the spec describes it.
LoadRestores ==
    [][\A l \in Load :
          load'[l].pc = "applied" /\ load[l].pc # "applied" /\ load[l].alone =>
              exists' /\ room' = Described(load[l].spec)]_vars

\* Nothing is rolled back when a load fails, but what it leaves is a beginning of
\* the configuration: the first instances in their order, of which only the last
\* may still be visible against the spec.
PartialIsBeginning ==
    \A l \in Load :
        load[l].alone /\ load[l].pc \in {"applying", "mounting", "refused"} =>
            LET target == Described(load[l].spec) IN
            /\ IsPrefix(room.order, target.order)
            /\ \A i \in Mounted : \/ room.visible[i] = target.visible[i]
                                  \/ i = Last(room.order) /\ room.visible[i]

\* Every room with instances can be saved, unless its order repeats one, and what
\* is saved describes the very room: hidden and unselected ones included.
SaveLosesNothing ==
    Mounted # {} /\ IsInjective(room.order) =>
        Valid(Saved(room)) /\ Described(Saved(room)) = room

\* Every load is answered.
LoadsSettle ==
    \A l \in Load : load[l].pc = "reading" ~> load[l].pc \in {"refused", "dry", "applied"}
=============================================================================
