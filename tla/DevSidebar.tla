----------------------------- MODULE DevSidebar -----------------------------
(***************************************************************************)
(* The protocol console beside the host's canvas (apps/host-web/src/       *)
(* dev-sidebar): its user chooses an instance and an MCP operation, types  *)
(* an input into a form or as raw JSON, and runs it through two gates of   *)
(* the sidebar and those of roomd, with a request to roomd at the first    *)
(* gate and another for the operation.                                     *)
(*                                                                         *)
(* Meanwhile the room changes, and the host shows it with a delay.  The    *)
(* effects of the component settle before its user can act again.          *)
(***************************************************************************)
EXTENDS Naturals, Sequences

CONSTANTS
    Instance,
    NoInstance,
    Operations,     \* the operations that are registered, see AllOperations
    Profile,        \* what mounted servers offer: capabilities and one tool
    Tool,           \* its name
    MaxLives        \* bound: mounts

AllOperations == {"tools.call", "tools.list", "resources.read", "resources.list",
                  "resources.templates.list", "resources.subscribe",
                  "resources.unsubscribe", "prompts.get", "prompts.list",
                  "completion.complete"}
Capability == {"tools", "resources", "resources.subscribe", "prompts", "completions"}

\* _meta.ui.visibility of the tool as its server writes it, and "missing" for a
\* server whose catalog does not have the tool.
Metadata == {"missing", "absent", "invalid", "app", "model", "both"}

ASSUME SidebarAssumption ==
    /\ NoInstance \notin Instance
    /\ Operations \subseteq AllOperations /\ Operations # {}
    /\ Profile \subseteq [caps : SUBSET Capability, tool : Metadata]
    /\ \A p \in Profile : "resources.subscribe" \in p.caps => "resources" \in p.caps
    /\ Tool \notin {"empty", "bad"}
    /\ MaxLives \in Nat

VARIABLES
    mounts,     \* the mounts of the room
    order,      \* room.order
    selected,   \* room.selectedInstanceId
    lives,      \* mounts so far
    behind,     \* whether the room has an event that the host has not shown
    shown,      \* what the host shows: mounts, order and selection
    scope,      \* instanceId
    operation,  \* operationId; the tab is that of the operation
    rawMode,
    form,       \* formState
    raw,        \* rawInput
    running,    \* isRunning
    run         \* the run

roomVars == <<mounts, order, selected, lives>>
composerVars == <<scope, operation, rawMode, form, raw>>
runVars == <<running, run>>
vars == <<roomVars, behind, shown, composerVars, runVars>>

-----------------------------------------------------------------------------
(* Mounts and inputs.                                                      *)

Gone == [life |-> 0, caps |-> {}, tool |-> "missing"]
Mount == [life : 0..MaxLives, caps : SUBSET Capability, tool : Metadata]

\* What is typed: nothing, invalid JSON, or the tool's name (for any operation
\* that wants a name or a URI).  `op` and `life` remember for what.
Value == {"empty", "bad", Tool}
Input == [value : Value, op : AllOperations, life : 0..MaxLives]

Stage == {"idle", "gating", "gateBody", "sent", "upstream", "body"}
Outcome == {"none", "BLOCKED", "INVALID_INPUT", "NOT_FOUND", "UNSUPPORTED_CAPABILITY",
            "INVALID_COMMAND", "UPSTREAM_ERROR", "REQUEST_FAILED", "success"}

\* A run keeps the mount that was shown when it began; `asked` is the life whose
\* capabilities roomd reported, `met` the life that the operation reached.
Run == [stage : Stage, op : AllOperations, inst : Instance \cup {NoInstance},
        mount : Mount, input : Input, asked : 0..MaxLives, met : 0..MaxLives, outcome : Outcome]
NoRun == [stage |-> "idle", op |-> "tools.list", inst |-> NoInstance, mount |-> Gone,
          input |-> [value |-> "empty", op |-> "tools.list", life |-> 0],
          asked |-> 0, met |-> 0, outcome |-> "none"]

-----------------------------------------------------------------------------
(* A faulty variant; PROJECT.json names it as a mutant.                    *)

Visibility_AsGiven(metadata) ==
    CASE metadata = "app" -> {"app"}
      [] metadata = "model" -> {"model"}
      [] metadata = "both" -> {"app", "model"}
      [] OTHER -> {}

-----------------------------------------------------------------------------
(* The gates.                                                              *)

\* CAPABILITY_RULES.
Rule(op) ==
    CASE op \in {"tools.call", "tools.list"} -> "tools"
      [] op \in {"resources.read", "resources.list", "resources.templates.list"} -> "resources"
      [] op \in {"resources.subscribe", "resources.unsubscribe"} -> "resources.subscribe"
      [] op \in {"prompts.get", "prompts.list"} -> "prompts"
      [] op = "completion.complete" -> "completions"

\* normalizeToolVisibility(): metadata that is absent or invalid makes the tool
\* visible to apps and models.
Visibility(metadata) ==
    CASE metadata = "app" -> {"app"}
      [] metadata = "model" -> {"model"}
      [] OTHER -> {"app", "model"}

WantsName == {"tools.call", "prompts.get"}
WantsUri == {"resources.read", "resources.subscribe", "resources.unsubscribe"}
WantsJson == {"tools.call", "prompts.get", "completion.complete"}

\* canRun() of the descriptor, with the mount that the run has kept.  A tool
\* that had no visibility at all, {} here, would pass.
CanRun(r) ==
    /\ r.op \in WantsName \cup WantsUri => r.input.value = Tool
    /\ r.op = "tools.call" =>
          /\ r.mount.tool # "missing"
          /\ Visibility(r.mount.tool) = {} \/ "app" \in Visibility(r.mount.tool)

\* What roomd requires of the mount's session, see the handlers in store.ts.
RoomdNeeds(op) ==
    CASE op \in {"tools.call", "tools.list"} -> "tools"
      [] op \in {"resources.read", "resources.list", "resources.templates.list"} -> "resources"
      [] op \in {"resources.subscribe", "resources.unsubscribe"} -> "resources.subscribe"
      [] op \in {"prompts.get", "prompts.list"} -> "prompts"
      [] op = "completion.complete" -> "completions"

\* roomd's own answer, "none" if it goes on to ask the server: a tool that the
\* catalog does not have is left to the server.
Verdict(op, mount) ==
    IF mount = Gone THEN "NOT_FOUND"
    ELSE IF RoomdNeeds(op) \notin mount.caps THEN "UNSUPPORTED_CAPABILITY"
    ELSE IF op = "tools.call" /\ mount.tool # "missing" /\ "app" \notin Visibility(mount.tool)
    THEN "INVALID_COMMAND"
    ELSE "none"

-----------------------------------------------------------------------------
(* The composer.                                                           *)

Mounted(room) == {i \in Instance : room.mounts[i] # Gone}

\* orderMounts(): the first tile, if there is one.
FirstTile(room) ==
    {i \in Mounted(room) : \E k \in DOMAIN room.order :
        room.order[k] = i /\ \A j \in 1..(k - 1) : room.order[j] \notin Mounted(room)}

\* The sidebar follows the room's selection; it keeps its own instance only
\* while the room has none, and falls back to the first.
Followed(room, inst) ==
    IF room.selected \in Mounted(room) THEN room.selected
    ELSE IF inst \in Mounted(room) THEN inst
    ELSE IF FirstTile(room) = {} THEN NoInstance
    ELSE CHOOSE i \in FirstTile(room) : TRUE

Blank(room, inst, op) ==
    [value |-> "empty", op |-> op,
     life |-> IF inst = NoInstance THEN 0 ELSE room.mounts[inst].life]

-----------------------------------------------------------------------------
(* Faulty variants; PROJECT.json names them as mutants.                    *)

LoadSchema_FormOnly(room, inst, op) ==
    /\ form' = Blank(room, inst, op)
    /\ UNCHANGED raw

Record_OnSuccessOnly(outcome) ==
    /\ running' = (outcome # "success")
    /\ run' = NoRun

-----------------------------------------------------------------------------
\* loadSchema() runs when the operation or the mount, as an object, is another
\* one than before, and starts both inputs afresh.
LoadSchema(room, inst, op) ==
    /\ form' = Blank(room, inst, op)
    /\ raw' = Blank(room, inst, op)

\* Every event brings new objects, so that it clears what has been typed.
Render ==
    LET room == [mounts |-> mounts, order |-> order, selected |-> selected] IN
    /\ behind
    /\ behind' = FALSE
    /\ shown' = room
    /\ scope' = Followed(room, scope)
    /\ LoadSchema(room, scope', operation)
    /\ UNCHANGED <<roomVars, operation, rawMode, runVars>>

\* Choosing an instance while the room has another one selected is undone, and
\* clears the inputs all the same.
ChooseInstance(i) ==
    /\ i \in Mounted(shown) /\ i # scope
    /\ scope' = Followed(shown, i)
    /\ LoadSchema(shown, scope', operation)
    /\ UNCHANGED <<roomVars, behind, shown, operation, rawMode, runVars>>

\* By the list of operations or by a tab, which chooses its first.
ChooseOperation(op) ==
    /\ op # operation
    /\ operation' = op
    /\ LoadSchema(shown, scope, op)
    /\ UNCHANGED <<roomVars, behind, shown, scope, rawMode, runVars>>

\* Invalid JSON can be typed into the fields that take JSON, and as raw input.
Type(v) ==
    /\ scope # NoInstance
    /\ IF rawMode THEN raw' = [raw EXCEPT !.value = v] /\ UNCHANGED form
       ELSE /\ v = "bad" => operation \in WantsJson
            /\ form' = [form EXCEPT !.value = v] /\ UNCHANGED raw
    /\ UNCHANGED <<roomVars, behind, shown, scope, operation, rawMode, runVars>>

\* parseFormState(): required fields are filled and JSON is valid.
FormParses ==
    /\ form.value # "bad"
    /\ operation \in WantsName \cup WantsUri => form.value # "empty"

\* onToggleRawMode(): what does not parse is not carried over.
ToggleRawMode ==
    /\ IF rawMode
       THEN IF raw.value = "bad" THEN UNCHANGED <<rawMode, form, raw>>
            ELSE rawMode' = FALSE /\ form' = raw /\ UNCHANGED raw
       ELSE /\ rawMode' = TRUE
            /\ raw' = IF FormParses THEN form ELSE raw
            /\ UNCHANGED form
    /\ UNCHANGED <<roomVars, behind, shown, scope, operation, runVars>>

-----------------------------------------------------------------------------
(* A run.                                                                  *)

\* onRun() with an input that parses; otherwise it only shows an error.
Execute ==
    /\ ~running /\ scope # NoInstance
    /\ IF rawMode THEN raw.value # "bad" ELSE FormParses
    /\ running' = TRUE
    /\ run' = [stage |-> "gating", op |-> operation, inst |-> scope,
               mount |-> shown.mounts[scope], input |-> IF rawMode THEN raw ELSE form,
               asked |-> 0, met |-> 0, outcome |-> "none"]
    /\ UNCHANGED <<roomVars, behind, shown, composerVars>>

\* The end of executeDescriptor(), and the `finally` of onRun().  The record
\* itself goes into the history, which nothing reads but the inspector.
Record(outcome) ==
    /\ running' = FALSE
    /\ run' = NoRun

\* roomd's answer to the request for the capabilities has begun, and with it
\* the request's timer is off.
CapabilitiesAnswered ==
    /\ run.stage = "gating"
    /\ run' = [run EXCEPT !.stage = "gateBody", !.asked = mounts[run.inst].life,
                          !.outcome = IF Rule(run.op) \in mounts[run.inst].caps
                                      THEN "none" ELSE "BLOCKED"]
    /\ UNCHANGED <<roomVars, behind, shown, composerVars, running>>

\* The body is read: the gates decide.  execute() refuses an input of its own.
GatesDecide ==
    /\ run.stage = "gateBody"
    /\ IF run.outcome = "BLOCKED" \/ ~CanRun(run) THEN Record("BLOCKED")
       ELSE IF run.op = "completion.complete" /\ run.input.value # Tool
       THEN Record("INVALID_INPUT")
       ELSE run' = [run EXCEPT !.stage = "sent"] /\ UNCHANGED running
    /\ UNCHANGED <<roomVars, behind, shown, composerVars>>

\* The body of the capabilities cannot be read, and counts as empty.
BodyUnreadable ==
    /\ run.stage = "gateBody"
    /\ Record("BLOCKED")
    /\ UNCHANGED <<roomVars, behind, shown, composerVars>>

\* roomd refuses, cannot open the session, or asks the server; a call of a tool
\* is published as it is sent.
RequestArrives ==
    LET mount == mounts[run.inst]
        verdict == Verdict(run.op, mount) IN
    /\ run.stage = "sent"
    /\ \/ /\ verdict = "none"
          /\ run' = [run EXCEPT !.stage = "upstream", !.met = mount.life]
          /\ behind' = (behind \/ run.op = "tools.call")
       \/ /\ run' = [run EXCEPT !.stage = "body", !.met = mount.life,
                                !.outcome = IF verdict = "none" THEN "UPSTREAM_ERROR"
                                            ELSE verdict]
          /\ UNCHANGED behind
    /\ UNCHANGED <<roomVars, shown, composerVars, running>>

ServerAnswers(outcome) ==
    /\ run.stage = "upstream"
    /\ run' = [run EXCEPT !.stage = "body", !.outcome = outcome]
    /\ behind' = (behind \/ run.op = "tools.call")
    /\ UNCHANGED <<roomVars, shown, composerVars, running>>

\* Nothing limits the time that a body takes.
BodyIsRead ==
    /\ run.stage = "body"
    /\ Record(run.outcome)
    /\ UNCHANGED <<roomVars, behind, shown, composerVars>>

\* No answer within requestTimeoutMs, or no connection.
RequestFails ==
    /\ run.stage \in {"gating", "sent", "upstream"}
    /\ Record(IF run.stage = "gating" THEN "BLOCKED" ELSE "REQUEST_FAILED")
    /\ UNCHANGED <<roomVars, behind, shown, composerVars>>

RunStep ==
    \/ CapabilitiesAnswered \/ GatesDecide \/ BodyUnreadable \/ RequestArrives \/ BodyIsRead
    \/ \E outcome \in {"UPSTREAM_ERROR", "success"} : ServerAnswers(outcome)
    \/ RequestFails

-----------------------------------------------------------------------------
(* The room, with atomic commands: RoomStore has their awaits.             *)

MountInstance(i, profile) ==
    /\ mounts[i] = Gone /\ lives < MaxLives
    /\ lives' = lives + 1
    /\ mounts' = [mounts EXCEPT ![i] = [life |-> lives + 1, caps |-> profile.caps,
                                        tool |-> profile.tool]]
    /\ order' = Append(order, i)
    /\ selected' = i

UnmountInstance(i) ==
    /\ mounts[i] # Gone
    /\ mounts' = [mounts EXCEPT ![i] = Gone]
    /\ order' = SelectSeq(order, LAMBDA j : j # i)
    /\ selected' = IF selected = i THEN NoInstance ELSE selected
    /\ UNCHANGED lives

Select(i) ==
    /\ i # NoInstance => mounts[i] # Gone
    /\ selected' = i
    /\ UNCHANGED <<mounts, order, lives>>

Commit ==
    /\ \/ \E i \in Instance : UnmountInstance(i)
       \/ \E i \in Instance, profile \in Profile : MountInstance(i, profile)
       \/ \E i \in Instance \cup {NoInstance} : Select(i)
    /\ behind' = TRUE
    /\ UNCHANGED <<shown, composerVars, runVars>>

Nowhere == [mounts |-> [i \in Instance |-> Gone], order |-> <<>>, selected |-> NoInstance]

Init ==
    /\ mounts = Nowhere.mounts /\ order = <<>> /\ selected = NoInstance /\ lives = 0
    /\ behind = FALSE /\ shown = Nowhere
    /\ scope = NoInstance /\ operation \in Operations /\ rawMode = FALSE
    /\ form = Blank(Nowhere, NoInstance, operation) /\ raw = form
    /\ running = FALSE
    /\ run = NoRun

Next ==
    \/ Render \/ ToggleRawMode \/ Execute \/ RunStep \/ Commit
    \/ \E i \in Instance : ChooseInstance(i)
    \/ \E op \in Operations : ChooseOperation(op)
    \/ \E v \in Value : Type(v)

Spec == Init /\ [][Next]_vars

\* The timer of a request, which runs until an answer begins.
FairSpec == Spec /\ WF_vars(RequestFails)

-----------------------------------------------------------------------------
(* Properties.                                                             *)

TypeOK ==
    /\ mounts \in [Instance -> Mount] /\ order \in Seq(Instance)
    /\ selected \in Instance \cup {NoInstance} /\ lives \in 0..MaxLives
    /\ behind \in BOOLEAN /\ scope \in Instance \cup {NoInstance}
    /\ operation \in Operations /\ rawMode \in BOOLEAN
    /\ form \in Input /\ raw \in Input
    /\ running \in BOOLEAN /\ run \in Run

\* The gates of the sidebar and those of roomd agree, though they are written
\* twice: roomd refuses an operation for its capability only on another mount
\* than the one whose capabilities it had reported, and a tool for its
\* visibility only on another mount than the one the user was shown.
GatesAgree ==
    /\ run.outcome = "UNSUPPORTED_CAPABILITY" => run.met # run.asked
    /\ run.outcome = "INVALID_COMMAND" => run.met # run.mount.life

\* A run sends what was typed for its operation and for the mount that it is
\* checked against, in either mode, whatever the room did while it was typed.
InputFitsRun ==
    run.stage # "idle" => run.input.op = run.op /\ run.input.life = run.mount.life

\* A run ends and the next one may begin, or it hangs in the body of an answer
\* that has begun: the timer of the request is off by then.
RunEnds == running ~> (~running \/ run.stage \in {"gateBody", "body"})
=============================================================================
