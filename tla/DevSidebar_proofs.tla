------------------------- MODULE DevSidebar_proofs -------------------------
(* The protocol console, for any instances, operations and mounts: a run   *)
(* sends what was typed for it, and the gates of the sidebar and those of  *)
(* roomd agree on a mount that both have seen.                             *)
EXTENDS DevSidebar, TLAPS

-----------------------------------------------------------------------------
(* The inductive invariant.                                                *)

\* A mount as somebody has seen it: one of the lives so far, and the mount in
\* place if it is that one's life.
Seen(m, i) ==
    /\ m.life \in 0..lives
    /\ m.life = 0 => m = Gone
    /\ m.life = mounts[i].life => m = mounts[i]

LivesInvariant ==
    /\ lives \in Nat /\ DOMAIN mounts = Instance
    /\ \A i \in Instance : Seen(mounts[i], i) /\ Seen(shown.mounts[i], i)

InputFields == {"value", "op", "life"}

\* Both inputs are those of the operation and the mount on display.
ComposerInvariant ==
    /\ scope \in Instance \cup {NoInstance}
    /\ DOMAIN form = InputFields /\ DOMAIN raw = InputFields
    /\ form.op = operation /\ raw.op = operation
    /\ scope # NoInstance =>
          form.life = shown.mounts[scope].life /\ raw.life = shown.mounts[scope].life

\* What a run has decided before it reaches roomd.
RunInvariant ==
    /\ DOMAIN run = DOMAIN NoRun /\ run.stage \in Stage
    /\ run.op \in AllOperations /\ run.asked \in 0..lives
    /\ run.stage # "idle" =>
          /\ run.inst \in Instance /\ Seen(run.mount, run.inst)
          /\ run.input.op = run.op /\ run.input.life = run.mount.life
    /\ run.stage = "idle" => run.outcome = "none"
    /\ run.stage \in {"gating", "sent", "upstream"} => run.outcome = "none"
    /\ run.stage = "gateBody" => run.outcome \in {"none", "BLOCKED"}
    /\ /\ run.stage \in {"gateBody", "sent"} /\ run.outcome = "none"
       /\ run.asked = mounts[run.inst].life /\ mounts[run.inst] # Gone
       => Rule(run.op) \in mounts[run.inst].caps
    /\ run.stage = "sent" => CanRun(run)

SidebarInvariant ==
    operation \in AllOperations /\ LivesInvariant /\ ComposerInvariant /\ RunInvariant

-----------------------------------------------------------------------------
\* A command of the room: a mount gets a life of its own.
LEMMA CommitKeeps ==
    ASSUME SidebarInvariant, Commit
    PROVE  SidebarInvariant'
<1>1. /\ lives \in Nat /\ DOMAIN mounts = Instance
      /\ \A i \in Instance : Seen(mounts[i], i) /\ Seen(shown.mounts[i], i)
    BY DEF SidebarInvariant, LivesInvariant
<1>2. UNCHANGED <<shown, scope, operation, rawMode, form, raw, run>>
    BY DEF Commit, composerVars, runVars
<1>3. /\ lives' \in Nat /\ lives <= lives' /\ DOMAIN mounts' = Instance
      /\ \A i \in Instance :
             \/ mounts'[i] = mounts[i] \/ mounts'[i] = Gone
             \/ lives' = lives + 1 /\ mounts'[i].life = lives'
    <2>1. ASSUME NEW j \in Instance, UnmountInstance(j)
          PROVE  lives' = lives /\ mounts' = [mounts EXCEPT ![j] = Gone]
        BY <2>1 DEF UnmountInstance
    <2>2. ASSUME NEW j \in Instance, NEW profile \in Profile, MountInstance(j, profile)
          PROVE  /\ lives' = lives + 1
                 /\ \E m : m.life = lives + 1 /\ mounts' = [mounts EXCEPT ![j] = m]
        BY <2>2 DEF MountInstance
    <2>3. ASSUME NEW j \in Instance \cup {NoInstance}, Select(j)
          PROVE  UNCHANGED <<mounts, lives>>
        BY <2>3 DEF Select
    <2>4. CASE \E j \in Instance : UnmountInstance(j)
        BY <1>1, <2>1, <2>4
    <2>5. CASE \E j \in Instance, profile \in Profile : MountInstance(j, profile)
        BY <1>1, <2>2, <2>5
    <2>6. CASE \E j \in Instance \cup {NoInstance} : Select(j)
        BY <1>1, <2>3, <2>6
    <2> QED BY <2>4, <2>5, <2>6 DEF Commit
<1>4. Gone.life = 0
    BY DEF Gone
<1>5. ASSUME NEW m, NEW i \in Instance, Seen(m, i)
      PROVE  Seen(m, i)'
    BY <1>1, <1>3, <1>4, <1>5 DEF Seen
<1>6. \A i \in Instance : Seen(mounts[i], i)'
    BY <1>1, <1>3, <1>4 DEF Seen
<1>7. LivesInvariant'
    BY <1>1, <1>2, <1>3, <1>5, <1>6 DEF LivesInvariant, Seen
<1>8. operation' \in AllOperations /\ ComposerInvariant'
    BY <1>2 DEF SidebarInvariant, ComposerInvariant
<1>9. RunInvariant'
    <2>1. RunInvariant
        BY DEF SidebarInvariant
    <2>2. run.asked \in 0..lives'
        BY <1>1, <1>3, <2>1 DEF RunInvariant
    <2>3. ASSUME run.stage # "idle"
          PROVE  run.inst \in Instance /\ Seen(run.mount, run.inst)'
        BY <1>2, <1>5, <2>1, <2>3 DEF RunInvariant, Seen
    <2>4. ASSUME run.stage \in {"gateBody", "sent"}, run.outcome = "none",
                 run.asked = mounts'[run.inst].life, mounts'[run.inst] # Gone
          PROVE  Rule(run.op) \in mounts'[run.inst].caps
        <3>1. run.inst \in Instance /\ run.asked <= lives
            BY <1>1, <2>1, <2>4 DEF RunInvariant, Stage
        <3>2. mounts'[run.inst] = mounts[run.inst]
            BY <1>1, <1>3, <2>1, <2>4, <3>1 DEF RunInvariant
        <3> QED BY <2>1, <2>4, <3>2 DEF RunInvariant
    <2>5. CanRun(run)' = CanRun(run)
        BY <1>2 DEF CanRun
    <2> QED BY <1>2, <2>1, <2>2, <2>3, <2>4, <2>5 DEF RunInvariant
<1> QED BY <1>7, <1>8, <1>9 DEF SidebarInvariant

-----------------------------------------------------------------------------
(* The composer.                                                           *)

\* The sidebar follows to a tile, or to none.
LEMMA FollowedIsInstance ==
    ASSUME NEW room, NEW inst
    PROVE  Followed(room, inst) \in Instance \cup {NoInstance}
<1>1. Mounted(room) \subseteq Instance /\ FirstTile(room) \subseteq Instance
    BY DEF Mounted, FirstTile
<1>2. FirstTile(room) # {} => (CHOOSE i \in FirstTile(room) : TRUE) \in FirstTile(room)
    OBVIOUS
<1> QED BY <1>1, <1>2 DEF Followed

\* A run that is under way does not notice what its user does next.
LEMMA RunIsKept ==
    ASSUME RunInvariant, UNCHANGED <<mounts, lives, run>>
    PROVE  RunInvariant'
<1>1. CanRun(run)' = CanRun(run)
    BY DEF CanRun
<1>2. \A m, i : Seen(m, i)' = Seen(m, i)
    BY DEF Seen
<1> QED BY <1>1, <1>2 DEF RunInvariant, Seen

\* Both inputs start afresh for the mount that is on display from now on.
LEMMA RestartKeeps ==
    ASSUME SidebarInvariant, UNCHANGED <<roomVars, run>>,
           operation' \in AllOperations, scope' \in Instance \cup {NoInstance},
           shown' = shown \/ shown'.mounts = mounts,
           LoadSchema(shown', scope', operation')
    PROVE  SidebarInvariant'
<1>1. UNCHANGED <<mounts, lives>>
    BY DEF roomVars
<1>2. LivesInvariant'
    BY <1>1 DEF SidebarInvariant, LivesInvariant, Seen
<1>3. ComposerInvariant'
    BY DEF LoadSchema, Blank, ComposerInvariant, InputFields
<1>4. RunInvariant'
    BY <1>1, RunIsKept DEF SidebarInvariant
<1> QED BY <1>2, <1>3, <1>4 DEF SidebarInvariant

\* Typing, and the change of mode, keep what an input is for.
LEMMA EditKeeps ==
    ASSUME SidebarInvariant, UNCHANGED <<roomVars, shown, scope, operation, run>>,
           form' = form \/ form' = raw \/ (\E v : form' = [form EXCEPT !.value = v]),
           raw' = raw \/ raw' = form \/ (\E v : raw' = [raw EXCEPT !.value = v])
    PROVE  SidebarInvariant'
<1>1. UNCHANGED <<mounts, lives>>
    BY DEF roomVars
<1>2. LivesInvariant' /\ RunInvariant'
    BY <1>1, RunIsKept DEF SidebarInvariant, LivesInvariant, Seen
<1>3. ComposerInvariant
    BY DEF SidebarInvariant
<1>4. /\ DOMAIN form' = InputFields /\ form'.op = operation
      /\ scope # NoInstance => form'.life = shown.mounts[scope].life
    BY <1>3 DEF ComposerInvariant, InputFields
<1>5. /\ DOMAIN raw' = InputFields /\ raw'.op = operation
      /\ scope # NoInstance => raw'.life = shown.mounts[scope].life
    BY <1>3 DEF ComposerInvariant, InputFields
<1>6. ComposerInvariant'
    BY <1>3, <1>4, <1>5 DEF ComposerInvariant
<1> QED BY <1>2, <1>6 DEF SidebarInvariant

LEMMA ComposerKeeps ==
    ASSUME SidebarInvariant,
           \/ Render \/ ToggleRawMode
           \/ \E i \in Instance : ChooseInstance(i)
           \/ \E op \in Operations : ChooseOperation(op)
           \/ \E v \in Value : Type(v)
    PROVE  SidebarInvariant'
<1>1. operation \in AllOperations /\ scope \in Instance \cup {NoInstance}
    BY DEF SidebarInvariant, ComposerInvariant
<1>2. CASE Render
    <2>1. scope' \in Instance \cup {NoInstance}
        BY <1>2, FollowedIsInstance DEF Render
    <2>2. /\ UNCHANGED <<roomVars, run, operation>> /\ shown'.mounts = mounts
          /\ LoadSchema(shown', scope', operation')
        BY <1>2 DEF Render, runVars, LoadSchema
    <2> QED BY <1>1, <2>1, <2>2, RestartKeeps
<1>3. ASSUME NEW i \in Instance, ChooseInstance(i)
      PROVE  SidebarInvariant'
    <2>1. scope' \in Instance \cup {NoInstance}
        BY <1>3, FollowedIsInstance DEF ChooseInstance
    <2>2. /\ UNCHANGED <<roomVars, run, operation, shown>>
          /\ LoadSchema(shown', scope', operation')
        BY <1>3 DEF ChooseInstance, runVars, LoadSchema
    <2> QED BY <1>1, <2>1, <2>2, RestartKeeps
<1>4. ASSUME NEW op \in Operations, ChooseOperation(op)
      PROVE  SidebarInvariant'
    <2>1. operation' \in AllOperations /\ UNCHANGED <<roomVars, run, scope, shown>>
        BY <1>4, SidebarAssumption DEF ChooseOperation, runVars
    <2>2. LoadSchema(shown', scope', operation')
        BY <1>4 DEF ChooseOperation, LoadSchema
    <2> QED BY <1>1, <2>1, <2>2, RestartKeeps
<1>5. ASSUME NEW v \in Value, Type(v)
      PROVE  SidebarInvariant'
    <2>1. /\ UNCHANGED <<roomVars, shown, scope, operation, run>>
          /\ \/ UNCHANGED form /\ raw' = [raw EXCEPT !.value = v]
             \/ UNCHANGED raw /\ form' = [form EXCEPT !.value = v]
        BY <1>5 DEF Type, runVars
    <2> QED BY <2>1, EditKeeps
<1>6. CASE ToggleRawMode
    <2>1. /\ UNCHANGED <<roomVars, shown, scope, operation, run>>
          /\ form' = form \/ form' = raw
          /\ raw' = raw \/ raw' = form
        BY <1>6 DEF ToggleRawMode, runVars
    <2> QED BY <2>1, EditKeeps
<1> QED BY <1>2, <1>3, <1>4, <1>5, <1>6

-----------------------------------------------------------------------------
(* A run.                                                                  *)

\* The steps of a run leave the room and the composer alone.
LEMMA OutsideRunIsKept ==
    ASSUME SidebarInvariant, UNCHANGED <<roomVars, shown, composerVars>>, RunInvariant'
    PROVE  SidebarInvariant'
<1>1. UNCHANGED <<mounts, lives, scope, operation, form, raw>>
    BY DEF roomVars, composerVars
<1>2. LivesInvariant' /\ ComposerInvariant'
    BY <1>1 DEF SidebarInvariant, LivesInvariant, Seen, ComposerInvariant
<1> QED BY <1>1, <1>2 DEF SidebarInvariant

\* A run begins with what is typed and shown.
LEMMA ExecuteKeeps ==
    ASSUME SidebarInvariant, Execute
    PROVE  SidebarInvariant'
<1>1. /\ UNCHANGED <<roomVars, shown, composerVars, mounts, lives>> /\ scope # NoInstance
      /\ \E input \in {raw, form} :
             run' = [stage |-> "gating", op |-> operation, inst |-> scope,
                     mount |-> shown.mounts[scope], input |-> input,
                     asked |-> 0, met |-> 0, outcome |-> "none"]
    BY DEF Execute, roomVars
<1>2. PICK input \in {raw, form} :
          run' = [stage |-> "gating", op |-> operation, inst |-> scope,
                  mount |-> shown.mounts[scope], input |-> input,
                  asked |-> 0, met |-> 0, outcome |-> "none"]
    BY <1>1
<1>3. /\ scope \in Instance /\ Seen(shown.mounts[scope], scope)
      /\ input.op = operation /\ input.life = shown.mounts[scope].life
      /\ operation \in AllOperations /\ lives \in Nat
    BY <1>1 DEF SidebarInvariant, ComposerInvariant, LivesInvariant
<1>4. Seen(shown.mounts[scope], scope)' = Seen(shown.mounts[scope], scope)
    BY <1>1 DEF Seen, composerVars
<1>5. Seen(run.mount, run.inst)'
    BY <1>1, <1>2, <1>3 DEF Seen
<1>6. RunInvariant'
    BY <1>1, <1>2, <1>3, <1>5 DEF RunInvariant, NoRun, Stage
<1> QED BY <1>1, <1>6, OutsideRunIsKept

\* A step of a run that stays with its operation, its mount and its input.
LEMMA RunGoesOn ==
    ASSUME SidebarInvariant, UNCHANGED <<roomVars, shown, composerVars>>,
           run.stage # "idle", run'.stage \in Stage \ {"idle", "gating"},
           DOMAIN run' = DOMAIN run, UNCHANGED <<run.op, run.inst, run.mount, run.input>>,
           run'.asked \in 0..lives,
           run'.stage \in {"sent", "upstream"} => run'.outcome = "none",
           run'.stage = "gateBody" => run'.outcome \in {"none", "BLOCKED"},
           /\ run'.stage \in {"gateBody", "sent"} /\ run'.outcome = "none"
           /\ run'.asked = mounts[run.inst].life /\ mounts[run.inst] # Gone
           => Rule(run.op) \in mounts[run.inst].caps,
           run'.stage = "sent" => CanRun(run)
    PROVE  SidebarInvariant'
<1>1. UNCHANGED <<mounts, lives>> /\ RunInvariant
    BY DEF roomVars, SidebarInvariant
<1>2. run'.stage = "sent" => CanRun(run)'
    BY DEF CanRun
<1>3. Seen(run.mount, run.inst)' = Seen(run.mount, run.inst)
    BY <1>1 DEF Seen
<1>4. RunInvariant'
    BY <1>1, <1>2, <1>3 DEF RunInvariant
<1> QED BY <1>4, OutsideRunIsKept

\* The gates decide on what roomd has reported of the mount that it has.
LEMMA RunStepKeeps ==
    ASSUME SidebarInvariant, RunStep
    PROVE  SidebarInvariant'
<1>1. /\ RunInvariant /\ lives \in Nat
      /\ \A i \in Instance : mounts[i].life \in 0..lives
    BY DEF SidebarInvariant, LivesInvariant, Seen
<1>2. UNCHANGED <<roomVars, shown, composerVars>>
    BY DEF RunStep, CapabilitiesAnswered, GatesDecide, BodyUnreadable, RequestArrives,
           ServerAnswers, BodyIsRead, RequestFails
<1>3. CASE run' = NoRun
    <2>1. RunInvariant'
        BY <1>1, <1>2, <1>3 DEF RunInvariant, NoRun, AllOperations, Stage, roomVars
    <2> QED BY <1>2, <2>1, OutsideRunIsKept
<1>4. CASE CapabilitiesAnswered
    <2>1. run.stage = "gating" /\ run.inst \in Instance /\ DOMAIN run = DOMAIN NoRun
        BY <1>1, <1>4 DEF CapabilitiesAnswered, RunInvariant
    <2>2. /\ DOMAIN run' = DOMAIN run /\ UNCHANGED <<run.op, run.inst, run.mount, run.input>>
          /\ run'.stage = "gateBody" /\ run'.asked = mounts[run.inst].life
          /\ run'.outcome = IF Rule(run.op) \in mounts[run.inst].caps THEN "none"
                            ELSE "BLOCKED"
        BY <1>4, <2>1 DEF CapabilitiesAnswered, NoRun
    <2> QED BY <1>1, <1>2, <2>1, <2>2, RunGoesOn DEF Stage
<1>5. CASE GatesDecide /\ run' # NoRun
    <2>1. /\ run.stage = "gateBody" /\ run.outcome # "BLOCKED" /\ CanRun(run)
          /\ run' = [run EXCEPT !.stage = "sent"]
        BY <1>5 DEF GatesDecide, Record
    <2>2. /\ DOMAIN run' = DOMAIN run /\ UNCHANGED <<run.op, run.inst, run.mount, run.input>>
          /\ run'.stage = "sent" /\ run'.asked = run.asked /\ run'.outcome = run.outcome
        BY <1>1, <2>1 DEF RunInvariant, NoRun
    <2>3. /\ run.outcome = "none" /\ run.asked \in 0..lives
          /\ run.asked = mounts[run.inst].life /\ mounts[run.inst] # Gone
             => Rule(run.op) \in mounts[run.inst].caps
        BY <1>1, <2>1 DEF RunInvariant
    <2> QED BY <1>2, <2>1, <2>2, <2>3, RunGoesOn DEF Stage
<1>6. CASE RequestArrives \/ \E outcome \in {"UPSTREAM_ERROR", "success"} : ServerAnswers(outcome)
    <2>1. /\ run.stage # "idle" /\ run.outcome = "none"
          /\ DOMAIN run' = DOMAIN run /\ UNCHANGED <<run.op, run.inst, run.mount, run.input>>
          /\ run'.stage \in {"upstream", "body"} /\ run'.asked = run.asked
          /\ run'.stage = "upstream" => run'.outcome = run.outcome
        BY <1>1, <1>6 DEF RequestArrives, ServerAnswers, RunInvariant, NoRun
    <2>2. run.asked \in 0..lives
        BY <1>1 DEF RunInvariant
    <2> QED BY <1>2, <2>1, <2>2, RunGoesOn DEF Stage
<1> QED BY <1>3, <1>4, <1>5, <1>6
        DEF RunStep, BodyUnreadable, BodyIsRead, RequestFails, Record

-----------------------------------------------------------------------------
LEMMA SidebarInvariantInit == ASSUME Init PROVE SidebarInvariant
<1>1. /\ mounts = [i \in Instance |-> Gone] /\ shown.mounts = mounts /\ lives = 0
      /\ scope = NoInstance /\ operation \in AllOperations /\ run = NoRun
      /\ form = [value |-> "empty", op |-> operation, life |-> 0] /\ raw = form
    BY SidebarAssumption DEF Init, Nowhere, Blank
<1>2. LivesInvariant
    BY <1>1 DEF LivesInvariant, Seen, Gone
<1>3. ComposerInvariant
    BY <1>1 DEF ComposerInvariant, InputFields
<1>4. RunInvariant
    BY <1>1 DEF RunInvariant, NoRun, Stage, AllOperations
<1> QED BY <1>1, <1>2, <1>3, <1>4 DEF SidebarInvariant

LEMMA SidebarInvariantStep ==
    ASSUME SidebarInvariant, [Next]_vars
    PROVE  SidebarInvariant'
<1>1. CASE UNCHANGED vars
    <2>1. UNCHANGED <<roomVars, shown, composerVars, mounts, lives, run>>
        BY <1>1 DEF vars, roomVars, runVars
    <2>2. RunInvariant'
        BY <2>1, RunIsKept DEF SidebarInvariant
    <2> QED BY <2>1, <2>2, OutsideRunIsKept
<1>2. CASE Next
    BY <1>2, CommitKeeps, ComposerKeeps, ExecuteKeeps, RunStepKeeps DEF Next
<1> QED BY <1>1, <1>2

LEMMA SidebarIsInvariant == Spec => []SidebarInvariant
<1>1. Init => SidebarInvariant
    BY SidebarInvariantInit
<1>2. SidebarInvariant /\ [Next]_vars => SidebarInvariant'
    BY SidebarInvariantStep
<1> QED BY <1>1, <1>2, PTL DEF Spec

\* A run sends what was typed for its operation and its mount, for any
\* instances and operations, whatever the room does meanwhile.
THEOREM RunsSendTheirInput == Spec => []InputFitsRun
<1>1. SidebarInvariant => InputFitsRun
    BY DEF SidebarInvariant, RunInvariant, InputFitsRun
<1> QED BY <1>1, SidebarIsInvariant, PTL

-----------------------------------------------------------------------------
\* The two tables of capabilities are the same.
LEMMA TablesAgree ==
    ASSUME NEW op \in AllOperations
    PROVE  RoomdNeeds(op) = Rule(op)
BY DEF AllOperations, RoomdNeeds, Rule

\* roomd's answer to an operation that both gates of the sidebar let through.
LEMMA RoomdConcurs ==
    ASSUME SidebarInvariant, RequestArrives
    PROVE  GatesAgree'
<1> DEFINE mount == mounts[run.inst]
           verdict == Verdict(run.op, mount)
<1>1. /\ RunInvariant /\ run.stage = "sent" /\ run.outcome = "none"
      /\ run.op \in AllOperations /\ DOMAIN run = DOMAIN NoRun
    BY DEF RequestArrives, SidebarInvariant, RunInvariant
<1>2. /\ run'.met = mount.life /\ run'.asked = run.asked /\ run'.mount = run.mount
      /\ run'.outcome \in {"none", "UPSTREAM_ERROR", verdict}
    BY <1>1 DEF RequestArrives, NoRun
<1>3. ASSUME verdict = "UNSUPPORTED_CAPABILITY"
      PROVE  run.asked # mount.life
    <2>1. mount # Gone /\ Rule(run.op) \notin mount.caps
        BY <1>1, <1>3, TablesAgree DEF Verdict
    <2> QED BY <1>1, <2>1 DEF RunInvariant
<1>4. ASSUME verdict = "INVALID_COMMAND"
      PROVE  run.mount.life # mount.life
    <2>1. /\ run.op = "tools.call" /\ mount.tool # "missing"
          /\ "app" \notin Visibility(mount.tool)
        BY <1>4 DEF Verdict
    <2>2. "app" \in Visibility(run.mount.tool)
        BY <1>1, <2>1 DEF RunInvariant, CanRun, Visibility
    <2>3. run.mount # mount
        BY <2>1, <2>2
    <2> QED BY <1>1, <2>3 DEF RunInvariant, Seen
<1> QED BY <1>2, <1>3, <1>4 DEF GatesAgree

\* roomd refuses an operation only on another mount than the one that the
\* sidebar's gates had seen, for any servers and any history of mounts.
THEOREM GatesConcur == Spec => []GatesAgree
<1>1. Init => GatesAgree
    BY DEF Init, NoRun, GatesAgree
<1>2. ASSUME SidebarInvariant, GatesAgree, [Next]_vars
      PROVE  GatesAgree'
    <2>1. DOMAIN run = DOMAIN NoRun
        BY <1>2 DEF SidebarInvariant, RunInvariant
    <2>2. CASE RequestArrives
        BY <1>2, <2>2, RoomdConcurs
    <2>3. CASE UNCHANGED run
        BY <1>2, <2>3 DEF GatesAgree
    <2>4. CASE run'.outcome \in {"none", "BLOCKED", "UPSTREAM_ERROR", "success"}
        BY <2>4 DEF GatesAgree
    <2>5. CASE RunStep /\ ~RequestArrives
        <3>1. CASE run' = NoRun
            BY <2>4, <3>1 DEF NoRun
        <3>2. CASE CapabilitiesAnswered
            BY <2>1, <2>4, <3>2 DEF CapabilitiesAnswered, NoRun
        <3>3. CASE GatesDecide
            <4>1. run.outcome \in {"none", "BLOCKED"}
                BY <1>2, <3>3 DEF GatesDecide, SidebarInvariant, RunInvariant
            <4> QED BY <2>1, <2>4, <3>1, <3>3, <4>1 DEF GatesDecide, Record, NoRun
        <3>4. CASE \E outcome \in {"UPSTREAM_ERROR", "success"} : ServerAnswers(outcome)
            BY <2>1, <2>4, <3>4 DEF ServerAnswers, NoRun
        <3> QED BY <2>5, <3>1, <3>2, <3>3, <3>4
                DEF RunStep, BodyUnreadable, BodyIsRead, RequestFails, Record
    <2>6. CASE Execute
        BY <2>4, <2>6 DEF Execute
    <2>7. CASE ~RunStep /\ ~Execute
        BY <1>2, <2>3, <2>7
           DEF Next, vars, runVars, Render, ToggleRawMode, Commit, ChooseInstance,
               ChooseOperation, Type
    <2> QED BY <2>2, <2>5, <2>6, <2>7
<1> QED BY <1>1, <1>2, SidebarIsInvariant, PTL DEF Spec
=============================================================================
