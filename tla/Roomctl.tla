------------------------------ MODULE Roomctl ------------------------------
(***************************************************************************)
(* roomctl's two commands that take several requests (tools/roomctl):      *)
(* `await` polls a room's evidence for an event, `tool-call` reads the     *)
(* room, calls a tool and then polls for the events it was told to require *)
(* or, by default, for the initialization of an app that has not shown one *)
(* yet.  Their user reads the revision of a match from one `await` and     *)
(* passes it to the next.                                                  *)
(*                                                                         *)
(* roomd may go down and come up again, and then knows no room.            *)
(***************************************************************************)
EXTENDS Assurance

CONSTANTS
    Any,            \* no --instance filter
    Awaited,        \* the event `await` is used for
    MaxCommands,    \* bound: commands
    MaxReports,     \* bound: reports about Here
    MaxRestarts     \* bound: restarts of roomd

ASSUME RoomctlAssumption ==
    /\ Any \notin Instance
    /\ Awaited \in HostEvent
    /\ MaxCommands \in Nat /\ MaxReports \in Nat /\ MaxRestarts \in Nat

VARIABLES
    up,         \* whether roomd is running
    room,       \* whether it knows the room
    run,        \* its restarts so far
    reports,    \* reports about Here so far
    commands,   \* commands so far
    ctl,        \* the command
    user        \* what the user of `await` has been told

roomdVars == <<roomVars, up, room, run, reports>>
ctlVars == <<roomdVars, commands, ctl, user>>

-----------------------------------------------------------------------------
\* --require-evidence as given; with none, the default is inferred.
Requirement == {<<>>, <<"bridge_connected", "app_initialized">>}

\* What the command prints: an envelope of roomd's, or one of its own.
Envelope == {"none", "answered", "refused", "EVIDENCE_TIMEOUT",
             "REQUIRED_EVIDENCE_MISSING", "ROOMD_UNREACHABLE", "ROOMD_TIMEOUT",
             "ROOMD_CLIENT_ERROR"}

\* `run` is roomd's when the command read the baseline.  `upTo` is the revision
\* at which the current deadline passed, `missing` the events given up and theirs.
Command == [name : {"none", "await", "tool-call"},
            at : {"resting", "reading", "calling", "waiting", "polling"},
            inst : Instance \cup {Any}, inferred : BOOLEAN,
            baseline : Nat, run : Nat, required : Seq(HostEvent), call : Nat,
            rpc : {"none", "completed", "failed"},
            expired : BOOLEAN, upTo : Nat,
            found : SUBSET [event : HostEvent, revision : Nat],
            missing : SUBSET [event : HostEvent, upTo : Nat], printed : Envelope]
NoCommand == [name |-> "none", at |-> "resting", inst |-> Any, inferred |-> FALSE,
              baseline |-> 0, run |-> 0, required |-> <<>>, call |-> 0,
              rpc |-> "none", expired |-> FALSE, upTo |-> 0, found |-> {},
              missing |-> {}, printed |-> "none"]

First(ks) == CHOOSE k \in ks : \A j \in ks : k <= j

-----------------------------------------------------------------------------
(* Faulty variants; PROJECT.json names them as mutants.                    *)

Matches_Newest(event, inst, since) ==
    {k \in 1..Len(evidence) : /\ k = Len(evidence)
                              /\ evidence[k].event = event
                              /\ evidence[k].revision > since
                              /\ inst \in {Any, evidence[k].inst}}

MatchedRevision_OfRoom(ks) == revision

DeadlinePasses_Renewed ==
    /\ ctl.at = "polling" /\ ~ctl.expired
    /\ UNCHANGED ctlVars

Claims_WhateverTheAnswer(c) ==
    IF c.name # "tool-call" \/ c.printed \notin {"answered", "refused"} THEN {}
    ELSE {"rpc"} \cup {m.event : m \in c.found}

-----------------------------------------------------------------------------
\* findEvidenceMatch(): the records of the event after the revision, of any
\* instance if none is asked for.  The first of them is the match.
Matches(event, inst, since) ==
    {k \in 1..Len(evidence) : /\ evidence[k].event = event
                              /\ evidence[k].revision > since
                              /\ inst \in {Any, evidence[k].inst}}

\* The revision that `await` reports is the record's, not the room's: "chained
\* waits use this as a cursor".
MatchedRevision(ks) == evidence[First(ks)].revision

\* inferDefaultAwaitEvidence(): only for an instance with a UI whose app has
\* not been seen to initialize.
DefaultAwait ==
    IF mounted /\ resource # None /\ Level(evidence, Here) # "ui_app_initialized"
    THEN <<"app_initialized">> ELSE <<>>

\* deriveClaims(): what the answer to a tool call is said to prove.
Claims(c) ==
    IF c.name # "tool-call" \/ c.printed # "answered" THEN {}
    ELSE {"rpc"} \cup {m.event : m \in c.found}

-----------------------------------------------------------------------------
(* The command.                                                            *)

Ends(c, envelope) == [c EXCEPT !.at = "resting", !.printed = envelope]

\* The envelope of the call, which is roomd's whether it is an error or not.
Answer(c) == IF c.rpc = "completed" THEN "answered" ELSE "refused"

\* The next event to wait for, with a deadline of its own, or the end.
Continue(c) ==
    IF c.required # <<>> THEN [c EXCEPT !.at = "polling", !.expired = FALSE, !.upTo = 0]
    ELSE IF c.name = "await"
    THEN Ends(c, IF c.missing = {} THEN "answered" ELSE "EVIDENCE_TIMEOUT")
    ELSE Ends(c, IF c.missing = {} THEN Answer(c) ELSE "REQUIRED_EVIDENCE_MISSING")

\* `await`, from the start or from the match before.
AwaitBegins(inst, chained) ==
    /\ ctl.at = "resting" /\ commands < MaxCommands
    /\ chained => user.inst = inst
    /\ commands' = commands + 1
    /\ user' = IF chained THEN user
               ELSE [inst |-> inst, cursor |-> 0, told |-> {}, run |-> run]
    /\ ctl' = Continue([NoCommand EXCEPT
                            !.name = "await", !.inst = inst, !.run = run,
                            !.required = <<Awaited>>,
                            !.baseline = IF chained THEN user.cursor ELSE 0])
    /\ UNCHANGED roomdVars

\* With --no-await and no requirement the room is not read.
ToolCallBegins(require, noAwait) ==
    /\ ctl.at = "resting" /\ commands < MaxCommands
    /\ commands' = commands + 1
    /\ ctl' = [NoCommand EXCEPT
                 !.name = "tool-call", !.inst = Here, !.run = run, !.required = require,
                 !.at = IF noAwait /\ require = <<>> THEN "calling" ELSE "reading"]
    /\ UNCHANGED <<roomdVars, user>>

\* The state request before the call: the baseline, and the default
\* requirement.  The answer for an unknown room has no state in it.
ReadsBaseline ==
    /\ ctl.at = "reading" /\ up
    /\ LET inferred == ctl.required = <<>> /\ room /\ DefaultAwait # <<>> IN
       ctl' = [ctl EXCEPT !.at = "calling", !.run = run,
                          !.baseline = IF room THEN revision ELSE 0,
                          !.inferred = inferred,
                          !.required = IF inferred THEN DefaultAwait ELSE @]
    /\ UNCHANGED <<roomdVars, commands, user>>

CallReachesTool ==
    /\ ctl.at = "calling" /\ up /\ room
    /\ CallSent
    /\ ctl' = [ctl EXCEPT !.at = "waiting", !.call = calls + 1]
    /\ UNCHANGED <<up, room, run, reports, commands, user>>

\* 404 for the room or the instance, 400 for a server without tools, 403 for a
\* hidden tool, or a session that does not open.
CallRefused ==
    /\ ctl.at = "calling" /\ up
    /\ ctl' = Continue(ctl)
    /\ UNCHANGED <<roomdVars, commands, user>>

ToolAnswers(id, status) ==
    /\ CallSettled(id, status)
    /\ ctl' = IF ctl.at = "waiting" /\ ctl.call = id
              THEN Continue([ctl EXCEPT !.rpc = status]) ELSE ctl
    /\ UNCHANGED <<up, room, run, reports, commands, user>>

\* A round of awaitEvidence(): a match, or after the deadline none.  A round
\* without either changes nothing.
Poll ==
    LET event == Head(ctl.required)
        ks == IF room THEN Matches(event, ctl.inst, ctl.baseline) ELSE {}
        c == [ctl EXCEPT !.required = Tail(@)] IN
    /\ ctl.at = "polling" /\ up
    /\ \/ /\ ks # {}
          /\ ctl' = Continue([c EXCEPT !.found = @ \cup
                        {[event |-> event, revision |-> evidence[First(ks)].revision]}])
          /\ user' = IF ctl.name = "tool-call" THEN user
                     ELSE [user EXCEPT !.cursor = MatchedRevision(ks),
                                       !.told = @ \cup {evidence[First(ks)].revision}]
       \/ /\ ks = {} /\ ctl.expired
          /\ ctl' = Continue([c EXCEPT !.missing = @ \cup
                                           {[event |-> event, upTo |-> ctl.upTo]}])
          /\ UNCHANGED user
    /\ UNCHANGED <<roomdVars, commands>>

\* The clock of --max-wait or --evidence-max-wait.
DeadlinePasses ==
    /\ ctl.at = "polling" /\ ~ctl.expired
    /\ ctl' = [ctl EXCEPT !.expired = TRUE, !.upTo = IF up /\ room THEN revision ELSE 0]
    /\ UNCHANGED <<roomdVars, commands, user>>

\* The command ends with an envelope of its own.  A tool goes on.
RequestTimesOut ==
    /\ ctl.at # "resting"
    /\ ctl' = Ends(ctl, "ROOMD_TIMEOUT")
    /\ UNCHANGED <<roomdVars, commands, user>>

Unreachable ==
    /\ ctl.at # "resting" /\ ~up
    /\ ctl' = Ends(ctl, "ROOMD_UNREACHABLE")
    /\ UNCHANGED <<roomdVars, commands, user>>

-----------------------------------------------------------------------------
(* roomd.                                                                  *)

\* A command whose request is under way loses its connection.
GoesDown ==
    /\ up /\ run < MaxRestarts
    /\ up' = FALSE /\ room' = FALSE
    /\ revision' = 0 /\ mounted' = FALSE /\ resource' = None /\ call' = NoCall
    /\ running' = {} /\ evidence' = <<>>
    /\ ctl' = IF ctl.at = "waiting" THEN Ends(ctl, "ROOMD_CLIENT_ERROR") ELSE ctl
    /\ UNCHANGED <<life, calls, elsewhere, run, reports, commands, user>>

ComesUp ==
    /\ ~up
    /\ up' = TRUE /\ run' = run + 1
    /\ UNCHANGED <<roomVars, room, reports, commands, ctl, user>>

CreateRoom ==
    /\ up /\ ~room
    /\ room' = TRUE
    /\ UNCHANGED <<roomVars, up, run, reports, commands, ctl, user>>

\* Hosts report, in any order, on what is mounted.
HostReports(event) ==
    /\ room /\ mounted /\ reports < MaxReports
    /\ reports' = reports + 1
    /\ Report(event, life)
    /\ UNCHANGED <<up, room, run, commands, ctl, user>>

Others ==
    /\ room
    /\ Elsewhere
    /\ UNCHANGED <<up, room, run, reports, commands, ctl, user>>

CtlInit ==
    /\ RoomInit
    /\ up = TRUE /\ room = TRUE /\ run = 0 /\ reports = 0
    /\ commands = 0 /\ ctl = NoCommand
    /\ user = [inst |-> Any, cursor |-> 0, told |-> {}, run |-> 0]

CtlStep ==
    \/ ReadsBaseline \/ CallReachesTool \/ CallRefused \/ Poll \/ DeadlinePasses
    \/ RequestTimesOut \/ Unreachable

CtlNext ==
    \/ \E inst \in {Here, Any}, chained \in BOOLEAN : AwaitBegins(inst, chained)
    \/ \E require \in Requirement, noAwait \in BOOLEAN : ToolCallBegins(require, noAwait)
    \/ CtlStep
    \/ \E id \in running, status \in {"completed", "failed"} : ToolAnswers(id, status)
    \/ GoesDown \/ ComesUp \/ CreateRoom \/ Others
    \/ \E event \in {"bridge_connected", "app_initialized"} : HostReports(event)

CtlSpec == CtlInit /\ [][CtlNext]_ctlVars

\* A request other than a poll is answered or times out, and is refused while
\* roomd is down; the loop goes round and its clock runs.  That a poll's request
\* times out is possible, but nothing to count on.
CtlFairSpec ==
    /\ CtlSpec
    /\ WF_ctlVars(\/ ReadsBaseline \/ CallReachesTool \/ CallRefused
                  \/ ctl.at # "polling" /\ RequestTimesOut)
    /\ WF_ctlVars(Unreachable) /\ WF_ctlVars(DeadlinePasses) /\ WF_ctlVars(Poll)

-----------------------------------------------------------------------------
(* Properties.                                                             *)

CtlTypeOK ==
    /\ RoomTypeOK
    /\ up \in BOOLEAN /\ room \in BOOLEAN /\ run \in Nat /\ reports \in Nat
    /\ commands \in Nat /\ ctl \in Command

\* A user who passes on the revision of each match is told of every record of
\* the event up to there, except those of a room that roomd has forgotten.
ChainSkipsNothing ==
    \A k \in 1..Len(evidence) :
        /\ user.run = run
        /\ evidence[k].event = Awaited
        /\ user.inst \in {Any, evidence[k].inst}
        /\ evidence[k].revision <= user.cursor
        => evidence[k].revision \in user.told

\* An event is given up only if, when its deadline passed, the room held no
\* report of it that is younger than the baseline.
NothingOverlooked ==
    \A m \in ctl.missing, k \in 1..Len(evidence) :
        ctl.run = run =>
            ~ /\ evidence[k].event = m.event
              /\ ctl.inst \in {Any, evidence[k].inst}
              /\ ctl.baseline < evidence[k].revision
              /\ evidence[k].revision <= m.upTo

\* roomctl claims of a tool call only what happened: that it completed, and
\* lifecycle events that the room recorded after its baseline.
ClaimsAreTrue ==
    Claims(ctl) # {} =>
        /\ ctl.rpc = "completed"
        /\ ctl.inferred => "app_initialized" \in Claims(ctl)

\* A command comes to an end, whatever roomd, the host and the tool do.
CommandEnds == (ctl.at # "resting") ~> (ctl.at = "resting")

=============================================================================
