-------------------------- MODULE Assurance_proofs --------------------------
(* The evidence of a room, what roomctl makes of it, and the tile that      *)
(* writes it, for any number of instances, lives, calls, commands, restarts *)
(* and reports, and any limit of the list.                                  *)
EXTENDS Roomctl, HostInstance, Lists_proofs

-----------------------------------------------------------------------------
(* The list of evidence.                                                    *)

\* Every record bears the revision it was written in, each a revision of its own.
Ordered ==
    \A k \in 1..Len(evidence) :
        /\ evidence[k].revision \in 1..revision
        /\ \A j \in 1..(k - 1) : evidence[j].revision < evidence[k].revision

RoomInvariant == RoomTypeOK /\ Ordered

\* A step that forgets records, or writes ones of later revisions.
RoomGrows ==
    /\ revision <= revision'
    /\ \A k \in 1..Len(evidence') :
           \/ \E j \in 1..Len(evidence) : evidence'[k] = evidence[j]
           \/ revision < evidence'[k].revision

LEMMA AppendKeepsEvidence ==
    ASSUME RoomInvariant, NEW event \in HostEvent \cup RoomEvent, NEW inst \in Instance,
           NEW about \in Nat, AppendEvidence(event, inst, about)
    PROVE  /\ revision' \in Nat /\ evidence' \in Seq(Record) /\ Ordered' /\ RoomGrows
           /\ Elements(evidence') \subseteq
                  Elements(evidence) \cup {[event |-> event, inst |-> inst,
                                            revision |-> revision + 1, life |-> about]}
<1> DEFINE record == [event |-> event, inst |-> inst, revision |-> revision + 1,
                      life |-> about]
           grown == Append(evidence, record)
<1>1. /\ revision \in Nat /\ evidence \in Seq(Record) /\ record \in Record
      /\ record.revision = revision + 1
      /\ revision' = revision + 1 /\ evidence' = Newest(grown, EvidenceHistoryLimit)
      /\ EvidenceHistoryLimit \in Nat
    BY AssuranceAssumption DEF RoomInvariant, RoomTypeOK, AppendEvidence, Kept, Record
<1> HIDE DEF record
<1>2. /\ grown \in Seq(Record) /\ Len(grown) = Len(evidence) + 1 /\ Len(evidence) \in Nat
      /\ grown[Len(evidence) + 1] = record
      /\ \A k \in 1..Len(evidence) : grown[k] = evidence[k]
    BY <1>1, AppendProperties, LenProperties
<1>3. Elements(grown) = Elements(evidence) \cup {record}
    BY <1>1, ElementsAppend
<1> HIDE DEF grown
<1>4. /\ evidence' \in Seq(Record)
      /\ Len(evidence') = (IF Len(grown) <= EvidenceHistoryLimit THEN Len(grown)
                                                         ELSE EvidenceHistoryLimit)
      /\ \A k \in 1..Len(evidence') : evidence'[k] = grown[Len(grown) - Len(evidence') + k]
  <2>1. grown \in Seq(Record) /\ EvidenceHistoryLimit \in Nat
      BY <1>1, <1>2
  <2>2. /\ Newest(grown, EvidenceHistoryLimit) \in Seq(Record)
        /\ Len(Newest(grown, EvidenceHistoryLimit)) =
               (IF Len(grown) <= EvidenceHistoryLimit THEN Len(grown)
                ELSE EvidenceHistoryLimit)
        /\ \A k \in 1..Len(Newest(grown, EvidenceHistoryLimit)) :
               Newest(grown, EvidenceHistoryLimit)[k] =
                   grown[Len(grown) - Len(Newest(grown, EvidenceHistoryLimit)) + k]
      BY <2>1, NewestProperties, ZenonT(60)
  <2> QED BY <1>1, <2>2
<1> DEFINE gone == Len(grown) - Len(evidence')
<1>5. /\ gone \in Nat /\ Len(evidence') \in Nat /\ gone + Len(evidence') = Len(evidence) + 1
      /\ \A k \in 1..Len(evidence') : evidence'[k] = grown[gone + k]
  <2>1. Len(grown) \in Nat /\ Len(evidence') \in Nat /\ Len(evidence') <= Len(grown)
      BY <1>1, <1>2, <1>4
  <2> QED BY <1>2, <1>4, <2>1
<1> HIDE DEF gone
<1>6. ASSUME NEW k \in 1..Len(evidence')
      PROVE  /\ gone + k \in 1..Len(evidence) + 1
             /\ \/ gone + k \in 1..Len(evidence) /\ evidence'[k] = evidence[gone + k]
                \/ gone + k = Len(evidence) + 1 /\ evidence'[k] = record
  <2>1. gone + k \in 1..Len(evidence) + 1
      BY <1>2, <1>5
  <2>2. gone + k \in 1..Len(evidence) \/ gone + k = Len(evidence) + 1
      BY <1>2, <2>1
  <2> QED BY <1>2, <1>5, <2>1, <2>2
<1>7. \A k \in 1..Len(evidence) : evidence[k].revision \in 1..revision
    BY DEF RoomInvariant, Ordered
<1>8. Ordered'
  <2>1. ASSUME NEW k \in 1..Len(evidence') PROVE evidence'[k].revision \in 1..revision'
    <3>1. evidence'[k].revision \in 1..revision \/ evidence'[k].revision = revision + 1
        BY <1>1, <1>6, <1>7
    <3> QED BY <1>1, <3>1
  <2>2. ASSUME NEW k \in 1..Len(evidence'), NEW j \in 1..(k - 1)
        PROVE  evidence'[j].revision < evidence'[k].revision
    <3>1. /\ j \in 1..Len(evidence') /\ gone + j \in 1..Len(evidence)
          /\ gone + j \in 1..((gone + k) - 1)
      <4>1. gone + k \in 1..Len(evidence) + 1
          BY <1>6
      <4> QED BY <1>2, <1>5, <4>1
    <3>2. evidence'[j] = evidence[gone + j] /\ evidence'[j].revision \in 1..revision
        BY <1>2, <1>6, <1>7, <3>1
    <3>3. CASE gone + k \in 1..Len(evidence) /\ evidence'[k] = evidence[gone + k]
        BY <3>1, <3>2, <3>3 DEF RoomInvariant, Ordered
    <3>4. CASE evidence'[k] = record
        BY <1>1, <3>2, <3>4
    <3> QED BY <1>6, <3>3, <3>4
  <2> QED BY <2>1, <2>2 DEF Ordered
<1>9. RoomGrows
  <2>1. revision <= revision' /\ revision < revision + 1
      BY <1>1
  <2>2. ASSUME NEW k \in 1..Len(evidence')
        PROVE  \/ \E j \in 1..Len(evidence) : evidence'[k] = evidence[j]
               \/ revision < evidence'[k].revision
      BY <1>1, <1>6, <2>1
  <2> QED BY <2>1, <2>2 DEF RoomGrows
<1>10. Elements(evidence') \subseteq Elements(evidence) \cup {record}
  <2>1. Elements(evidence') \subseteq Elements(grown)
      BY <1>1, <1>2, ElementsNewest
  <2> QED BY <1>3, <2>1
<1> QED BY <1>1, <1>4, <1>8, <1>9, <1>10 DEF record

LEMMA SameEvidence ==
    ASSUME RoomInvariant, evidence' = evidence, revision' \in Nat, revision <= revision'
    PROVE  evidence' \in Seq(Record) /\ Ordered' /\ RoomGrows
<1>1. evidence \in Seq(Record) /\ revision \in Nat
    BY DEF RoomInvariant, RoomTypeOK
<1>2. Ordered'
  <2>1. \A k \in 1..Len(evidence) : evidence[k].revision \in 1..revision'
      BY <1>1 DEF RoomInvariant, Ordered
  <2> QED BY <2>1 DEF RoomInvariant, Ordered
<1> QED BY <1>1, <1>2 DEF RoomGrows

-----------------------------------------------------------------------------
(* The steps of the room.                                                   *)

LEMMA RoomStarts == RoomInit => RoomInvariant
<1> SUFFICES ASSUME RoomInit PROVE RoomInvariant
    OBVIOUS
<1>1. evidence = <<>> /\ evidence \in Seq(Record) /\ Len(evidence) = 0
    BY EmptySeq DEF RoomInit
<1>2. RoomTypeOK
  <2>1. NoCall \in Invocation
      BY DEF NoCall, Invocation
  <2>2. 0 \in Nat /\ 0 \in 0..MaxLives /\ 0 \in 0..MaxCalls /\ {} \subseteq 1..0
      BY AssuranceAssumption
  <2> QED BY <1>1, <2>1, <2>2 DEF RoomInit, RoomTypeOK
<1>3. Ordered
    BY <1>1 DEF Ordered
<1> QED BY <1>2, <1>3 DEF RoomInvariant

LEMMA MountKeepsRoom ==
    ASSUME RoomInvariant, NEW uri \in Resource \cup {None}, MountHere(uri)
    PROVE  RoomInvariant' /\ RoomGrows
<1>1. /\ "mount_applied" \in HostEvent \cup RoomEvent /\ Here \in Instance
      /\ life + 1 \in Nat /\ life + 1 \in 0..MaxLives
    BY AssuranceAssumption DEF RoomEvent, MountHere, RoomInvariant, RoomTypeOK
<1>2. /\ revision' \in Nat /\ evidence' \in Seq(Record) /\ Ordered' /\ RoomGrows
    BY <1>1, AppendKeepsEvidence DEF MountHere
<1>3. RoomTypeOK'
    BY <1>1, <1>2 DEF MountHere, RoomInvariant, RoomTypeOK, NoCall, Invocation
<1> QED BY <1>2, <1>3 DEF RoomInvariant

LEMMA UnmountKeepsRoom ==
    ASSUME RoomInvariant, UnmountHere
    PROVE  RoomInvariant' /\ RoomGrows
<1>1. revision \in Nat /\ revision' \in Nat /\ revision <= revision'
    BY DEF UnmountHere, RoomInvariant, RoomTypeOK
<1>2. evidence' \in Seq(Record) /\ Ordered' /\ RoomGrows
    BY <1>1, SameEvidence DEF UnmountHere
<1>3. RoomTypeOK'
    BY <1>1, <1>2 DEF UnmountHere, RoomInvariant, RoomTypeOK, NoCall, Invocation
<1> QED BY <1>2, <1>3 DEF RoomInvariant

LEMMA ElsewhereReportsKeepsRoom ==
    ASSUME RoomInvariant, NEW inst \in Instance, ElsewhereReports(inst)
    PROVE  RoomInvariant' /\ RoomGrows
<1>1. "app_initialized" \in HostEvent \cup RoomEvent /\ 0 \in Nat
    BY DEF HostEvent
<1>2. /\ revision' \in Nat /\ evidence' \in Seq(Record) /\ Ordered' /\ RoomGrows
    BY <1>1, AppendKeepsEvidence DEF ElsewhereReports
<1>3. RoomTypeOK'
    BY <1>2 DEF ElsewhereReports, RoomInvariant, RoomTypeOK
<1> QED BY <1>2, <1>3 DEF RoomInvariant

LEMMA ReportKeepsRoom ==
    ASSUME RoomInvariant, NEW event \in HostEvent, NEW about \in Nat, Report(event, about)
    PROVE  RoomInvariant' /\ RoomGrows
<1>1. /\ revision' \in Nat /\ evidence' \in Seq(Record) /\ Ordered' /\ RoomGrows
  <2>1. CASE mounted
      BY <2>1, AppendKeepsEvidence, AssuranceAssumption DEF Report
  <2>2. CASE ~mounted
      BY <2>2, SameEvidence DEF Report, RoomInvariant, RoomTypeOK
  <2> QED BY <2>1, <2>2
<1>2. RoomTypeOK'
    BY <1>1 DEF Report, RoomInvariant, RoomTypeOK
<1> QED BY <1>1, <1>2 DEF RoomInvariant

LEMMA CallSentKeepsRoom ==
    ASSUME RoomInvariant, CallSent
    PROVE  RoomInvariant' /\ RoomGrows
<1>1. /\ "rpc_sent" \in HostEvent \cup RoomEvent /\ Here \in Instance /\ life \in Nat
      /\ calls \in Nat /\ calls' = calls + 1 /\ calls' \in 0..MaxCalls
      /\ running' = running \cup {calls + 1} /\ running \subseteq 1..calls
    BY AssuranceAssumption DEF RoomEvent, CallSent, RoomInvariant, RoomTypeOK
<1>2. /\ revision' \in Nat /\ evidence' \in Seq(Record) /\ Ordered' /\ RoomGrows
    BY <1>1, AppendKeepsEvidence DEF CallSent
<1>3. call' \in Invocation /\ running' \subseteq 1..calls'
    BY <1>1 DEF CallSent, Invocation
<1>4. RoomTypeOK'
    BY <1>1, <1>2, <1>3 DEF CallSent, RoomInvariant, RoomTypeOK
<1> QED BY <1>2, <1>4 DEF RoomInvariant

LEMMA CallSettledKeepsRoom ==
    ASSUME RoomInvariant, NEW id, NEW status \in {"completed", "failed"},
           CallSettled(id, status)
    PROVE  RoomInvariant' /\ RoomGrows
<1>1. /\ revision' \in Nat /\ evidence' \in Seq(Record) /\ Ordered' /\ RoomGrows
      /\ call' \in Invocation
  <2>1. CASE call.id = id
    <3>1. /\ "rpc_succeeded" \in HostEvent \cup RoomEvent
          /\ "rpc_failed" \in HostEvent \cup RoomEvent
          /\ Here \in Instance /\ life \in Nat
        BY AssuranceAssumption DEF RoomEvent, RoomInvariant, RoomTypeOK
    <3>2. /\ revision' \in Nat /\ evidence' \in Seq(Record) /\ Ordered' /\ RoomGrows
      <4>1. CASE status = "completed"
          BY <2>1, <3>1, <4>1, AppendKeepsEvidence DEF CallSettled
      <4>2. CASE status = "failed"
          BY <2>1, <3>1, <4>2, AppendKeepsEvidence DEF CallSettled
      <4> QED BY <4>1, <4>2
    <3>3. call' \in Invocation
        BY <2>1 DEF CallSettled, RoomInvariant, RoomTypeOK, Invocation
    <3> QED BY <3>2, <3>3
  <2>2. CASE call.id # id
      BY <2>2, SameEvidence DEF CallSettled, RoomInvariant, RoomTypeOK
  <2> QED BY <2>1, <2>2
<1>2. RoomTypeOK'
    BY <1>1 DEF CallSettled, RoomInvariant, RoomTypeOK
<1> QED BY <1>1, <1>2 DEF RoomInvariant

LEMMA ElsewhereKeepsRoom ==
    ASSUME RoomInvariant, Elsewhere
    PROVE  RoomInvariant' /\ RoomGrows
BY MountKeepsRoom, UnmountKeepsRoom, ElsewhereReportsKeepsRoom DEF Elsewhere

LEMMA StutterKeepsRoom ==
    ASSUME RoomInvariant, UNCHANGED roomVars
    PROVE  RoomInvariant' /\ RoomGrows
<1>1. evidence' = evidence /\ revision' \in Nat /\ revision <= revision'
    BY DEF roomVars, RoomInvariant, RoomTypeOK
<1>2. RoomGrows
    BY <1>1, SameEvidence
<1> QED BY <1>2 DEF roomVars, RoomInvariant, RoomTypeOK, Ordered

-----------------------------------------------------------------------------
(* roomctl.                                                                 *)

\* A room that roomd has forgotten has no evidence, and no tool of it runs.
Forgotten ==
    /\ up \in BOOLEAN /\ room \in BOOLEAN /\ run \in Nat
    /\ reports \in Nat /\ commands \in Nat
    /\ ~room => evidence = <<>> /\ running = {}
    /\ ~up => ~room

User == [inst : Instance \cup {Any}, cursor : Nat, told : SUBSET Nat, run : Nat]

\* How far a command is.
Progress(c) ==
    /\ c.at # "resting" => c.printed = "none" /\ c.name # "none"
    /\ c.at \in {"reading", "calling", "waiting"} =>
           c.missing = {} /\ c.upTo = 0 /\ c.name = "tool-call"
    /\ c.at = "reading" => ~c.inferred
    /\ c.at = "polling" => c.required # <<>>
    /\ c.name = "await" /\ c.at = "polling" => c.required = <<Awaited>>
    /\ c.name = "tool-call" /\ c.inferred =>
           /\ c.at # "resting" => c.required = <<"app_initialized">>
           /\ c.printed = "answered" => \E m \in c.found : m.event = "app_initialized"
    /\ c.name = "tool-call" /\ c.printed = "answered" => c.rpc = "completed"

\* What it has seen of the room is not of the future; nor is what its user knows.
Seen(c, up1, run1, revision1) ==
    /\ c.run <= run1
    /\ up1 /\ c.run = run1 => /\ c.upTo <= revision1
                              /\ \A m \in c.missing : m.upTo <= revision1

Known(u, up1, run1, revision1) ==
    u.run <= run1 /\ (up1 /\ u.run = run1 => u.cursor <= revision1)

Chained(c, u) ==
    c.name = "await" /\ c.at = "polling" => c.inst = u.inst /\ c.baseline = u.cursor

CtlInvariant ==
    /\ RoomInvariant /\ Forgotten /\ ctl \in Command /\ user \in User
    /\ Progress(ctl) /\ Seen(ctl, up, run, revision)
    /\ Known(user, up, run, revision) /\ Chained(ctl, user)
    /\ NothingOverlooked /\ ChainSkipsNothing

\* roomd goes on, while the command has seen what it has seen.
LEMMA RoomdGoesOn ==
    ASSUME CtlInvariant, RoomInvariant', RoomGrows, room,
           UNCHANGED <<up, room, run>>, reports' \in Nat, commands' \in Nat,
           user' = user, ctl' \in Command, Progress(ctl'), Chained(ctl', user),
           ctl'.run = ctl.run, ctl'.missing = ctl.missing, ctl'.inst = ctl.inst,
           ctl'.baseline = ctl.baseline, ctl'.upTo \in {0, ctl.upTo}
    PROVE  CtlInvariant'
<1>1. /\ revision \in Nat /\ revision' \in Nat /\ revision <= revision'
      /\ user.cursor \in Nat /\ ctl.upTo \in Nat /\ \A m \in ctl.missing : m.upTo \in Nat
      /\ up
    BY DEF CtlInvariant, RoomInvariant, RoomTypeOK, RoomGrows, User, Command, Forgotten
<1>2. Forgotten'
    BY DEF CtlInvariant, Forgotten
<1>3. Seen(ctl', up', run', revision')
  <2>1. \A n \in Nat : n <= revision => n <= revision'
      BY <1>1
  <2>2. 0 <= revision'
      BY <1>1
  <2> QED BY <1>1, <2>1, <2>2 DEF CtlInvariant, Seen
<1>4. Known(user', up', run', revision')
    BY <1>1 DEF CtlInvariant, Known
<1>5. ASSUME NEW k \in 1..Len(evidence')
      PROVE  \/ \E j \in 1..Len(evidence) : evidence'[k] = evidence[j]
             \/ evidence'[k].revision \in Nat /\ revision < evidence'[k].revision
    BY <1>1, <1>5 DEF RoomGrows, RoomInvariant, Ordered
<1>6. NothingOverlooked'
  <2>1. ASSUME NEW m \in ctl.missing, NEW k \in 1..Len(evidence'), ctl.run = run,
               evidence'[k].event = m.event, ctl.inst \in {Any, evidence'[k].inst},
               ctl.baseline < evidence'[k].revision, evidence'[k].revision <= m.upTo
        PROVE  FALSE
    <3>1. m.upTo \in Nat /\ m.upTo <= revision
        BY <1>1, <2>1 DEF CtlInvariant, Seen
    <3>2. CASE \E j \in 1..Len(evidence) : evidence'[k] = evidence[j]
        BY <2>1, <3>2 DEF CtlInvariant, NothingOverlooked
    <3>3. CASE evidence'[k].revision \in Nat /\ revision < evidence'[k].revision
        BY <1>1, <2>1, <3>1, <3>3
    <3> QED BY <1>5, <3>2, <3>3
  <2> QED BY <2>1 DEF NothingOverlooked
<1>7. ChainSkipsNothing'
  <2>1. ASSUME NEW k \in 1..Len(evidence'), user.run = run,
               evidence'[k].event = Awaited, user.inst \in {Any, evidence'[k].inst},
               evidence'[k].revision <= user.cursor
        PROVE  evidence'[k].revision \in user.told
    <3>1. user.cursor <= revision
        BY <1>1, <2>1 DEF CtlInvariant, Known
    <3>2. CASE \E j \in 1..Len(evidence) : evidence'[k] = evidence[j]
        BY <2>1, <3>2 DEF CtlInvariant, ChainSkipsNothing
    <3>3. CASE evidence'[k].revision \in Nat /\ revision < evidence'[k].revision
        BY <1>1, <2>1, <3>1, <3>3
    <3> QED BY <1>5, <3>2, <3>3
  <2> QED BY <2>1 DEF ChainSkipsNothing
<1> QED BY <1>2, <1>3, <1>4, <1>6, <1>7 DEF CtlInvariant

LEMMA NoCommandTyped == NoCommand \in Command
<1>1. <<>> \in Seq(HostEvent)
    BY EmptySeq
<1> QED BY <1>1 DEF NoCommand, Command, Envelope

\* Waiting for the next event, or the end.
LEMMA ContinueProgresses ==
    ASSUME NEW c \in Command, c.printed = "none", c.name # "none",
           c.name = "await" => c.required \in {<<>>, <<Awaited>>},
           c.name = "tool-call" /\ c.inferred =>
               \/ c.required = <<"app_initialized">>
               \/ /\ c.required = <<>>
                  /\ c.missing = {} => \E m \in c.found : m.event = "app_initialized"
    PROVE  /\ Continue(c) \in Command /\ Progress(Continue(c))
           /\ Continue(c).run = c.run /\ Continue(c).missing = c.missing
           /\ Continue(c).inst = c.inst /\ Continue(c).baseline = c.baseline
           /\ Continue(c).upTo \in {0, c.upTo} /\ Continue(c).name = c.name
           /\ Continue(c).at = "polling" => c.required # <<>>
<1> DEFINE d == Continue(c)
<1>1. CASE c.required # <<>>
  <2>1. d = [c EXCEPT !.at = "polling", !.expired = FALSE, !.upTo = 0]
      BY <1>1 DEF Continue
  <2> HIDE DEF d
  <2>2. /\ d \in Command /\ d.at = "polling" /\ d.printed = "none" /\ d.required = c.required
        /\ d.run = c.run /\ d.missing = c.missing /\ d.inst = c.inst
        /\ d.baseline = c.baseline /\ d.upTo = 0 /\ d.name = c.name
        /\ d.inferred = c.inferred /\ d.found = c.found
      BY <2>1 DEF Command
  <2>3. Progress(d)
    <3>1. d.name = "tool-call" /\ d.inferred => d.required = <<"app_initialized">>
        BY <1>1, <2>2
    <3> QED BY <1>1, <2>2, <3>1 DEF Progress
  <2> QED BY <1>1, <2>2, <2>3 DEF d
<1>2. CASE c.required = <<>>
  <2>1. PICK e \in Envelope :
            /\ d = Ends(c, e)
            /\ c.name = "tool-call" /\ e = "answered" =>
                   c.missing = {} /\ c.rpc = "completed"
      BY <1>2 DEF Continue, Answer, Envelope
  <2> HIDE DEF d
  <2>2. /\ d \in Command /\ d.at = "resting" /\ d.printed = e
        /\ d.run = c.run /\ d.missing = c.missing /\ d.inst = c.inst
        /\ d.baseline = c.baseline /\ d.upTo = c.upTo /\ d.name = c.name
        /\ d.inferred = c.inferred /\ d.found = c.found /\ d.rpc = c.rpc
      BY <2>1 DEF Command, Ends
  <2>3. Progress(d)
    <3>1. <<"app_initialized">> # <<>>
        OBVIOUS
    <3>2. d.name = "tool-call" /\ d.inferred /\ d.printed = "answered" =>
              \E m \in d.found : m.event = "app_initialized"
        BY <1>2, <2>1, <2>2, <3>1
    <3> QED BY <2>1, <2>2, <3>2 DEF Progress
  <2> QED BY <1>2, <2>2, <2>3 DEF d
<1> QED BY <1>1, <1>2

LEMMA EndsProgresses ==
    ASSUME NEW c \in Command, NEW e \in Envelope \ {"answered"}
    PROVE  /\ Ends(c, e) \in Command /\ Progress(Ends(c, e)) /\ Ends(c, e).at = "resting"
           /\ Ends(c, e).run = c.run /\ Ends(c, e).missing = c.missing
           /\ Ends(c, e).inst = c.inst /\ Ends(c, e).baseline = c.baseline
           /\ Ends(c, e).upTo = c.upTo
<1> DEFINE d == Ends(c, e)
<1>1. /\ d \in Command /\ d.at = "resting" /\ d.printed = e /\ e # "answered"
      /\ d.run = c.run /\ d.missing = c.missing /\ d.inst = c.inst
      /\ d.baseline = c.baseline /\ d.upTo = c.upTo
    BY DEF Command, Ends
<1> HIDE DEF d
<1>2. Progress(d)
    BY <1>1 DEF Progress
<1> QED BY <1>1, <1>2 DEF d

\* A step of the command alone, that gives up no event and tells the user nothing.
LEMMA CtlMoves ==
    ASSUME CtlInvariant, UNCHANGED roomdVars, commands' \in Nat, user' = user,
           ctl' \in Command, Progress(ctl'), Seen(ctl', up, run, revision),
           Chained(ctl', user),
           ctl'.missing = {}
               \/ /\ ctl'.missing = ctl.missing /\ ctl'.run = ctl.run
                  /\ ctl'.inst = ctl.inst /\ ctl'.baseline = ctl.baseline
    PROVE  CtlInvariant'
<1>1. RoomInvariant'
    BY StutterKeepsRoom DEF CtlInvariant, roomdVars
<1>2. Forgotten'
    BY DEF CtlInvariant, Forgotten, roomdVars, roomVars
<1>3. Seen(ctl', up', run', revision') /\ Known(user', up', run', revision')
    BY DEF CtlInvariant, roomdVars, roomVars
<1>4. NothingOverlooked'
    BY DEF CtlInvariant, NothingOverlooked, roomdVars, roomVars
<1>5. ChainSkipsNothing'
    BY DEF CtlInvariant, ChainSkipsNothing, roomdVars, roomVars
<1> QED BY <1>1, <1>2, <1>3, <1>4, <1>5 DEF CtlInvariant

LEMMA AwaitBeginsKeeps ==
    ASSUME CtlInvariant, NEW inst \in {Here, Any}, NEW chained \in BOOLEAN,
           AwaitBegins(inst, chained)
    PROVE  CtlInvariant'
<1> DEFINE base == [NoCommand EXCEPT
                        !.name = "await", !.inst = inst, !.run = run,
                        !.required = <<Awaited>>,
                        !.baseline = IF chained THEN user.cursor ELSE 0]
<1>1. /\ UNCHANGED roomdVars /\ commands' \in Nat /\ ctl' = Continue(base)
      /\ user' = (IF chained THEN user
                  ELSE [inst |-> inst, cursor |-> 0, told |-> {}, run |-> run])
      /\ chained => user.inst = inst
      /\ user \in User /\ run \in Nat /\ inst \in Instance \cup {Any}
    BY AssuranceAssumption DEF AwaitBegins, CtlInvariant, Forgotten
<1>2. /\ base \in Command /\ base.printed = "none" /\ base.name = "await"
      /\ base.required = <<Awaited>> /\ base.missing = {} /\ base.upTo = 0
      /\ base.inst = inst /\ base.run = run
      /\ base.baseline = (IF chained THEN user.cursor ELSE 0)
  <2>1. <<Awaited>> \in Seq(HostEvent) /\ user.cursor \in Nat
      BY <1>1, RoomctlAssumption DEF User
  <2>2. base \in Command
      BY <1>1, <2>1, NoCommandTyped DEF Command
  <2> QED BY <2>2, NoCommandTyped DEF NoCommand, Command
<1> HIDE DEF base
<1>3. /\ ctl' \in Command /\ Progress(ctl') /\ ctl'.run = run /\ ctl'.missing = {}
      /\ ctl'.inst = inst /\ ctl'.baseline = base.baseline /\ ctl'.upTo = 0
    BY <1>1, <1>2, ContinueProgresses
<1>4. RoomInvariant' /\ revision \in Nat
    BY <1>1, StutterKeepsRoom DEF CtlInvariant, roomdVars, RoomInvariant, RoomTypeOK
<1>5. Forgotten'
    BY <1>1 DEF CtlInvariant, Forgotten, roomdVars, roomVars
<1>6. user' \in User
    BY <1>1 DEF User
<1>7. Seen(ctl', up', run', revision') /\ NothingOverlooked'
    BY <1>1, <1>3, <1>4 DEF Seen, NothingOverlooked, roomdVars, roomVars
<1>8. CASE chained
  <2>1. user' = user
      BY <1>1, <1>8
  <2>2. Known(user', up', run', revision') /\ ChainSkipsNothing'
      BY <1>1, <2>1 DEF CtlInvariant, ChainSkipsNothing, roomdVars, roomVars
  <2>3. Chained(ctl', user')
      BY <1>1, <1>2, <1>3, <1>8, <2>1 DEF Chained
  <2> QED BY <1>3, <1>4, <1>5, <1>6, <1>7, <2>2, <2>3 DEF CtlInvariant
<1>9. CASE ~chained
  <2>1. user'.inst = inst /\ user'.cursor = 0 /\ user'.run = run
      BY <1>1, <1>9
  <2>2. Known(user', up', run', revision')
      BY <1>1, <1>4, <2>1 DEF Known, roomdVars, roomVars
  <2>3. ChainSkipsNothing'
    <3>1. \A k \in 1..Len(evidence') : ~(evidence'[k].revision <= 0)
        BY <1>4 DEF RoomInvariant, RoomTypeOK, Ordered
    <3> QED BY <2>1, <3>1 DEF ChainSkipsNothing
  <2>4. Chained(ctl', user')
      BY <1>2, <1>3, <1>9, <2>1 DEF Chained
  <2> QED BY <1>3, <1>4, <1>5, <1>6, <1>7, <2>2, <2>3, <2>4 DEF CtlInvariant
<1> QED BY <1>8, <1>9

LEMMA ToolCallBeginsKeeps ==
    ASSUME CtlInvariant, NEW require \in Requirement, NEW noAwait \in BOOLEAN,
           ToolCallBegins(require, noAwait)
    PROVE  CtlInvariant'
<1>1. /\ UNCHANGED roomdVars /\ commands' \in Nat /\ user' = user /\ run \in Nat
      /\ Here \in Instance /\ revision \in Nat
    BY AssuranceAssumption
    DEF ToolCallBegins, CtlInvariant, Forgotten, RoomInvariant, RoomTypeOK
<1>2. require \in Seq(HostEvent)
  <2>1. "bridge_connected" \in HostEvent /\ "app_initialized" \in HostEvent
      BY DEF HostEvent
  <2>2. <<"bridge_connected", "app_initialized">> \in Seq(HostEvent)
      BY <2>1
  <2> QED BY <2>2, EmptySeq DEF Requirement
<1>3. PICK at \in {"calling", "reading"} :
          ctl' = [NoCommand EXCEPT !.name = "tool-call", !.inst = Here, !.run = run,
                                   !.required = require, !.at = at]
    BY DEF ToolCallBegins
<1>4. /\ ctl' \in Command /\ ctl'.printed = "none" /\ ctl'.name = "tool-call"
      /\ ctl'.missing = {} /\ ctl'.upTo = 0 /\ ctl'.run = run /\ ctl'.inferred = FALSE
      /\ ctl'.at = at
  <2>1. ctl' \in Command
      BY <1>1, <1>2, <1>3, NoCommandTyped DEF Command
  <2> QED BY <1>3, <2>1, NoCommandTyped DEF NoCommand, Command
<1>5. Progress(ctl') /\ Seen(ctl', up, run, revision) /\ Chained(ctl', user)
    BY <1>1, <1>4 DEF Progress, Seen, Chained
<1> QED BY <1>1, <1>4, <1>5, CtlMoves

LEMMA ReadsBaselineKeeps ==
    ASSUME CtlInvariant, ReadsBaseline
    PROVE  CtlInvariant'
<1>1. /\ UNCHANGED roomdVars /\ commands' \in Nat /\ user' = user /\ run \in Nat
      /\ revision \in Nat /\ ctl \in Command /\ Progress(ctl) /\ ctl.at = "reading"
    BY DEF ReadsBaseline, CtlInvariant, Forgotten, RoomInvariant, RoomTypeOK
<1>2. PICK inferred \in BOOLEAN, base \in {0, revision} :
          /\ inferred => DefaultAwait # <<>>
          /\ ctl' = [ctl EXCEPT !.at = "calling", !.run = run, !.baseline = base,
                                !.inferred = inferred,
                                !.required = IF inferred THEN DefaultAwait ELSE @]
    BY DEF ReadsBaseline
<1>3. DefaultAwait # <<>> => DefaultAwait = <<"app_initialized">>
    BY DEF DefaultAwait
<1>4. <<"app_initialized">> \in Seq(HostEvent)
  <2>1. "app_initialized" \in HostEvent
      BY DEF HostEvent
  <2> QED BY <2>1
<1>5. /\ ctl' \in Command /\ ctl'.at = "calling" /\ ctl'.run = run
      /\ ctl'.inferred = inferred /\ ctl'.printed = "none" /\ ctl'.name = "tool-call"
      /\ ctl'.missing = {} /\ ctl'.upTo = 0
      /\ inferred => ctl'.required = <<"app_initialized">>
  <2>1. /\ ctl.printed = "none" /\ ctl.name = "tool-call" /\ ctl.missing = {}
        /\ ctl.upTo = 0
      BY <1>1 DEF Progress
  <2>2. ctl' \in Command
    <3>1. (IF inferred THEN DefaultAwait ELSE ctl.required) \in Seq(HostEvent)
        BY <1>1, <1>2, <1>3, <1>4 DEF Command
    <3>2. base \in Nat /\ run \in Nat /\ inferred \in BOOLEAN
        BY <1>1, <1>2
    <3> QED BY <1>1, <1>2, <3>1, <3>2 DEF Command
  <2> QED BY <1>1, <1>2, <1>3, <2>1, <2>2 DEF Command
<1>6. Progress(ctl') /\ Seen(ctl', up, run, revision) /\ Chained(ctl', user)
    BY <1>1, <1>5 DEF Progress, Seen, Chained
<1> QED BY <1>1, <1>5, <1>6, CtlMoves

LEMMA CallReachesToolKeeps ==
    ASSUME CtlInvariant, CallReachesTool
    PROVE  CtlInvariant'
<1>1. /\ RoomInvariant' /\ RoomGrows /\ room /\ UNCHANGED <<up, room, run>>
      /\ reports' \in Nat /\ commands' \in Nat /\ user' = user /\ calls + 1 \in Nat
      /\ ctl \in Command /\ Progress(ctl) /\ ctl.at = "calling"
      /\ ctl' = [ctl EXCEPT !.at = "waiting", !.call = calls + 1]
    BY CallSentKeepsRoom DEF CallReachesTool, CtlInvariant, Forgotten, RoomInvariant,
                             RoomTypeOK
<1>2. /\ ctl' \in Command /\ ctl'.at = "waiting" /\ ctl'.name = ctl.name
      /\ ctl'.missing = ctl.missing /\ ctl'.upTo = ctl.upTo /\ ctl'.printed = ctl.printed
      /\ ctl'.inferred = ctl.inferred /\ ctl'.required = ctl.required
      /\ ctl'.run = ctl.run /\ ctl'.inst = ctl.inst /\ ctl'.baseline = ctl.baseline
    BY <1>1 DEF Command
<1>3. Progress(ctl') /\ Chained(ctl', user)
    BY <1>1, <1>2 DEF Progress, Chained
<1> QED BY <1>1, <1>2, <1>3, RoomdGoesOn

\* A tool call that has not gone on to poll has given nothing up.
LEMMA WaitingContinues ==
    ASSUME NEW c \in Command, Progress(c), c.at \in {"calling", "waiting"},
           NEW rpc \in {"none", "completed", "failed"}, NEW u
    PROVE  LET d == Continue([c EXCEPT !.rpc = rpc]) IN
           /\ d \in Command /\ Progress(d) /\ Chained(d, u)
           /\ d.run = c.run /\ d.missing = {} /\ c.missing = {} /\ d.inst = c.inst
           /\ d.baseline = c.baseline /\ d.upTo = 0 /\ c.upTo = 0
<1> DEFINE b == [c EXCEPT !.rpc = rpc]
<1>1. /\ b \in Command /\ b.printed = c.printed /\ b.name = c.name
      /\ b.required = c.required /\ b.inferred = c.inferred /\ b.missing = c.missing
      /\ b.found = c.found /\ b.run = c.run /\ b.inst = c.inst
      /\ b.baseline = c.baseline /\ b.upTo = c.upTo
    BY DEF Command
<1>2. /\ c.printed = "none" /\ c.name = "tool-call" /\ c.missing = {} /\ c.upTo = 0
      /\ c.inferred => c.required = <<"app_initialized">>
    BY DEF Progress
<1> HIDE DEF b
<1>3. /\ Continue(b) \in Command /\ Progress(Continue(b))
      /\ Continue(b).run = b.run /\ Continue(b).missing = b.missing
      /\ Continue(b).inst = b.inst /\ Continue(b).baseline = b.baseline
      /\ Continue(b).upTo \in {0, b.upTo} /\ Continue(b).name = b.name
    BY <1>1, <1>2, ContinueProgresses
<1>4. Chained(Continue(b), u)
    BY <1>1, <1>2, <1>3 DEF Chained
<1> QED BY <1>1, <1>2, <1>3, <1>4 DEF b

LEMMA CallRefusedKeeps ==
    ASSUME CtlInvariant, CallRefused
    PROVE  CtlInvariant'
<1>1. /\ UNCHANGED roomdVars /\ commands' \in Nat /\ user' = user /\ revision \in Nat
      /\ ctl \in Command /\ Progress(ctl) /\ ctl.at = "calling" /\ ctl' = Continue(ctl)
      /\ Seen(ctl, up, run, revision)
    BY DEF CallRefused, CtlInvariant, Forgotten, RoomInvariant, RoomTypeOK
<1>2. /\ ctl' = Continue([ctl EXCEPT !.rpc = ctl.rpc])
      /\ ctl.rpc \in {"none", "completed", "failed"}
  <2>1. ctl = [ctl EXCEPT !.rpc = ctl.rpc]
      BY <1>1 DEF Command
  <2> QED BY <1>1, <2>1 DEF Command
<1>3. /\ ctl' \in Command /\ Progress(ctl') /\ Chained(ctl', user)
      /\ ctl'.run = ctl.run /\ ctl'.missing = {} /\ ctl'.upTo = 0
  <2> DEFINE d == Continue([ctl EXCEPT !.rpc = ctl.rpc])
  <2>1. /\ d \in Command /\ Progress(d) /\ Chained(d, user)
        /\ d.run = ctl.run /\ d.missing = {} /\ d.upTo = 0
      BY <1>1, <1>2, WaitingContinues
  <2> QED BY <1>2, <2>1
<1>4. Seen(ctl', up, run, revision)
    BY <1>1, <1>3 DEF Seen
<1> QED BY <1>1, <1>3, <1>4, CtlMoves

LEMMA ToolAnswersKeeps ==
    ASSUME CtlInvariant, NEW id \in running, NEW status \in {"completed", "failed"},
           ToolAnswers(id, status)
    PROVE  CtlInvariant'
<1>1. /\ RoomInvariant' /\ RoomGrows /\ room /\ UNCHANGED <<up, room, run>>
      /\ reports' \in Nat /\ commands' \in Nat /\ user' = user
      /\ ctl \in Command /\ Progress(ctl) /\ Chained(ctl, user) /\ ctl.upTo \in Nat
    BY CallSettledKeepsRoom DEF ToolAnswers, CtlInvariant, Forgotten, Command
<1>2. CASE ctl' = ctl
    BY <1>1, <1>2, RoomdGoesOn
<1>3. CASE ctl.at = "waiting" /\ ctl' = Continue([ctl EXCEPT !.rpc = status])
  <2>1. /\ ctl' \in Command /\ Progress(ctl') /\ Chained(ctl', user)
        /\ ctl'.run = ctl.run /\ ctl'.missing = ctl.missing /\ ctl'.inst = ctl.inst
        /\ ctl'.baseline = ctl.baseline /\ ctl'.upTo = 0
      BY <1>1, <1>3, WaitingContinues
  <2> QED BY <1>1, <2>1, RoomdGoesOn
<1> QED BY <1>2, <1>3 DEF ToolAnswers

LEMMA DeadlinePassesKeeps ==
    ASSUME CtlInvariant, DeadlinePasses
    PROVE  CtlInvariant'
<1>1. /\ UNCHANGED roomdVars /\ commands' \in Nat /\ user' = user /\ revision \in Nat
      /\ ctl \in Command /\ Progress(ctl) /\ ctl.at = "polling"
      /\ Seen(ctl, up, run, revision) /\ Chained(ctl, user)
    BY DEF DeadlinePasses, CtlInvariant, Forgotten, RoomInvariant, RoomTypeOK
<1>2. PICK n \in {0, revision} : ctl' = [ctl EXCEPT !.expired = TRUE, !.upTo = n]
    BY DEF DeadlinePasses
<1>3. /\ ctl' \in Command /\ ctl'.at = ctl.at /\ ctl'.name = ctl.name
      /\ ctl'.missing = ctl.missing /\ ctl'.upTo = n /\ ctl'.printed = ctl.printed
      /\ ctl'.inferred = ctl.inferred /\ ctl'.required = ctl.required
      /\ ctl'.run = ctl.run /\ ctl'.inst = ctl.inst /\ ctl'.baseline = ctl.baseline
      /\ ctl'.found = ctl.found /\ ctl'.rpc = ctl.rpc
  <2>1. n \in Nat
      BY <1>1, <1>2
  <2> QED BY <1>1, <1>2, <2>1 DEF Command
<1>4. Progress(ctl') /\ Chained(ctl', user)
    BY <1>1, <1>3 DEF Progress, Chained
<1>5. Seen(ctl', up, run, revision)
    BY <1>1, <1>3 DEF Seen
<1> QED BY <1>1, <1>3, <1>4, <1>5, CtlMoves

LEMMA EndsKeeps ==
    ASSUME CtlInvariant, RequestTimesOut \/ Unreachable
    PROVE  CtlInvariant'
<1>1. PICK e \in Envelope \ {"answered"} : ctl' = Ends(ctl, e)
    BY DEF RequestTimesOut, Unreachable, Envelope
<1>2. /\ UNCHANGED roomdVars /\ commands' \in Nat /\ user' = user
      /\ ctl \in Command /\ Seen(ctl, up, run, revision)
    BY DEF RequestTimesOut, Unreachable, CtlInvariant, Forgotten
<1>3. /\ ctl' \in Command /\ Progress(ctl') /\ ctl'.at = "resting"
      /\ ctl'.run = ctl.run /\ ctl'.missing = ctl.missing /\ ctl'.inst = ctl.inst
      /\ ctl'.baseline = ctl.baseline /\ ctl'.upTo = ctl.upTo
    BY <1>1, <1>2, EndsProgresses
<1>4. Seen(ctl', up, run, revision) /\ Chained(ctl', user)
    BY <1>2, <1>3 DEF Seen, Chained
<1> QED BY <1>2, <1>3, <1>4, CtlMoves

\* The rest of a requirement that has been polled.
LEMMA PolledRest ==
    ASSUME ctl \in Command, Progress(ctl), ctl.at = "polling"
    PROVE  /\ Head(ctl.required) \in HostEvent
           /\ Tail(ctl.required) \in Seq(HostEvent)
           /\ ctl.name = "await" =>
                  Head(ctl.required) = Awaited /\ Tail(ctl.required) = <<>>
           /\ ctl.name = "tool-call" /\ ctl.inferred =>
                  Head(ctl.required) = "app_initialized" /\ Tail(ctl.required) = <<>>
<1>1. ctl.required \in Seq(HostEvent) /\ ctl.required # <<>>
    BY DEF Command, Progress
<1>2. Head(ctl.required) \in HostEvent /\ Tail(ctl.required) \in Seq(HostEvent)
    BY <1>1
<1>3. \A x : Head(<<x>>) = x /\ Tail(<<x>>) = <<>>
    OBVIOUS
<1> QED BY <1>2, <1>3 DEF Progress

\* The first match is the oldest record that the command has not seen.
LEMMA FirstIsOldest ==
    ASSUME CtlInvariant, NEW ks \in SUBSET (1..Len(evidence)), ks # {}
    PROVE  /\ First(ks) \in ks /\ evidence[First(ks)].revision \in 1..revision
           /\ \A k \in ks : k = First(ks)
                            \/ evidence[First(ks)].revision < evidence[k].revision
<1>1. Len(evidence) \in Nat
    BY LenProperties DEF CtlInvariant, RoomInvariant, RoomTypeOK
<1>2. ks \subseteq Nat
    BY <1>1
<1>3. \E k \in ks : \A j \in ks : k <= j
  <2>1. IsWellFoundedOn(OpToRel(<, Nat), Nat)
      BY NatLessThanWellFounded
  <2>2. PICK k \in ks : \A j \in ks : ~(<<j, k>> \in OpToRel(<, Nat))
      BY <1>2, <2>1, WFMin
  <2>3. \A j \in ks : ~(j < k)
      BY <1>2, <2>2 DEF OpToRel
  <2> QED BY <1>2, <2>3
<1>4. First(ks) \in ks /\ \A j \in ks : First(ks) <= j
    BY <1>3 DEF First
<1> DEFINE f == First(ks)
<1>5. f \in 1..Len(evidence)
    BY <1>4
<1> HIDE DEF f
<1>6. ASSUME NEW k \in ks, k # f PROVE evidence[f].revision < evidence[k].revision
  <2>1. k \in 1..Len(evidence) /\ f \in 1..(k - 1)
      BY <1>1, <1>2, <1>4, <1>5, <1>6 DEF f
  <2> QED BY <2>1 DEF CtlInvariant, RoomInvariant, Ordered
<1>7. evidence[f].revision \in 1..revision
    BY <1>5 DEF CtlInvariant, RoomInvariant, Ordered
<1> QED BY <1>4, <1>6, <1>7 DEF f

LEMMA PollKeeps ==
    ASSUME CtlInvariant, Poll
    PROVE  CtlInvariant'
<1> DEFINE event == Head(ctl.required)
           ks == IF room THEN Matches(event, ctl.inst, ctl.baseline) ELSE {}
           c == [ctl EXCEPT !.required = Tail(@)]
           hit == [event |-> event, revision |-> evidence[First(ks)].revision]
           miss == [event |-> event, upTo |-> ctl.upTo]
<1>1. /\ UNCHANGED roomdVars /\ commands' \in Nat /\ revision \in Nat
      /\ ctl \in Command /\ user \in User /\ Progress(ctl) /\ ctl.at = "polling" /\ up
      /\ Seen(ctl, up, run, revision) /\ Chained(ctl, user)
      /\ Known(user, up, run, revision)
    BY DEF Poll, CtlInvariant, Forgotten, RoomInvariant, RoomTypeOK
<1>2. /\ event \in HostEvent /\ Tail(ctl.required) \in Seq(HostEvent)
      /\ ctl.name = "await" => event = Awaited /\ Tail(ctl.required) = <<>>
      /\ ctl.name = "tool-call" /\ ctl.inferred =>
             event = "app_initialized" /\ Tail(ctl.required) = <<>>
      /\ ctl.printed = "none" /\ ctl.name # "none"
    BY <1>1, PolledRest DEF Progress
<1>3. /\ c \in Command /\ c.printed = "none" /\ c.name = ctl.name /\ c.inferred = ctl.inferred
      /\ c.required = Tail(ctl.required) /\ c.missing = ctl.missing /\ c.found = ctl.found
      /\ c.run = ctl.run /\ c.inst = ctl.inst /\ c.baseline = ctl.baseline
      /\ c.upTo = ctl.upTo
    BY <1>1, <1>2 DEF Command
<1>4. ks \subseteq 1..Len(evidence)
    BY DEF Matches
<1>5. \/ /\ ks # {}
         /\ ctl' = Continue([c EXCEPT !.found = @ \cup {hit}])
         /\ user' = IF ctl.name = "tool-call" THEN user
                    ELSE [user EXCEPT !.cursor = evidence[First(ks)].revision,
                                      !.told = @ \cup {evidence[First(ks)].revision}]
      \/ /\ ks = {}
         /\ ctl' = Continue([c EXCEPT !.missing = @ \cup {miss}])
         /\ UNCHANGED user
    BY DEF Poll, MatchedRevision
<1>6. \A k \in 1..Len(evidence) :
          room /\ evidence[k].event = event /\ ctl.baseline < evidence[k].revision
          /\ ctl.inst \in {Any, evidence[k].inst} => k \in ks
  <2>1. ctl.baseline \in Nat /\ \A k \in 1..Len(evidence) : evidence[k].revision \in Nat
      BY <1>1 DEF Command, CtlInvariant, RoomInvariant, Ordered
  <2> QED BY <2>1 DEF Matches
<1> HIDE DEF c, ks, event
<1>7. RoomInvariant' /\ Forgotten'
    BY <1>1, StutterKeepsRoom DEF CtlInvariant, Forgotten, roomdVars, roomVars
<1>8. CASE /\ ks # {}
           /\ ctl' = Continue([c EXCEPT !.found = @ \cup {hit}])
           /\ user' = IF ctl.name = "tool-call" THEN user
                      ELSE [user EXCEPT !.cursor = evidence[First(ks)].revision,
                                        !.told = @ \cup {evidence[First(ks)].revision}]
  <2> DEFINE d == [c EXCEPT !.found = @ \cup {hit}]
             first == evidence[First(ks)].revision
  <2>1. /\ First(ks) \in ks /\ first \in 1..revision
        /\ \A k \in ks : k = First(ks) \/ first < evidence[k].revision
      BY <1>4, <1>8, FirstIsOldest
  <2>2. first \in Nat /\ first <= revision
      BY <1>1, <2>1
  <2> HIDE DEF first
  <2>3. hit \in [event : HostEvent, revision : Nat] /\ hit.event = event
      BY <1>2, <2>2 DEF first
  <2> HIDE DEF hit
  <2>4. /\ d \in Command /\ d.printed = "none" /\ d.name = c.name
        /\ d.inferred = c.inferred /\ d.required = c.required /\ d.missing = c.missing
        /\ d.found = c.found \cup {hit} /\ d.run = c.run /\ d.inst = c.inst
        /\ d.baseline = c.baseline /\ d.upTo = c.upTo
    <3>1. c.found \cup {hit} \in SUBSET [event : HostEvent, revision : Nat]
        BY <1>3, <2>3 DEF Command
    <3> HIDE DEF hit
    <3> QED BY <1>3, <3>1 DEF Command
  <2>5. d.name = "tool-call" /\ d.inferred =>
            /\ d.required = <<>>
            /\ d.missing = {} => \E m \in d.found : m.event = "app_initialized"
      BY <1>2, <1>3, <2>3, <2>4
  <2> HIDE DEF d
  <2>6. /\ ctl' \in Command /\ Progress(ctl') /\ ctl'.run = ctl.run
        /\ ctl'.missing = ctl.missing /\ ctl'.inst = ctl.inst
        /\ ctl'.baseline = ctl.baseline /\ ctl'.upTo \in {0, ctl.upTo}
        /\ ctl'.name = ctl.name /\ (ctl'.at = "polling" => d.required # <<>>)
    <3>1. d.name = "await" => d.required \in {<<>>, <<Awaited>>}
        BY <1>2, <1>3, <2>4
    <3>2. ctl' = Continue(d)
        BY <1>8 DEF d
    <3>3. /\ Continue(d) \in Command /\ Progress(Continue(d))
          /\ Continue(d).run = d.run /\ Continue(d).missing = d.missing
          /\ Continue(d).inst = d.inst /\ Continue(d).baseline = d.baseline
          /\ Continue(d).upTo \in {0, d.upTo} /\ Continue(d).name = d.name
          /\ Continue(d).at = "polling" => d.required # <<>>
        BY <1>2, <1>3, <2>4, <2>5, <3>1, ContinueProgresses
    <3> QED BY <1>3, <2>4, <3>2, <3>3
  <2>7. Seen(ctl', up', run', revision')
      BY <1>1, <2>6 DEF Seen, roomdVars, roomVars
  <2>8. Chained(ctl', user')
      BY <1>2, <1>3, <2>4, <2>6 DEF Chained
  <2>9. NothingOverlooked'
      BY <1>1, <2>6 DEF CtlInvariant, NothingOverlooked, roomdVars, roomVars
  <2>10. CASE ctl.name = "tool-call"
    <3>1. user' = user
        BY <1>8, <2>10
    <3>2. Known(user', up', run', revision') /\ ChainSkipsNothing'
        BY <1>1, <3>1 DEF CtlInvariant, ChainSkipsNothing, roomdVars, roomVars
    <3> QED BY <1>1, <1>7, <2>6, <2>7, <2>8, <2>9, <3>1, <3>2 DEF CtlInvariant
  <2>11. CASE ctl.name # "tool-call"
    <3>1. /\ user' = [user EXCEPT !.cursor = first, !.told = @ \cup {first}]
          /\ ctl.name = "await"
        BY <1>1, <1>2, <1>8, <2>11 DEF first, Command
    <3>2. /\ user' \in User /\ user'.cursor = first /\ user'.told = user.told \cup {first}
          /\ user'.run = user.run /\ user'.inst = user.inst
        BY <1>1, <2>2, <3>1 DEF User
    <3>3. Known(user', up', run', revision')
        BY <1>1, <2>2, <3>2 DEF Known, roomdVars, roomVars
    <3>4. ctl.inst = user.inst /\ ctl.baseline = user.cursor /\ event = Awaited
        BY <1>1, <1>2, <3>1 DEF Chained
    <3>5. ASSUME NEW k \in 1..Len(evidence), user.run = run, evidence[k].event = Awaited,
                 user.inst \in {Any, evidence[k].inst}, evidence[k].revision <= first
          PROVE  evidence[k].revision \in user.told \cup {first}
      <4>1. evidence[k].revision \in Nat /\ user.cursor \in Nat
          BY <1>1 DEF User, CtlInvariant, RoomInvariant, Ordered
      <4>2. CASE evidence[k].revision <= user.cursor
          BY <3>5, <4>2 DEF CtlInvariant, ChainSkipsNothing
      <4>3. CASE ~(evidence[k].revision <= user.cursor)
        <5>1. room
            BY <3>5, EmptySeq DEF CtlInvariant, Forgotten
        <5>2. k \in ks
            BY <1>6, <3>4, <3>5, <4>1, <4>3, <5>1
        <5>3. k = First(ks)
            BY <2>1, <2>2, <3>5, <4>1, <5>2
        <5> QED BY <5>3 DEF first
      <4> QED BY <4>2, <4>3
    <3>6. ChainSkipsNothing'
        BY <1>1, <3>2, <3>5 DEF ChainSkipsNothing, roomdVars, roomVars
    <3> QED BY <1>7, <2>6, <2>7, <2>8, <2>9, <3>2, <3>3, <3>6 DEF CtlInvariant
  <2> QED BY <2>10, <2>11
<1>9. CASE /\ ks = {}
           /\ ctl' = Continue([c EXCEPT !.missing = @ \cup {miss}])
           /\ UNCHANGED user
  <2> DEFINE d == [c EXCEPT !.missing = @ \cup {miss}]
  <2>1. miss \in [event : HostEvent, upTo : Nat] /\ miss.event = event
        /\ miss.upTo = ctl.upTo
      BY <1>1, <1>2 DEF Command
  <2> HIDE DEF miss
  <2>2. /\ d \in Command /\ d.printed = "none" /\ d.name = c.name
        /\ d.inferred = c.inferred /\ d.required = c.required
        /\ d.missing = c.missing \cup {miss} /\ d.run = c.run /\ d.inst = c.inst
        /\ d.baseline = c.baseline /\ d.upTo = c.upTo
    <3>1. c.missing \cup {miss} \in SUBSET [event : HostEvent, upTo : Nat]
        BY <1>3, <2>1 DEF Command
    <3> QED BY <1>3, <3>1 DEF Command
  <2>3. d.missing # {}
      BY <2>2
  <2> HIDE DEF d
  <2>4. /\ ctl' \in Command /\ Progress(ctl') /\ ctl'.run = ctl.run
        /\ ctl'.missing = ctl.missing \cup {miss} /\ ctl'.inst = ctl.inst
        /\ ctl'.baseline = ctl.baseline /\ ctl'.upTo \in {0, ctl.upTo}
        /\ ctl'.name = ctl.name /\ (ctl'.at = "polling" => d.required # <<>>)
    <3>1. /\ d.name = "await" => d.required \in {<<>>, <<Awaited>>}
          /\ d.name = "tool-call" /\ d.inferred => d.required = <<>>
        BY <1>2, <1>3, <2>2
    <3>2. ctl' = Continue(d)
        BY <1>9 DEF d
    <3>3. /\ Continue(d) \in Command /\ Progress(Continue(d))
          /\ Continue(d).run = d.run /\ Continue(d).missing = d.missing
          /\ Continue(d).inst = d.inst /\ Continue(d).baseline = d.baseline
          /\ Continue(d).upTo \in {0, d.upTo} /\ Continue(d).name = d.name
          /\ Continue(d).at = "polling" => d.required # <<>>
        BY <1>2, <1>3, <2>2, <2>3, <3>1, ContinueProgresses
    <3> QED BY <1>3, <2>2, <3>2, <3>3
  <2>5. Seen(ctl', up', run', revision')
      BY <1>1, <2>1, <2>4 DEF Seen, roomdVars, roomVars
  <2>6. Chained(ctl', user')
      BY <1>2, <1>3, <2>2, <2>4 DEF Chained
  <2>7. Known(user', up', run', revision') /\ ChainSkipsNothing'
      BY <1>1, <1>9 DEF CtlInvariant, ChainSkipsNothing, roomdVars, roomVars
  <2>8. NothingOverlooked'
    <3>1. ASSUME NEW m \in ctl.missing \cup {miss}, NEW k \in 1..Len(evidence),
                 ctl.run = run, evidence[k].event = m.event,
                 ctl.inst \in {Any, evidence[k].inst},
                 ctl.baseline < evidence[k].revision, evidence[k].revision <= m.upTo
          PROVE  FALSE
      <4>1. CASE m \in ctl.missing
          BY <3>1, <4>1 DEF CtlInvariant, NothingOverlooked
      <4>2. CASE m = miss
        <5>1. room
            BY <3>1, EmptySeq DEF CtlInvariant, Forgotten
        <5> QED BY <1>6, <1>9, <2>1, <3>1, <4>2, <5>1
      <4> QED BY <4>1, <4>2
    <3> QED BY <1>1, <2>4, <3>1 DEF NothingOverlooked, roomdVars, roomVars
  <2> QED BY <1>1, <1>7, <1>9, <2>4, <2>5, <2>6, <2>7, <2>8 DEF CtlInvariant
<1> QED BY <1>5, <1>8, <1>9

\* The room is forgotten, the command goes on or ends.
LEMMA GoesDownKeeps ==
    ASSUME CtlInvariant, GoesDown
    PROVE  CtlInvariant'
<1>1. /\ up' = FALSE /\ room' = FALSE /\ run' = run /\ evidence' = <<>> /\ running' = {}
      /\ reports' \in Nat /\ commands' \in Nat /\ user' = user /\ user \in User
      /\ ctl \in Command /\ Progress(ctl) /\ Chained(ctl, user)
      /\ ctl.run <= run /\ user.run <= run /\ run \in Nat
    BY DEF GoesDown, CtlInvariant, Forgotten, Seen, Known
<1>2. RoomInvariant'
  <2>1. evidence' \in Seq(Record) /\ Len(evidence') = 0
      BY <1>1, EmptySeq
  <2>2. revision' \in Nat /\ running' \subseteq 1..calls'
      BY <1>1 DEF GoesDown
  <2>3. NoCall \in Invocation
      BY DEF NoCall, Invocation
  <2>4. RoomTypeOK'
      BY <2>1, <2>2, <2>3 DEF GoesDown, CtlInvariant, RoomInvariant, RoomTypeOK
  <2> QED BY <2>1, <2>4 DEF RoomInvariant, Ordered
<1>3. ctl' \in Command /\ Progress(ctl') /\ Chained(ctl', user) /\ ctl'.run = ctl.run
  <2>1. CASE ctl' = ctl
      BY <1>1, <2>1
  <2>2. CASE ctl' = Ends(ctl, "ROOMD_CLIENT_ERROR")
    <3>1. "ROOMD_CLIENT_ERROR" \in Envelope \ {"answered"}
        BY DEF Envelope
    <3>2. /\ ctl' \in Command /\ Progress(ctl') /\ ctl'.at = "resting"
          /\ ctl'.run = ctl.run
        BY <1>1, <2>2, <3>1, EndsProgresses
    <3> QED BY <3>2 DEF Chained
  <2> QED BY <2>1, <2>2 DEF GoesDown
<1>4. Forgotten'
    BY <1>1 DEF Forgotten
<1>5. Seen(ctl', up', run', revision') /\ Known(user', up', run', revision')
    BY <1>1, <1>3 DEF Seen, Known
<1>6. NothingOverlooked' /\ ChainSkipsNothing'
  <2>1. Len(evidence') = 0
      BY <1>1, EmptySeq
  <2> QED BY <2>1 DEF NothingOverlooked, ChainSkipsNothing
<1> QED BY <1>1, <1>2, <1>3, <1>4, <1>5, <1>6 DEF CtlInvariant

\* What was read before the restart is of an earlier run.
LEMMA ComesUpKeeps ==
    ASSUME CtlInvariant, ComesUp
    PROVE  CtlInvariant'
<1>1. /\ UNCHANGED <<roomVars, room, reports, commands, ctl, user>>
      /\ run' = run + 1 /\ up' = TRUE /\ run \in Nat /\ ctl \in Command /\ user \in User
      /\ ctl.run <= run /\ user.run <= run /\ evidence = <<>>
    BY DEF ComesUp, CtlInvariant, Forgotten, Seen, Known
<1>2. RoomInvariant'
    BY <1>1, StutterKeepsRoom DEF CtlInvariant
<1>3. Forgotten'
    BY <1>1 DEF CtlInvariant, Forgotten, roomVars
<1>4. /\ ctl.run \in Nat /\ user.run \in Nat
      /\ ctl.run <= run + 1 /\ user.run <= run + 1
      /\ ctl.run # run + 1 /\ user.run # run + 1
    BY <1>1 DEF Command, User
<1>5. Seen(ctl', up', run', revision') /\ Known(user', up', run', revision')
    BY <1>1, <1>4 DEF Seen, Known
<1>6. NothingOverlooked' /\ ChainSkipsNothing'
  <2>1. Len(evidence') = 0
      BY <1>1, EmptySeq DEF roomVars
  <2> QED BY <2>1 DEF NothingOverlooked, ChainSkipsNothing
<1> QED BY <1>1, <1>2, <1>3, <1>5, <1>6 DEF CtlInvariant

LEMMA CreateRoomKeeps ==
    ASSUME CtlInvariant, CreateRoom
    PROVE  CtlInvariant'
<1>1. UNCHANGED <<roomVars, up, run, reports, commands, ctl, user>> /\ room' = TRUE /\ up
    BY DEF CreateRoom
<1>2. RoomInvariant'
    BY <1>1, StutterKeepsRoom DEF CtlInvariant
<1>3. Forgotten'
    BY <1>1 DEF CtlInvariant, Forgotten, roomVars
<1>4. Seen(ctl', up', run', revision') /\ Known(user', up', run', revision')
    BY <1>1 DEF CtlInvariant, roomVars
<1>5. NothingOverlooked' /\ ChainSkipsNothing'
    BY <1>1 DEF CtlInvariant, NothingOverlooked, ChainSkipsNothing, roomVars
<1> QED BY <1>1, <1>2, <1>3, <1>4, <1>5 DEF CtlInvariant

LEMMA HostReportsKeeps ==
    ASSUME CtlInvariant, NEW event \in {"bridge_connected", "app_initialized"},
           HostReports(event)
    PROVE  CtlInvariant'
<1>1. /\ event \in HostEvent /\ life \in Nat /\ Report(event, life)
    BY AssuranceAssumption DEF HostEvent, HostReports, CtlInvariant, RoomInvariant, RoomTypeOK
<1>2. RoomInvariant' /\ RoomGrows
    BY <1>1, ReportKeepsRoom DEF CtlInvariant
<1>3. /\ room /\ UNCHANGED <<up, room, run, ctl>> /\ reports' \in Nat /\ commands' \in Nat
      /\ user' = user /\ ctl \in Command /\ Progress(ctl) /\ Chained(ctl, user)
    BY DEF HostReports, CtlInvariant, Forgotten
<1> QED BY <1>2, <1>3, RoomdGoesOn

LEMMA OthersKeeps ==
    ASSUME CtlInvariant, Others
    PROVE  CtlInvariant'
<1>1. RoomInvariant' /\ RoomGrows
    BY ElsewhereKeepsRoom DEF CtlInvariant, Others
<1>2. /\ room /\ UNCHANGED <<up, room, run, ctl>> /\ reports' \in Nat /\ commands' \in Nat
      /\ user' = user /\ ctl \in Command /\ Progress(ctl) /\ Chained(ctl, user)
    BY DEF Others, CtlInvariant, Forgotten
<1> QED BY <1>1, <1>2, RoomdGoesOn

LEMMA CtlStutters ==
    ASSUME CtlInvariant, UNCHANGED ctlVars
    PROVE  CtlInvariant'
<1>1. /\ UNCHANGED roomdVars /\ commands' \in Nat /\ user' = user /\ ctl' = ctl
      /\ ctl \in Command /\ Progress(ctl) /\ Seen(ctl, up, run, revision)
      /\ Chained(ctl, user)
    BY DEF ctlVars, CtlInvariant, Forgotten
<1> QED BY <1>1, CtlMoves

LEMMA CtlStarts == CtlInit => CtlInvariant
<1> SUFFICES ASSUME CtlInit PROVE CtlInvariant
    OBVIOUS
<1>1. RoomInvariant /\ ctl = NoCommand /\ NoCommand \in Command
    BY RoomStarts, NoCommandTyped DEF CtlInit
<1>2. /\ ctl.name = "none" /\ ctl.at = "resting" /\ ctl.printed = "none"
      /\ ctl.missing = {} /\ ctl.upTo = 0 /\ ctl.run = 0
    BY <1>1 DEF NoCommand
<1>3. /\ user \in User /\ user.run = 0 /\ user.cursor = 0 /\ run = 0 /\ revision = 0
      /\ evidence = <<>>
    BY DEF CtlInit, RoomInit, User
<1>4. Forgotten
    BY DEF CtlInit, Forgotten
<1>5. Progress(ctl) /\ Seen(ctl, up, run, revision) /\ Known(user, up, run, revision)
      /\ Chained(ctl, user)
    BY <1>2, <1>3 DEF Progress, Seen, Known, Chained
<1>6. NothingOverlooked /\ ChainSkipsNothing
  <2>1. Len(evidence) = 0
      BY <1>3, EmptySeq
  <2> QED BY <2>1 DEF NothingOverlooked, ChainSkipsNothing
<1> QED BY <1>1, <1>3, <1>4, <1>5, <1>6 DEF CtlInvariant

LEMMA CtlKeeps == CtlInvariant /\ [CtlNext]_ctlVars => CtlInvariant'
<1> SUFFICES ASSUME CtlInvariant, [CtlNext]_ctlVars PROVE CtlInvariant'
    OBVIOUS
<1>1. ASSUME NEW inst \in {Here, Any}, NEW chained \in BOOLEAN, AwaitBegins(inst, chained)
      PROVE  CtlInvariant'
    BY <1>1, AwaitBeginsKeeps
<1>2. ASSUME NEW require \in Requirement, NEW noAwait \in BOOLEAN,
             ToolCallBegins(require, noAwait)
      PROVE  CtlInvariant'
    BY <1>2, ToolCallBeginsKeeps
<1>3. CASE CtlStep
    BY <1>3, ReadsBaselineKeeps, CallReachesToolKeeps, CallRefusedKeeps, PollKeeps,
       DeadlinePassesKeeps, EndsKeeps DEF CtlStep
<1>4. ASSUME NEW id \in running, NEW status \in {"completed", "failed"},
             ToolAnswers(id, status)
      PROVE  CtlInvariant'
    BY <1>4, ToolAnswersKeeps
<1>5. CASE GoesDown \/ ComesUp \/ CreateRoom \/ Others
    BY <1>5, GoesDownKeeps, ComesUpKeeps, CreateRoomKeeps, OthersKeeps
<1>6. ASSUME NEW event \in {"bridge_connected", "app_initialized"}, HostReports(event)
      PROVE  CtlInvariant'
    BY <1>6, HostReportsKeeps
<1>7. CASE UNCHANGED ctlVars
    BY <1>7, CtlStutters
<1> QED BY <1>1, <1>2, <1>3, <1>4, <1>5, <1>6, <1>7 DEF CtlNext

LEMMA CtlHolds == CtlSpec => []CtlInvariant
<1> QED BY CtlStarts, CtlKeeps, PTL DEF CtlSpec

\* Of roomctl's type invariant: every command, record and call is what it should be.
THEOREM CtlTypes == CtlSpec => []CtlTypeOK
<1>1. CtlInvariant => CtlTypeOK
    BY DEF CtlInvariant, RoomInvariant, Forgotten, CtlTypeOK
<1> QED BY <1>1, CtlHolds, PTL

\* Of awaits chained by the revision that each prints: the user is told of every
\* record of the event, in whatever order they come, whoever writes others in between,
\* and however often roomd restarts.
THEOREM AwaitsSkipNothing == CtlSpec => []ChainSkipsNothing
<1>1. CtlInvariant => ChainSkipsNothing
    BY DEF CtlInvariant
<1> QED BY <1>1, CtlHolds, PTL

\* Of an event given up by `await` or `tool-call`: the room held no report of it that
\* the command could have matched when its deadline passed.
THEOREM GivesUpInTime == CtlSpec => []NothingOverlooked
<1>1. CtlInvariant => NothingOverlooked
    BY DEF CtlInvariant
<1> QED BY <1>1, CtlHolds, PTL

\* Of the claims printed with a tool call: it completed, and the app whose
\* initialization was waited for by default has initialized.
THEOREM ClaimsHold == CtlSpec => []ClaimsAreTrue
<1>1. CtlInvariant => ClaimsAreTrue
  <2> SUFFICES ASSUME CtlInvariant, Claims(ctl) # {}
               PROVE  /\ ctl.rpc = "completed"
                      /\ ctl.inferred => "app_initialized" \in Claims(ctl)
      BY DEF ClaimsAreTrue
  <2>1. /\ ctl.name = "tool-call" /\ ctl.printed = "answered"
        /\ Claims(ctl) = {"rpc"} \cup {m.event : m \in ctl.found}
      BY DEF Claims
  <2> QED BY <2>1 DEF CtlInvariant, Progress
<1> QED BY <1>1, CtlHolds, PTL

-----------------------------------------------------------------------------
(* The tile of an instance.                                                 *)

AppRecords(l) ==
    {r \in Elements(evidence) : r.event = "app_initialized" /\ r.inst = Here /\ r.life = l}
Reported(l) == Post("app_initialized", l) \in posts \/ AppRecords(l) # {}

\* An effect starts at most once in a life, and in the newest.
Lives ==
    /\ shown <= life /\ (mounted => life # 0)
    /\ mounted /\ shown = life => shownUri = resource
    /\ mounted /\ shown # life => setup[life] = "none"
    /\ \A l \in Life : life < l => setup[l] = "none"
    /\ (shown = 0 <=> effect = 0) /\ (effect = 0 <=> tile = 0)
    /\ tile <= effect /\ frame <= effect /\ effect <= shown
    /\ effect # 0 => setup[effect] # "none"

\* What is wired is of the effect, or was when its setup() last looked.
LetGo ==
    /\ themes \subseteq {themeRef}
    /\ \A l \in Life : bridge[l] # "none" => setup[l] \in Unchecked \cup {"done", "failed"}
    /\ \A l \in Life : setup[l] \in Unchecked \cup {"done"} => bridge[l] # "none"
    /\ \A l \in Life : setup[l] \in Unchecked /\ l # effect => l \in late

\* The refs are those of the effect's setup() from its end on.
Refs ==
    /\ ready <=> bridgeRef # 0
    /\ ~ready => sentInput = 0 /\ sentResult = 0
    /\ bridgeRef # 0 => setup[bridgeRef] = "done"
    /\ \A l \in Life : setup[l] # "done" => inbox[l] = <<>>
    /\ late = {} /\ bridgeRef # 0 => bridgeRef = effect
    /\ late = {} /\ effect # 0 /\ setup[effect] = "done" => bridgeRef = effect

\* What the bridges have heard of apps, on its way to roomd or there.
Heard ==
    /\ \A r \in Elements(evidence) :
          r.event = "app_initialized" /\ r.inst = Here => r.life \in Life
    /\ \A l \in Life : Reported(l) => bridge[l] # "none"
    /\ late = {} /\ effect # 0 /\ frame = effect /\ app # 0 =>
          app = effect /\ setup[effect] \in {"delivered", "done"}
    /\ late = {} => \A l \in Life : OwnFrame(l) /\ Reported(l) =>
          /\ setup[l] \in {"delivered", "done"}
          /\ l = effect /\ frame = l => appUp
          /\ Post("app_initialized", l) \in posts => AppRecords(l) = {}
          /\ \A r, s \in AppRecords(l) : r = s

\* Invocations are numbered in their order, and end once.
Numbered ==
    /\ call.id \in {0, calls} /\ shownCall.id <= calls /\ sentInput <= calls
    /\ call.id # 0 => call.status # "none"
    /\ shownCall.id # 0 => shownCall.status # "none"
    /\ call.id \in running => call.status = "running"
    /\ shownCall.id # 0 /\ call.id = shownCall.id =>
          shownCall.status \in {"running", call.status}
    /\ shownCall.id = 0 => call.id = 0 \/ sentInput < call.id

Informed ==
    late = {} /\ ready =>
        /\ \A k \in 1..Len(inbox[bridgeRef]) : inbox[bridgeRef][k].id <= sentInput
        /\ shownCall.id # 0 =>
              /\ sentInput = shownCall.id
              /\ sentResult = sentInput <=> shownCall.status # "running"
              /\ InformedOf(inbox[bridgeRef], shownCall)

HostInvariant ==
    TypeOK /\ Ordered /\ Lives /\ LetGo /\ NothingStray /\ Refs /\ Heard /\ Numbered /\ Informed

\* The numbers and functions of the state.
LEMMA HostNumbers ==
    ASSUME TypeOK
    PROVE  /\ life \in Nat /\ life \in 0..MaxLives /\ shown \in Nat /\ tile \in Nat
           /\ frame \in Nat /\ effect \in Nat /\ bridgeRef \in Nat /\ themeRef \in Nat
           /\ app \in Nat /\ calls \in Nat /\ call.id \in Nat /\ shownCall.id \in Nat
           /\ sentInput \in Nat /\ sentResult \in Nat /\ MaxLives \in Nat
           /\ \A l \in 0..MaxLives : l # 0 => l \in Life
           /\ \A l \in Life : l \in Nat /\ l # 0 /\ l \in 0..MaxLives
BY AssuranceAssumption DEF TypeOK, RoomTypeOK, Life, Invocation

LEMMA HostStarts == Init => HostInvariant
<1> SUFFICES ASSUME Init PROVE HostInvariant
    OBVIOUS
<1>1. RoomTypeOK /\ Ordered /\ Elements(evidence) = {}
    BY RoomStarts, ElementsEmpty DEF Init, RoomInit, RoomInvariant
<1>2. TypeOK
  <2>1. /\ 0 \in 0..MaxLives /\ NoCall \in Invocation
        /\ <<>> \in Seq([kind : {"input", "outcome"}, id : Nat])
      BY AssuranceAssumption, EmptySeq DEF NoCall, Invocation
  <2> QED BY <1>1, <2>1 DEF Init, HostInit, TypeOK, Step
<1>3. Lives
    BY DEF Init, RoomInit, HostInit, Lives
<1>4. LetGo /\ NothingStray /\ Refs
    BY DEF Init, HostInit, LetGo, NothingStray, Refs, Unchecked
<1>5. Heard
    BY <1>1 DEF Init, HostInit, Heard, Reported, AppRecords
<1>6. Numbered /\ Informed
    BY DEF Init, RoomInit, HostInit, Numbered, Informed, NoCall
<1> QED BY <1>1, <1>2, <1>3, <1>4, <1>5, <1>6 DEF HostInvariant

-----------------------------------------------------------------------------
(* What happens in the room.                                                *)

\* The host has not moved, and its app has not been heard of.
LEMMA RoomMoves ==
    ASSUME HostInvariant, UNCHANGED hostVars, RoomTypeOK', Ordered', Lives', Numbered',
           \A r \in Elements(evidence') : r \in Elements(evidence)
                                          \/ r.event # "app_initialized" \/ r.inst # Here
    PROVE  HostInvariant'
<1>1. TypeOK'
    BY DEF HostInvariant, TypeOK, hostVars, tileVars, frameVars, refVars
<1>2. LetGo' /\ NothingStray' /\ Refs' /\ Informed'
    BY DEF HostInvariant, LetGo, NothingStray, Refs, Informed, InformedOf, Told,
           hostVars, tileVars, frameVars, refVars
<1>3. ASSUME NEW l \in Life PROVE /\ AppRecords(l)' \subseteq AppRecords(l)
                                  /\ Reported(l)' => Reported(l)
  <2>1. AppRecords(l)' \subseteq AppRecords(l)
      BY DEF AppRecords
  <2> QED BY <2>1 DEF Reported, hostVars
<1>4. Heard'
  <2>1. UNCHANGED <<posts, bridge, late, effect, frame, app, setup, frameOf, appUp>>
      BY DEF hostVars, tileVars, frameVars
  <2> QED BY <1>3, <2>1 DEF HostInvariant, Heard, OwnFrame
<1> QED BY <1>1, <1>2, <1>4 DEF HostInvariant

LEMMA MountHereHolds ==
    ASSUME HostInvariant, NEW uri \in Resource \cup {None}, MountHere(uri), UNCHANGED hostVars
    PROVE  HostInvariant'
<1>1. RoomInvariant
    BY DEF HostInvariant, TypeOK, RoomInvariant
<1>2. RoomTypeOK' /\ Ordered'
    BY <1>1, MountKeepsRoom DEF RoomInvariant
<1>3. life' = life + 1 /\ life' \in Life /\ call' = NoCall /\ UNCHANGED <<calls, running>>
    BY <1>2 DEF MountHere, HostInvariant, TypeOK, RoomTypeOK, Life
<1>4. Lives'
  <2>1. shown <= life /\ shown # life + 1 /\ life < life + 1 /\ life + 1 # 0
      BY HostNumbers DEF HostInvariant, Lives
  <2>2. shown <= life + 1 /\ \A l \in Life : life + 1 < l => life < l
      BY <2>1, HostNumbers DEF HostInvariant
  <2>3. setup[life + 1] = "none"
      BY <1>3, <2>1 DEF HostInvariant, Lives
  <2>4. UNCHANGED <<shown, shownUri, setup, effect, tile, frame>>
      BY DEF hostVars, tileVars
  <2> QED BY <1>3, <2>1, <2>2, <2>3, <2>4 DEF HostInvariant, Lives
<1>5. Numbered'
  <2>1. 0 \notin running
      BY HostNumbers DEF HostInvariant, TypeOK, RoomTypeOK
  <2> QED BY <1>3, <2>1 DEF HostInvariant, Numbered, NoCall, hostVars, tileVars, refVars
<1>6. \A r \in Elements(evidence') : r \in Elements(evidence)
                                     \/ r.event # "app_initialized" \/ r.inst # Here
  <2>1. "mount_applied" \in HostEvent \cup RoomEvent /\ Here \in Instance /\ life + 1 \in Nat
      BY <1>3, HostNumbers, AssuranceAssumption DEF RoomEvent, HostInvariant
  <2>2. Elements(evidence') \subseteq
            Elements(evidence) \cup {[event |-> "mount_applied", inst |-> Here,
                                      revision |-> revision + 1, life |-> life + 1]}
      BY <1>1, <2>1, AppendKeepsEvidence DEF MountHere
  <2> QED BY <2>2
<1> QED BY <1>2, <1>4, <1>5, <1>6, RoomMoves

LEMMA UnmountHereHolds ==
    ASSUME HostInvariant, UnmountHere, UNCHANGED hostVars
    PROVE  HostInvariant'
<1>1. RoomTypeOK' /\ Ordered'
    BY UnmountKeepsRoom DEF HostInvariant, TypeOK, RoomInvariant
<1>2. /\ mounted' = FALSE /\ call' = NoCall /\ UNCHANGED <<life, calls, running, evidence>>
    BY DEF UnmountHere
<1>3. Lives'
    BY <1>2 DEF HostInvariant, Lives, hostVars, tileVars
<1>4. Numbered'
  <2>1. 0 \notin running
      BY HostNumbers DEF HostInvariant, TypeOK, RoomTypeOK
  <2> QED BY <1>2, <2>1 DEF HostInvariant, Numbered, NoCall, hostVars, tileVars, refVars
<1> QED BY <1>1, <1>2, <1>3, <1>4, RoomMoves

LEMMA ElsewhereReportsHolds ==
    ASSUME HostInvariant, NEW inst \in Instance, ElsewhereReports(inst), UNCHANGED hostVars
    PROVE  HostInvariant'
<1>1. RoomInvariant
    BY DEF HostInvariant, TypeOK, RoomInvariant
<1>2. RoomTypeOK' /\ Ordered'
    BY <1>1, ElsewhereReportsKeepsRoom DEF RoomInvariant
<1>3. UNCHANGED <<life, mounted, resource, call, calls, running>>
    BY DEF ElsewhereReports
<1>4. Lives' /\ Numbered'
    BY <1>3 DEF HostInvariant, Lives, Numbered, hostVars, tileVars, refVars
<1>5. \A r \in Elements(evidence') : r \in Elements(evidence)
                                     \/ r.event # "app_initialized" \/ r.inst # Here
  <2>1. "app_initialized" \in HostEvent \cup RoomEvent /\ 0 \in Nat
      BY DEF HostEvent
  <2>2. Elements(evidence') \subseteq
            Elements(evidence) \cup {[event |-> "app_initialized", inst |-> inst,
                                      revision |-> revision + 1, life |-> 0]}
      BY <1>1, <2>1, AppendKeepsEvidence DEF ElsewhereReports
  <2> QED BY <2>2 DEF ElsewhereReports
<1> QED BY <1>2, <1>4, <1>5, RoomMoves

LEMMA CallSentHolds ==
    ASSUME HostInvariant, CallSent, UNCHANGED hostVars
    PROVE  HostInvariant'
<1>1. RoomInvariant
    BY DEF HostInvariant, TypeOK, RoomInvariant
<1>2. RoomTypeOK' /\ Ordered'
    BY <1>1, CallSentKeepsRoom DEF RoomInvariant
<1>3. /\ UNCHANGED <<life, mounted, resource>> /\ calls' = calls + 1
      /\ call' = [id |-> calls + 1, status |-> "running"]
    BY DEF CallSent
<1>4. Lives'
    BY <1>3 DEF HostInvariant, Lives, hostVars, tileVars
<1>5. Numbered'
  <2>1. shownCall.id <= calls /\ sentInput <= calls
      BY DEF HostInvariant, Numbered
  <2>2. /\ shownCall.id <= calls + 1 /\ sentInput < calls + 1 /\ sentInput <= calls + 1
        /\ shownCall.id # calls + 1
      BY <2>1, HostNumbers DEF HostInvariant
  <2> QED BY <1>3, <2>2 DEF HostInvariant, Numbered, hostVars, tileVars, refVars
<1>6. \A r \in Elements(evidence') : r \in Elements(evidence)
                                     \/ r.event # "app_initialized" \/ r.inst # Here
  <2>1. "rpc_sent" \in HostEvent \cup RoomEvent /\ Here \in Instance /\ life \in Nat
      BY HostNumbers, AssuranceAssumption DEF RoomEvent, HostInvariant
  <2>2. Elements(evidence') \subseteq
            Elements(evidence) \cup {[event |-> "rpc_sent", inst |-> Here,
                                      revision |-> revision + 1, life |-> life]}
      BY <1>1, <2>1, AppendKeepsEvidence DEF CallSent
  <2> QED BY <2>2
<1> QED BY <1>2, <1>4, <1>5, <1>6, RoomMoves

LEMMA CallSettledHolds ==
    ASSUME HostInvariant, NEW id \in running, NEW status \in {"completed", "failed"},
           CallSettled(id, status), UNCHANGED hostVars
    PROVE  HostInvariant'
<1>1. RoomInvariant
    BY DEF HostInvariant, TypeOK, RoomInvariant
<1>2. RoomTypeOK' /\ Ordered'
    BY <1>1, CallSettledKeepsRoom DEF RoomInvariant
<1>3. /\ UNCHANGED <<life, mounted, resource, calls>> /\ running' = running \ {id}
    BY DEF CallSettled
<1>4. Lives'
    BY <1>3 DEF HostInvariant, Lives, hostVars, tileVars
<1>5. CASE call.id = id
  <2>1. call' = [call EXCEPT !.status = status] /\ call \in Invocation
      BY <1>5 DEF CallSettled, HostInvariant, TypeOK, RoomTypeOK
  <2>2. call'.id = id /\ call'.status = status /\ call.status = "running"
      BY <1>5, <2>1 DEF Invocation, HostInvariant, Numbered
  <2>3. Numbered'
      BY <1>3, <1>5, <2>2 DEF HostInvariant, Numbered, hostVars, tileVars, refVars
  <2>4. PICK event \in {"rpc_succeeded", "rpc_failed"} : AppendEvidence(event, Here, life)
      BY <1>5 DEF CallSettled
  <2>5. event \in HostEvent \cup RoomEvent /\ Here \in Instance /\ life \in Nat
      BY HostNumbers, AssuranceAssumption DEF RoomEvent, HostInvariant
  <2>6. Elements(evidence') \subseteq
            Elements(evidence) \cup {[event |-> event, inst |-> Here,
                                      revision |-> revision + 1, life |-> life]}
      BY <1>1, <2>4, <2>5, AppendKeepsEvidence
  <2>7. \A r \in Elements(evidence') : r \in Elements(evidence)
                                       \/ r.event # "app_initialized" \/ r.inst # Here
      BY <2>6
  <2> QED BY <1>2, <1>4, <2>3, <2>7, RoomMoves
<1>6. CASE call.id # id
  <2>1. UNCHANGED <<call, evidence>>
      BY <1>6 DEF CallSettled
  <2>2. Numbered'
      BY <1>3, <2>1 DEF HostInvariant, Numbered, hostVars, tileVars, refVars
  <2> QED BY <1>2, <1>4, <2>1, <2>2, RoomMoves
<1> QED BY <1>5, <1>6

-----------------------------------------------------------------------------
(* Renders.                                                                 *)

LEMMA RoomRests ==
    ASSUME HostInvariant, UNCHANGED roomVars
    PROVE  /\ RoomTypeOK' /\ Ordered' /\ Elements(evidence') = Elements(evidence)
           /\ \A l : AppRecords(l)' = AppRecords(l)
<1>1. RoomInvariant' /\ evidence' = evidence
    BY StutterKeepsRoom DEF HostInvariant, TypeOK, RoomInvariant, roomVars
<1> QED BY <1>1 DEF RoomInvariant, AppRecords

\* The clean-up: what is open afterwards failed, unless the clean-up was late.
LEMMA CleansUp ==
    ASSUME HostInvariant, shown # 0, CleanUp
    PROVE  /\ effect \in Life /\ themes' = {} /\ late' \subseteq Life /\ late \subseteq late'
           /\ setup[effect] \in Unchecked => effect \in late'
           /\ bridge' \in [Life -> {"none", "open", "closed"}]
           /\ \A l \in Life : bridge'[l] = "none" <=> bridge[l] = "none"
           /\ \A l \in Life : late' = {} /\ bridge'[l] = "open" => setup[l] = "failed"
<1>1. effect \in Life
    BY HostNumbers DEF HostInvariant, Lives
<1>2. themes' = {}
    BY DEF CleanUp, HostInvariant, LetGo
<1>3. /\ late' \subseteq Life /\ late \subseteq late'
      /\ setup[effect] \in Unchecked => effect \in late'
    BY <1>1 DEF CleanUp, HostInvariant, TypeOK
<1>4. CASE bridgeRef = 0
  <2>1. bridge' = bridge
      BY <1>4 DEF CleanUp
  <2>2. ASSUME NEW l \in Life, late' = {}, bridge[l] = "open" PROVE setup[l] = "failed"
    <3>1. late = {} /\ setup[effect] \notin Unchecked
        BY <1>3, <2>2
    <3>2. setup[effect] # "done"
        BY <1>1, <1>4, <3>1, HostNumbers DEF HostInvariant, Refs
    <3> QED BY <2>2, <3>1, <3>2 DEF HostInvariant, NothingStray, LetGo
  <2> QED BY <1>1, <1>2, <1>3, <2>1, <2>2 DEF HostInvariant, TypeOK
<1>5. CASE bridgeRef # 0
  <2>1. /\ bridgeRef \in Life /\ bridge' = [bridge EXCEPT ![bridgeRef] = "closed"]
        /\ bridge \in [Life -> {"none", "open", "closed"}]
      BY <1>5, HostNumbers DEF CleanUp, HostInvariant, TypeOK
  <2>2. bridge[bridgeRef] # "none"
      BY <1>5, <2>1 DEF HostInvariant, Refs, LetGo
  <2>3. ASSUME NEW l \in Life, late' = {}, bridge'[l] = "open" PROVE setup[l] = "failed"
    <3>1. late = {} /\ setup[effect] \notin Unchecked /\ bridge[l] = "open" /\ l # bridgeRef
        BY <1>3, <2>1, <2>3
    <3>2. bridgeRef = effect
        BY <1>5, <3>1 DEF HostInvariant, Refs
    <3> QED BY <3>1, <3>2 DEF HostInvariant, NothingStray
  <2> QED BY <1>1, <1>2, <1>3, <2>1, <2>2, <2>3
<1> QED BY <1>4, <1>5

\* The set-up of a new effect is the first of its life.
LEMMA SetupStarts ==
    ASSUME HostInvariant, mounted, shown # life, StartSetup(life)
    PROVE  /\ life \in Life /\ effect' = life /\ setup' \in [Life -> Step]
           /\ setup[life] = "none" /\ setup'[life] \in {"stopped", "fetching"}
           /\ \A l \in Life : l # life => setup'[l] = setup[l]
           /\ bridge[life] = "none" /\ inbox[life] = <<>> /\ bridgeRef # life
           /\ effect < life /\ frame < life /\ ~Reported(life)
<1>1. life \in Life /\ setup[life] = "none"
    BY HostNumbers DEF HostInvariant, Lives
<1>2. setup \in [Life -> Step]
    BY DEF HostInvariant, TypeOK
<1>3. PICK s \in {"stopped", "fetching"} : setup' = [setup EXCEPT ![life] = s]
    BY DEF StartSetup
<1>4. effect < life /\ frame < life
    BY HostNumbers DEF HostInvariant, Lives
<1>5. bridge[life] = "none"
    BY <1>1 DEF HostInvariant, LetGo, Unchecked
<1>6. inbox[life] = <<>> /\ bridgeRef # life
  <2>1. life # 0
      BY <1>1, HostNumbers DEF HostInvariant
  <2> QED BY <1>1, <2>1 DEF HostInvariant, Refs
<1>7. ~Reported(life)
    BY <1>1, <1>5 DEF HostInvariant, Heard
<1> QED BY <1>1, <1>2, <1>3, <1>4, <1>5, <1>6, <1>7 DEF StartSetup, Step

LEMMA AppearsHolds ==
    ASSUME HostInvariant, Appears, UNCHANGED roomVars
    PROVE  HostInvariant'
<1>1. /\ shown' = life /\ shownUri' = resource /\ shownCall' = call /\ tile' = life
      /\ shown = 0 /\ mounted /\ shown # life
      /\ UNCHANGED <<bridgeRef, themeRef, ready, sentInput, sentResult, frameOf, late, bridge,
                     inbox, themes, posts, life, mounted, resource, call, calls, running>>
      /\ frame' \in {0, life} /\ app' = 0 /\ appUp' = FALSE /\ src' = "empty"
    BY DEF Appears, NewFrame, refVars, roomVars, HostInvariant, Lives
<1>2. /\ life \in Life /\ effect' = life /\ setup' \in [Life -> Step]
      /\ setup[life] = "none" /\ setup'[life] \in {"stopped", "fetching"}
      /\ \A l \in Life : l # life => setup'[l] = setup[l]
      /\ bridge[life] = "none" /\ inbox[life] = <<>> /\ bridgeRef # life /\ ~Reported(life)
    BY <1>1, SetupStarts DEF Appears
<1>3. effect = 0 /\ life # 0 /\ (late = {} => bridgeRef = 0) /\ themes = {}
  <2>1. effect = 0 /\ themes \subseteq Life
      BY <1>1 DEF HostInvariant, Lives, TypeOK
  <2> QED BY <1>2, <2>1, HostNumbers DEF HostInvariant, Refs, NothingStray
<1>4. /\ RoomTypeOK' /\ Ordered' /\ Elements(evidence') = Elements(evidence)
      /\ \A l : AppRecords(l)' = AppRecords(l)
    BY RoomRests
<1>5. TypeOK'
    BY <1>1, <1>2, <1>4, HostNumbers DEF HostInvariant, TypeOK, RoomTypeOK
<1>6. Lives'
    BY <1>1, <1>2, <1>3, HostNumbers DEF HostInvariant, Lives
<1>7. LetGo' /\ NothingStray'
  <2>1. \A l \in Life : setup[l] \in Unchecked => l \in late
      BY <1>3, HostNumbers DEF HostInvariant, LetGo
  <2>2. LetGo'
      BY <1>1, <1>2, <2>1 DEF HostInvariant, LetGo, Unchecked
  <2>3. \A l \in Life : late = {} /\ bridge[l] = "open" => setup[l] = "failed"
      BY <1>3, HostNumbers DEF HostInvariant, NothingStray
  <2> QED BY <1>1, <1>2, <1>3, <2>2, <2>3 DEF NothingStray
<1>8. Refs'
  <2>1. \A l \in Life : setup'[l] # "done" => inbox[l] = <<>>
      BY <1>2 DEF HostInvariant, Refs
  <2>2. bridgeRef # 0 => setup'[bridgeRef] = "done"
    <3>1. bridgeRef # 0 => bridgeRef \in Life
        BY HostNumbers DEF HostInvariant, TypeOK
    <3> QED BY <1>2, <3>1 DEF HostInvariant, Refs
  <2> QED BY <1>1, <1>2, <1>3, <2>1, <2>2 DEF HostInvariant, Refs
<1>9. Heard'
  <2>1. \A l : Reported(l)' <=> Reported(l)
      BY <1>1, <1>4 DEF Reported
  <2>2. \A l \in Life : OwnFrame(l)' /\ Reported(l) => OwnFrame(l) /\ setup'[l] = setup[l]
                                                       /\ l # life
      BY <1>1, <1>2 DEF OwnFrame
  <2> QED BY <1>1, <1>2, <1>4, <2>1, <2>2 DEF HostInvariant, Heard
<1>10. Numbered' /\ Informed'
  <2>1. call.id <= calls
      BY HostNumbers DEF HostInvariant, Numbered
  <2>2. Numbered'
      BY <1>1, <2>1 DEF HostInvariant, Numbered
  <2>3. late = {} => ~ready
      BY <1>3 DEF HostInvariant, Refs
  <2> QED BY <1>1, <2>2, <2>3 DEF Informed
<1> QED BY <1>4, <1>5, <1>6, <1>7, <1>8, <1>9, <1>10 DEF HostInvariant

LEMMA DisappearsHolds ==
    ASSUME HostInvariant, Disappears, UNCHANGED roomVars
    PROVE  HostInvariant'
<1>1. /\ shown' = 0 /\ shownUri' = None /\ shownCall' = NoCall /\ tile' = 0 /\ effect' = 0
      /\ frame' = 0 /\ src' = "empty" /\ app' = 0 /\ appUp' = FALSE
      /\ bridgeRef' = 0 /\ themeRef' = 0 /\ ready' = FALSE /\ sentInput' = 0 /\ sentResult' = 0
      /\ UNCHANGED <<setup, frameOf, inbox, posts, life, mounted, resource, call, calls, running>>
      /\ shown # 0 /\ ~mounted
    BY DEF Disappears, ClearRefs, roomVars
<1>2. /\ effect \in Life /\ themes' = {} /\ late' \subseteq Life /\ late \subseteq late'
      /\ setup[effect] \in Unchecked => effect \in late'
      /\ bridge' \in [Life -> {"none", "open", "closed"}]
      /\ \A l \in Life : bridge'[l] = "none" <=> bridge[l] = "none"
      /\ \A l \in Life : late' = {} /\ bridge'[l] = "open" => setup[l] = "failed"
    BY <1>1, CleansUp DEF Disappears
<1>3. /\ RoomTypeOK' /\ Ordered' /\ Elements(evidence') = Elements(evidence)
      /\ \A l : AppRecords(l)' = AppRecords(l)
    BY RoomRests
<1>4. TypeOK'
  <2>1. 0 \in 0..MaxLives /\ 0 \in Nat /\ NoCall \in Invocation
      BY AssuranceAssumption DEF NoCall, Invocation
  <2> QED BY <1>1, <1>2, <1>3, <2>1 DEF HostInvariant, TypeOK
<1>5. Lives'
    BY <1>1, HostNumbers DEF HostInvariant, Lives
<1>6. LetGo' /\ NothingStray'
    BY <1>1, <1>2 DEF HostInvariant, LetGo, NothingStray
<1>7. Refs' /\ Informed'
    BY <1>1 DEF HostInvariant, Refs, Informed
<1>8. Heard'
  <2>1. \A l : Reported(l)' <=> Reported(l)
      BY <1>1, <1>3 DEF Reported
  <2>2. \A l \in Life : OwnFrame(l)' <=> OwnFrame(l)
      BY <1>1 DEF OwnFrame
  <2>3. \A l \in Life : l # 0
      BY HostNumbers DEF HostInvariant
  <2> QED BY <1>1, <1>2, <1>3, <2>1, <2>2, <2>3 DEF HostInvariant, Heard
<1>9. Numbered'
    BY <1>1, HostNumbers DEF HostInvariant, Numbered, NoCall
<1> QED BY <1>3, <1>4, <1>5, <1>6, <1>7, <1>8, <1>9 DEF HostInvariant

LEMMA ChangesHolds ==
    ASSUME HostInvariant, Changes, UNCHANGED roomVars
    PROVE  HostInvariant'
<1>1. /\ shown' = life /\ shownUri' = resource /\ shownCall' = call
      /\ bridgeRef' = 0 /\ themeRef' = 0 /\ ready' = FALSE /\ sentInput' = 0 /\ sentResult' = 0
      /\ UNCHANGED <<tile, frameOf, inbox, posts, life, mounted, resource, call, calls, running>>
      /\ shown # 0 /\ mounted /\ shown # life
      /\ \/ UNCHANGED <<frame, src, app, appUp>>
         \/ frame' \in {0, life} /\ app' = 0 /\ appUp' = FALSE /\ src' = "empty"
    BY DEF Changes, ClearRefs, NewFrame, frameVars, roomVars, HostInvariant, Lives
<1>2. /\ effect \in Life /\ themes' = {} /\ late' \subseteq Life /\ late \subseteq late'
      /\ setup[effect] \in Unchecked => effect \in late'
      /\ bridge' \in [Life -> {"none", "open", "closed"}]
      /\ \A l \in Life : bridge'[l] = "none" <=> bridge[l] = "none"
      /\ \A l \in Life : late' = {} /\ bridge'[l] = "open" => setup[l] = "failed"
    BY <1>1, CleansUp DEF Changes
<1>3. /\ life \in Life /\ effect' = life /\ setup' \in [Life -> Step]
      /\ setup[life] = "none" /\ setup'[life] \in {"stopped", "fetching"}
      /\ \A l \in Life : l # life => setup'[l] = setup[l]
      /\ bridge[life] = "none" /\ inbox[life] = <<>> /\ ~Reported(life)
      /\ effect < life /\ frame < life
    BY <1>1, SetupStarts DEF Changes
<1>4. /\ RoomTypeOK' /\ Ordered' /\ Elements(evidence') = Elements(evidence)
      /\ \A l : AppRecords(l)' = AppRecords(l)
    BY RoomRests
<1>5. TypeOK'
  <2>1. 0 \in 0..MaxLives /\ 0 \in Nat /\ life \in 0..MaxLives
      BY AssuranceAssumption, HostNumbers DEF HostInvariant
  <2>2. /\ frame' \in 0..MaxLives /\ app' \in 0..MaxLives /\ appUp' \in BOOLEAN
        /\ src' \in {"empty", "loading", "ready"}
      BY <1>1, <2>1 DEF HostInvariant, TypeOK
  <2> QED BY <1>1, <1>2, <1>3, <1>4, <2>1, <2>2 DEF HostInvariant, TypeOK, RoomTypeOK
<1>6. Lives'
  <2>1. tile <= life /\ frame' <= life /\ life # 0 /\ tile # 0
      BY <1>1, <1>3, HostNumbers DEF HostInvariant, Lives
  <2> QED BY <1>1, <1>3, <2>1, HostNumbers DEF HostInvariant, Lives
<1>7. LetGo'
  <2>1. \A l \in Life : setup[l] \in Unchecked => l \in late'
      BY <1>2 DEF HostInvariant, LetGo
  <2> QED BY <1>1, <1>2, <1>3, <2>1 DEF HostInvariant, LetGo, Unchecked
<1>8. NothingStray'
    BY <1>2, <1>3 DEF NothingStray
<1>9. Refs' /\ Informed'
    BY <1>1, <1>3 DEF HostInvariant, Refs, Informed
<1>10. Heard'
  <2>1. \A l : Reported(l)' <=> Reported(l)
      BY <1>1, <1>4 DEF Reported
  <2>2. \A l \in Life : OwnFrame(l)' /\ Reported(l) => OwnFrame(l) /\ setup'[l] = setup[l]
                                                       /\ l # life
      BY <1>1, <1>3 DEF OwnFrame
  <2>3. frame' # life \/ app' = 0
      BY <1>1, <1>3, HostNumbers DEF HostInvariant
  <2> QED BY <1>1, <1>2, <1>3, <1>4, <2>1, <2>2, <2>3 DEF HostInvariant, Heard
<1>11. Numbered'
  <2>1. call.id <= calls /\ 0 <= calls
      BY HostNumbers DEF HostInvariant, Numbered
  <2> QED BY <1>1, <2>1 DEF HostInvariant, Numbered
<1> QED BY <1>4, <1>5, <1>6, <1>7, <1>8, <1>9, <1>10, <1>11 DEF HostInvariant

-----------------------------------------------------------------------------
(* The steps of a setup().                                                  *)

\* Before its bridge, a setup() moves alone.
LEMMA EarlyMoves ==
    ASSUME HostInvariant, UNCHANGED roomVars,
           UNCHANGED <<tileVars, app, appUp, refVars, bridge, inbox, themes, posts>>,
           src' \in {"empty", "loading", "ready"}, setup' \in [Life -> Step],
           frameOf' \in [Life -> 0..MaxLives],
           \A l \in Life :
               \/ setup'[l] = setup[l] /\ frameOf'[l] = frameOf[l]
               \/ /\ setup[l] \in {"fetching", "loading", "asking"}
                  /\ setup'[l] \in {"loading", "asking", "stopped"}
    PROVE  HostInvariant'
<1>1. /\ RoomTypeOK' /\ Ordered' /\ Elements(evidence') = Elements(evidence)
      /\ \A l : AppRecords(l)' = AppRecords(l)
    BY RoomRests
<1>2. UNCHANGED <<shown, shownUri, shownCall, tile, frame, effect, late, bridgeRef, themeRef,
                  ready, sentInput, sentResult, life, mounted, resource, call, calls, running>>
    BY DEF tileVars, refVars, roomVars
<1>3. /\ life \in 0..MaxLives /\ effect \in 0..MaxLives /\ bridgeRef \in 0..MaxLives
      /\ \A l \in 0..MaxLives : l # 0 => l \in Life
    BY HostNumbers DEF HostInvariant, TypeOK
<1>4. TypeOK'
    BY <1>1, <1>2 DEF HostInvariant, TypeOK
<1>5. Lives'
    BY <1>2, <1>3 DEF HostInvariant, Lives
<1>6. LetGo' /\ NothingStray'
    BY <1>2 DEF HostInvariant, LetGo, NothingStray, Unchecked
<1>7. Refs'
    BY <1>2, <1>3 DEF HostInvariant, Refs
<1>8. Heard'
  <2>1. \A l : Reported(l)' <=> Reported(l)
      BY <1>1 DEF Reported
  <2>2. \A l \in Life : Reported(l) => setup'[l] = setup[l] /\ frameOf'[l] = frameOf[l]
      BY DEF HostInvariant, Heard, LetGo, Unchecked
  <2>3. \A l \in Life : OwnFrame(l)' /\ Reported(l) => OwnFrame(l)
      BY <2>2 DEF OwnFrame
  <2>4. /\ late = {} /\ effect # 0 /\ frame = effect /\ app # 0 =>
               app = effect /\ setup'[effect] \in {"delivered", "done"}
      BY <1>3 DEF HostInvariant, Heard
  <2> QED BY <1>1, <1>2, <2>1, <2>2, <2>3, <2>4 DEF HostInvariant, Heard
<1>9. Numbered' /\ Informed'
    BY <1>2 DEF HostInvariant, Numbered, Informed, InformedOf, Told
<1> QED BY <1>1, <1>4, <1>5, <1>6, <1>7, <1>8, <1>9 DEF HostInvariant

LEMMA FetchedHolds ==
    ASSUME HostInvariant, NEW l \in Life, Fetched(l), UNCHANGED roomVars
    PROVE  HostInvariant'
<1>1. /\ UNCHANGED <<tileVars, app, appUp, refVars, bridge, inbox, themes, posts>>
      /\ setup[l] = "fetching" /\ setup \in [Life -> Step] /\ frame \in 0..MaxLives
      /\ frameOf \in [Life -> 0..MaxLives] /\ src \in {"empty", "loading", "ready"}
    BY DEF Fetched, HostInvariant, TypeOK
<1>2. PICK s \in {"stopped", "loading", "asking"}, f \in {frameOf[l], frame} :
          /\ setup' = [setup EXCEPT ![l] = s] /\ frameOf' = [frameOf EXCEPT ![l] = f]
          /\ src' \in {src, "loading"}
  <2>1. frameOf = [frameOf EXCEPT ![l] = frameOf[l]]
      BY <1>1
  <2> QED BY <2>1 DEF Fetched
<1>3. s \in Step /\ f \in 0..MaxLives
    BY <1>1, <1>2 DEF Step
<1>4. setup' \in [Life -> Step] /\ frameOf' \in [Life -> 0..MaxLives]
    BY <1>1, <1>2, <1>3
<1> QED BY <1>1, <1>2, <1>4, EarlyMoves

LEMMA ProxyReadyHolds ==
    ASSUME HostInvariant, ProxyReady, UNCHANGED roomVars
    PROVE  HostInvariant'
<1>1. /\ UNCHANGED <<tileVars, app, appUp, refVars, frameOf, bridge, inbox, themes, posts>>
      /\ src' = "ready" /\ setup \in [Life -> Step] /\ frameOf \in [Life -> 0..MaxLives]
      /\ setup' = [l \in Life |-> IF setup[l] = "loading" /\ frameOf[l] = frame
                                  THEN "asking" ELSE setup[l]]
    BY DEF ProxyReady, HostInvariant, TypeOK
<1>2. setup' \in [Life -> Step]
    BY <1>1 DEF Step
<1>3. \A l \in Life : setup'[l] = setup[l] \/ (setup[l] = "loading" /\ setup'[l] = "asking")
    BY <1>1
<1> QED BY <1>1, <1>2, <1>3, EarlyMoves

LEMMA WireHolds ==
    ASSUME HostInvariant, NEW l \in Life, Wire(l), UNCHANGED roomVars
    PROVE  HostInvariant'
<1>1. /\ UNCHANGED <<tileVars, frameVars, bridgeRef, ready, sentInput, sentResult, frameOf,
                     inbox, posts>>
      /\ setup[l] = "asking" /\ setup \in [Life -> Step] /\ frameOf \in [Life -> 0..MaxLives]
      /\ src \in {"empty", "loading", "ready"} /\ bridge \in [Life -> {"none", "open", "closed"}]
      /\ themes \subseteq Life
    BY DEF Wire, HostInvariant, TypeOK
<1>2. CASE l # effect
  <2>1. setup' = [setup EXCEPT ![l] = "stopped"] /\ UNCHANGED <<bridge, themes, themeRef>>
      BY <1>2 DEF Wire
  <2>2. setup' \in [Life -> Step]
      BY <1>1, <2>1 DEF Step
  <2>3. UNCHANGED <<app, appUp, src, refVars>>
      BY <1>1, <2>1 DEF frameVars, refVars
  <2> QED BY <1>1, <2>1, <2>2, <2>3, EarlyMoves
<1>3. CASE l = effect
  <2>1. /\ setup' = [setup EXCEPT ![l] = "connecting"] /\ bridge' = [bridge EXCEPT ![l] = "open"]
        /\ themes' = themes \cup {l} /\ themeRef' = l
      BY <1>3 DEF Wire
  <2>2. /\ RoomTypeOK' /\ Ordered' /\ Elements(evidence') = Elements(evidence)
        /\ \A k : AppRecords(k)' = AppRecords(k)
      BY RoomRests
  <2>3. /\ UNCHANGED <<shown, shownUri, shownCall, tile, frame, effect, late, src, app, appUp,
                       life, mounted, resource, call, calls, running>>
        /\ l \in 0..MaxLives /\ l # 0
      BY <1>1, HostNumbers DEF tileVars, frameVars, roomVars, HostInvariant
  <2>4. bridge[l] = "none" /\ ~Reported(l) /\ themes \subseteq {l}
      BY <1>1, <1>3 DEF HostInvariant, LetGo, Heard, NothingStray, Unchecked
  <2>5. setup' \in [Life -> Step] /\ bridge' \in [Life -> {"none", "open", "closed"}]
      BY <1>1, <2>1 DEF Step
  <2>6. TypeOK'
      BY <1>1, <2>1, <2>2, <2>3, <2>5 DEF HostInvariant, TypeOK
  <2>7. Lives'
      BY <1>1, <2>1, <2>3 DEF HostInvariant, Lives
  <2>8. LetGo' /\ NothingStray'
      BY <1>1, <1>3, <2>1, <2>3, <2>4 DEF HostInvariant, LetGo, NothingStray, Unchecked
  <2>9. Refs'
      BY <1>1, <2>1, <2>3, HostNumbers DEF HostInvariant, Refs
  <2>10. Heard'
    <3>1. \A k : Reported(k)' <=> Reported(k)
        BY <1>1, <2>2 DEF Reported
    <3>2. \A k \in Life : Reported(k) => k # l /\ setup'[k] = setup[k] /\ bridge'[k] = bridge[k]
        BY <1>1, <2>1, <2>4
    <3>3. \A k \in Life : OwnFrame(k)' /\ Reported(k) => OwnFrame(k)
        BY <1>1, <3>2 DEF OwnFrame
    <3>4. late = {} => ~(effect # 0 /\ frame = effect /\ app # 0)
        BY <1>1, <1>3 DEF HostInvariant, Heard
    <3> QED BY <1>1, <2>2, <2>3, <3>1, <3>2, <3>3, <3>4 DEF HostInvariant, Heard
  <2>11. Numbered' /\ Informed'
      BY <1>1, <2>3 DEF HostInvariant, Numbered, Informed, InformedOf, Told
  <2> QED BY <2>2, <2>6, <2>7, <2>8, <2>9, <2>10, <2>11 DEF HostInvariant
<1> QED BY <1>2, <1>3

\* A report that is none of an initialization.
LEMMA PostTyped ==
    ASSUME HostInvariant, NEW event \in HostEvent, NEW l \in Life
    PROVE  /\ posts \cup {Post(event, l)} \subseteq Posts
           /\ event # "app_initialized" =>
                  \A k : Post("app_initialized", k) \in posts \cup {Post(event, l)} <=>
                            Post("app_initialized", k) \in posts
<1>1. Post(event, l) \in Posts
    BY DEF Post, Posts
<1>2. \A k : Post("app_initialized", k) = Post(event, l) => event = "app_initialized"
    BY DEF Post
<1> QED BY <1>1, <1>2 DEF HostInvariant, TypeOK

\* Beyond its bridge, a setup() goes on, or fails, and reports it.
LEMMA LaterMoves ==
    ASSUME HostInvariant, UNCHANGED roomVars, NEW l \in Life, NEW s \in Step,
           NEW event \in HostEvent \ {"app_initialized"},
           UNCHANGED <<tileVars, src, refVars, frameOf, bridge, inbox, themes>>,
           setup' = [setup EXCEPT ![l] = s], posts' = posts \cup {Post(event, l)},
           setup[l] \in {"fetching", "asking", "connecting", "connected"},
           \/ s = "failed" /\ UNCHANGED <<app, appUp>>
           \/ s \in Unchecked /\ setup[l] \in Unchecked /\ UNCHANGED <<app, appUp>>
           \/ /\ s = "delivered" /\ setup[l] = "connected"
              /\ frameOf[l] = frame /\ app' = l /\ appUp' = FALSE
    PROVE  HostInvariant'
<1>1. /\ RoomTypeOK' /\ Ordered' /\ Elements(evidence') = Elements(evidence)
      /\ \A k : AppRecords(k)' = AppRecords(k)
    BY RoomRests
<1>2. /\ UNCHANGED <<shown, shownUri, shownCall, tile, frame, effect, late, bridgeRef, themeRef,
                     ready, sentInput, sentResult, life, mounted, resource, call, calls, running>>
      /\ l \in 0..MaxLives /\ l # 0 /\ setup \in [Life -> Step] /\ setup' \in [Life -> Step]
    BY HostNumbers DEF tileVars, refVars, roomVars, HostInvariant, TypeOK
<1>3. /\ posts' \subseteq Posts
      /\ \A k : Post("app_initialized", k) \in posts' <=> Post("app_initialized", k) \in posts
    BY PostTyped
<1>4. TypeOK'
    BY <1>1, <1>2, <1>3 DEF HostInvariant, TypeOK
<1>5. Lives'
    BY <1>2 DEF HostInvariant, Lives, Unchecked
<1>6. LetGo' /\ NothingStray'
  <2>1. \A k \in Life : k # l => setup'[k] = setup[k]
      BY <1>2
  <2>2. setup'[l] = s /\ s \in {"failed"} \cup Unchecked
      BY <1>2 DEF Unchecked
  <2> QED BY <1>2, <2>1, <2>2 DEF HostInvariant, LetGo, NothingStray, Unchecked
<1>7. Refs'
    BY <1>2, HostNumbers DEF HostInvariant, Refs, Unchecked
<1>8. Heard'
  <2>1. \A k : Reported(k)' <=> Reported(k)
      BY <1>1, <1>3 DEF Reported
  <2>2. \A k \in Life : OwnFrame(k)' => OwnFrame(k)
      BY <1>2 DEF OwnFrame
  <2>3. ~(late = {} /\ OwnFrame(l) /\ Reported(l))
      BY DEF HostInvariant, Heard
  <2>4. late = {} /\ setup[l] \in Unchecked => l = effect
      BY DEF HostInvariant, LetGo
  <2>5. late = {} /\ l = effect /\ frame = effect => app = 0
      BY <1>2 DEF HostInvariant, Heard
  <2>6. late = {} /\ effect # 0 /\ frame = effect /\ app' # 0 =>
            app' = effect /\ setup'[effect] \in {"delivered", "done"}
    <3>1. CASE l = effect
        BY <1>2, <2>5, <3>1
    <3>2. CASE l # effect
      <4>1. late = {} => UNCHANGED app
          BY <2>4, <3>2 DEF Unchecked
      <4>2. effect # 0 => effect \in Life
          BY HostNumbers DEF HostInvariant, TypeOK
      <4> QED BY <1>2, <3>2, <4>1, <4>2 DEF HostInvariant, Heard
    <3> QED BY <3>1, <3>2
  <2>7. ASSUME late = {}, NEW k \in Life, OwnFrame(k), Reported(k)
        PROVE  k # l /\ setup'[k] = setup[k] /\ (k = effect /\ frame = k => appUp')
    <3>1. k # l /\ setup'[k] = setup[k]
        BY <1>2, <2>3, <2>7
    <3>2. k = effect => UNCHANGED appUp
        BY <2>4, <2>7, <3>1 DEF Unchecked
    <3> QED BY <2>7, <3>1, <3>2 DEF HostInvariant, Heard
  <2> QED BY <1>1, <1>2, <1>3, <2>1, <2>2, <2>6, <2>7 DEF HostInvariant, Heard
<1>9. Numbered' /\ Informed'
    BY <1>2 DEF HostInvariant, Numbered, Informed, InformedOf, Told
<1> QED BY <1>1, <1>4, <1>5, <1>6, <1>7, <1>8, <1>9 DEF HostInvariant

LEMMA ConnectedHolds ==
    ASSUME HostInvariant, NEW l \in Life, Connected(l) \/ Deliver(l) \/ Fails(l), UNCHANGED roomVars
    PROVE  HostInvariant'
<1>1. "connected" \in Step /\ "delivered" \in Step /\ "failed" \in Step
    BY DEF Step
<1>2. /\ "bridge_connected" \in HostEvent \ {"app_initialized"}
      /\ "resource_delivered" \in HostEvent \ {"app_initialized"}
      /\ "app_error" \in HostEvent \ {"app_initialized"}
    BY DEF HostEvent
<1>3. CASE Connected(l)
    BY <1>1, <1>2, <1>3, LaterMoves DEF Connected, Unchecked, frameVars
<1>4. CASE Deliver(l)
    BY <1>1, <1>2, <1>4, LaterMoves DEF Deliver, Unchecked
<1>5. CASE Fails(l)
    BY <1>1, <1>2, <1>5, LaterMoves DEF Fails, frameVars
<1> QED BY <1>3, <1>4, <1>5

\* The initialization is reported by every bridge that listens to the frame.
LEMMA InitializedHolds ==
    ASSUME HostInvariant, Initialized, UNCHANGED roomVars
    PROVE  HostInvariant'
<1>1. /\ app # 0 /\ ~appUp /\ appUp' = TRUE
      /\ posts' = posts \cup {Post("app_initialized", l) : l \in OpenOn(frame)}
      /\ UNCHANGED <<tileVars, src, app, refVars, setup, frameOf, bridge, inbox, themes>>
    BY DEF Initialized
<1>2. UNCHANGED <<shown, shownUri, shownCall, tile, frame, effect, late, bridgeRef, themeRef,
                  ready, sentInput, sentResult, life, mounted, resource, call, calls, running>>
    BY <1>1 DEF tileVars, refVars, roomVars
<1>3. /\ RoomTypeOK' /\ Ordered' /\ Elements(evidence') = Elements(evidence)
      /\ \A l : AppRecords(l)' = AppRecords(l)
    BY RoomRests
<1>4. posts' \subseteq Posts
    BY <1>1 DEF HostInvariant, TypeOK, Posts, Post, OpenOn, HostEvent
<1>5. \A l : Post("app_initialized", l) \in posts' =>
                 Post("app_initialized", l) \in posts \/ l \in OpenOn(frame)
    BY <1>1 DEF Post
<1>6. TypeOK'
    BY <1>1, <1>2, <1>3, <1>4 DEF HostInvariant, TypeOK
<1>7. Lives' /\ LetGo' /\ NothingStray' /\ Refs'
    BY <1>1, <1>2 DEF HostInvariant, Lives, LetGo, NothingStray, Refs
<1>8. Heard'
  <2>1. ASSUME NEW l \in Life, Reported(l)' PROVE bridge'[l] # "none"
      BY <1>1, <1>3, <1>5, <2>1 DEF Reported, OpenOn, HostInvariant, Heard
  <2>2. ASSUME late = {}, NEW l \in Life, OwnFrame(l), Reported(l)'
        PROVE  /\ setup[l] \in {"delivered", "done"}
               /\ Post("app_initialized", l) \in posts' => AppRecords(l) = {}
               /\ \A r, s \in AppRecords(l) : r = s
    <3>1. CASE l \in OpenOn(frame)
      <4>1. l = effect /\ frame = effect /\ l # 0 /\ frame = l
          BY <2>2, <3>1, HostNumbers DEF OpenOn, OwnFrame, HostInvariant, NothingStray
      <4>2. setup[l] \in {"delivered", "done"}
          BY <1>1, <2>2, <4>1 DEF HostInvariant, Heard
      <4>3. ~Reported(l)
          BY <1>1, <2>2, <4>1 DEF HostInvariant, Heard
      <4> QED BY <4>2, <4>3 DEF Reported
    <3>2. CASE l \notin OpenOn(frame)
      <4>1. Reported(l) /\ (Post("app_initialized", l) \in posts' =>
                                 Post("app_initialized", l) \in posts)
          BY <1>3, <1>5, <2>2, <3>2 DEF Reported
      <4> QED BY <2>2, <4>1 DEF HostInvariant, Heard
    <3> QED BY <3>1, <3>2
  <2>3. \A l : OwnFrame(l)' <=> OwnFrame(l)
      BY <1>1 DEF OwnFrame
  <2> QED BY <1>1, <1>2, <1>3, <2>1, <2>2, <2>3 DEF HostInvariant, Heard
<1>9. Numbered' /\ Informed'
    BY <1>1, <1>2 DEF HostInvariant, Numbered, Informed, InformedOf, Told
<1> QED BY <1>3, <1>6, <1>7, <1>8, <1>9 DEF HostInvariant

\* A report arrives, or is lost.
LEMMA ArrivesHolds ==
    ASSUME HostInvariant, NEW p \in posts, Arrives(p)
    PROVE  HostInvariant'
<1>1. /\ posts' = posts \ {p} /\ p \in Posts /\ p.event \in HostEvent /\ p.life \in Life
      /\ p = Post(p.event, p.life) /\ p.life \in Nat
      /\ UNCHANGED <<tileVars, frameVars, refVars, setup, frameOf, bridge, inbox, themes>>
    BY HostNumbers DEF Arrives, HostInvariant, TypeOK, Posts, Post
<1>2. RoomInvariant
    BY DEF HostInvariant, TypeOK, RoomInvariant
<1>3. /\ RoomInvariant' /\ UNCHANGED <<life, mounted, resource, call, calls, running>>
      /\ Elements(evidence') \subseteq
             Elements(evidence) \cup {[event |-> p.event, inst |-> Here,
                                       revision |-> revision + 1, life |-> p.life]}
  <2>1. CASE Report(p.event, p.life) /\ mounted
    <3>1. RoomInvariant' /\ UNCHANGED <<life, mounted, resource, call, calls, running>>
        BY <1>1, <1>2, <2>1, ReportKeepsRoom DEF Report
    <3>2. AppendEvidence(p.event, Here, p.life) /\ p.event \in HostEvent \cup RoomEvent
          /\ Here \in Instance
        BY <1>1, <2>1, AssuranceAssumption DEF Report
    <3>3. Elements(evidence') \subseteq
             Elements(evidence) \cup {[event |-> p.event, inst |-> Here,
                                       revision |-> revision + 1, life |-> p.life]}
        BY <1>1, <1>2, <3>2, AppendKeepsEvidence
    <3> QED BY <3>1, <3>3
  <2>2. CASE UNCHANGED roomVars \/ (Report(p.event, p.life) /\ ~mounted)
    <3>1. UNCHANGED roomVars
        BY <2>2 DEF Report, roomVars
    <3> QED BY <1>2, <3>1, StutterKeepsRoom DEF roomVars
  <2> QED BY <2>1, <2>2 DEF Arrives
<1> DEFINE new == [event |-> p.event, inst |-> Here, revision |-> revision + 1, life |-> p.life]
<1>4. new.event = p.event /\ new.inst = Here /\ new.life = p.life
    OBVIOUS
<1>5. Elements(evidence') \subseteq Elements(evidence) \cup {new}
    BY <1>3
<1> HIDE DEF new
<1>6. ASSUME NEW l \in Life
      PROVE  /\ AppRecords(l)' \subseteq AppRecords(l)
                    \cup (IF p = Post("app_initialized", l) THEN {new} ELSE {})
             /\ Post("app_initialized", l) \in posts' => Post("app_initialized", l) \in posts
             /\ p = Post("app_initialized", l) =>
                    /\ Post("app_initialized", l) \notin posts'
                    /\ Post("app_initialized", l) \in posts
             /\ Reported(l)' => Reported(l)
  <2>1. AppRecords(l)' \subseteq AppRecords(l)
                    \cup (IF p = Post("app_initialized", l) THEN {new} ELSE {})
    <3>1. ASSUME NEW r \in Elements(evidence'), r.event = "app_initialized", r.inst = Here,
                 r.life = l, r \notin Elements(evidence)
          PROVE  r = new /\ p = Post("app_initialized", l)
        BY <1>1, <1>4, <1>5, <3>1
    <3> QED BY <3>1 DEF AppRecords
  <2>2. /\ Post("app_initialized", l) \in posts' => Post("app_initialized", l) \in posts
        /\ p = Post("app_initialized", l) =>
                    /\ Post("app_initialized", l) \notin posts'
                    /\ Post("app_initialized", l) \in posts
      BY <1>1
  <2> QED BY <2>1, <2>2 DEF Reported
<1>7. UNCHANGED <<shown, shownUri, shownCall, tile, frame, effect, late, bridgeRef, themeRef,
                  ready, sentInput, sentResult, src, app, appUp>>
    BY <1>1 DEF tileVars, refVars, frameVars
<1>8. TypeOK'
    BY <1>1, <1>3, <1>7 DEF HostInvariant, TypeOK, RoomInvariant
<1>9. Lives' /\ LetGo' /\ NothingStray' /\ Refs'
    BY <1>1, <1>3, <1>7 DEF HostInvariant, Lives, LetGo, NothingStray, Refs
<1>10. Heard'
  <2>1. \A r \in Elements(evidence') :
            r.event = "app_initialized" /\ r.inst = Here => r.life \in Life
      BY <1>1, <1>4, <1>5 DEF HostInvariant, Heard
  <2>2. ASSUME late = {}, NEW l \in Life, OwnFrame(l), Reported(l)'
        PROVE  /\ setup[l] \in {"delivered", "done"}
               /\ l = effect /\ frame = l => appUp
               /\ Post("app_initialized", l) \in posts' => AppRecords(l)' = {}
               /\ \A r, s \in AppRecords(l)' : r = s
    <3>1. /\ Reported(l) /\ setup[l] \in {"delivered", "done"}
          /\ l = effect /\ frame = l => appUp
          /\ Post("app_initialized", l) \in posts => AppRecords(l) = {}
          /\ \A r, s \in AppRecords(l) : r = s
        BY <1>6, <2>2 DEF HostInvariant, Heard
    <3> QED BY <1>6, <3>1
  <2>3. \A l : OwnFrame(l)' <=> OwnFrame(l)
      BY <1>1 DEF OwnFrame
  <2> QED BY <1>1, <1>6, <1>7, <2>1, <2>2, <2>3 DEF HostInvariant, Heard
<1>11. Numbered' /\ Informed'
    BY <1>1, <1>3, <1>7 DEF HostInvariant, Numbered, Informed, InformedOf, Told
<1> QED BY <1>3, <1>8, <1>9, <1>10, <1>11 DEF HostInvariant, RoomInvariant

-----------------------------------------------------------------------------
(* Forwarding an invocation.                                                *)

Message == [kind : {"input", "outcome"}, id : Nat]

LEMMA ToldAppend ==
    ASSUME NEW box \in Seq(Message), NEW m \in Message, NEW kind, NEW id
    PROVE  /\ Append(box, m) \in Seq(Message) /\ Len(Append(box, m)) = Len(box) + 1
           /\ Len(box) \in Nat /\ Append(box, m)[Len(box) + 1] = m
           /\ \A k \in 1..Len(box) : Append(box, m)[k] = box[k]
           /\ Told(box, kind, id) \subseteq 1..Len(box)
           /\ Told(Append(box, m), kind, id) =
                  Told(box, kind, id)
                  \cup (IF m = [kind |-> kind, id |-> id] THEN {Len(box) + 1} ELSE {})
<1> DEFINE t == Append(box, m)
<1>1. /\ t \in Seq(Message) /\ Len(t) = Len(box) + 1 /\ Len(box) \in Nat
      /\ t[Len(box) + 1] = m /\ \A k \in 1..Len(box) : t[k] = box[k]
    BY AppendProperties, LenProperties
<1> HIDE DEF t
<1>2. 1..Len(t) = (1..Len(box)) \cup {Len(box) + 1}
    BY <1>1
<1>3. Told(t, kind, id) = Told(box, kind, id)
                          \cup (IF m = [kind |-> kind, id |-> id] THEN {Len(box) + 1} ELSE {})
    BY <1>1, <1>2 DEF Told
<1> QED BY <1>1, <1>3 DEF Told, t

\* Nothing of an invocation of a higher number than all that was sent.
LEMMA ToldNothing ==
    ASSUME NEW box \in Seq(Message), NEW n \in Nat, NEW id \in Nat, n < id,
           \A k \in 1..Len(box) : box[k].id <= n, NEW kind
    PROVE  Told(box, kind, id) = {}
<1>1. ASSUME NEW k \in 1..Len(box), box[k] = [kind |-> kind, id |-> id] PROVE FALSE
  <2>1. box[k].id = id /\ box[k].id <= n
      BY <1>1
  <2> QED BY <2>1
<1> QED BY <1>1 DEF Told

\* The end of the invocation joins a box that has its input.
LEMMA OutcomeInforms ==
    ASSUME NEW box \in Seq(Message), NEW id \in Nat, NEW last, last.id = id,
           last.status # "running", NEW i \in 1..Len(box),
           Told(box, "input", id) = {i}, Told(box, "outcome", id) = {}
    PROVE  InformedOf(Append(box, [kind |-> "outcome", id |-> id]), last)
<1> DEFINE m == [kind |-> "outcome", id |-> id]
           t == Append(box, m)
<1>1. m \in Message /\ m # [kind |-> "input", id |-> id]
    BY DEF Message
<1>2. /\ Len(t) = Len(box) + 1 /\ Len(box) \in Nat
      /\ Told(t, "input", id) = {i} /\ Told(t, "outcome", id) = {Len(box) + 1}
    BY <1>1, ToldAppend
<1> HIDE DEF t
<1>3. i \in 1..Len(t) /\ Len(box) + 1 \in (i + 1)..Len(t)
    BY <1>2
<1> QED BY <1>2, <1>3 DEF InformedOf, t, m

\* The first to hear of an invocation hears its input, and its end if it has one.
LEMMA NewInforms ==
    ASSUME NEW box \in Seq(Message), NEW n \in Nat, NEW id \in Nat, n < id,
           \A k \in 1..Len(box) : box[k].id <= n, NEW last, last.id = id
    PROVE  LET t == Append(box, [kind |-> "input", id |-> id]) IN
           /\ t \in Seq(Message) /\ \A k \in 1..Len(t) : t[k].id <= id
           /\ last.status = "running" => InformedOf(t, last)
           /\ last.status # "running" =>
                  InformedOf(Append(t, [kind |-> "outcome", id |-> id]), last)
<1> DEFINE m == [kind |-> "input", id |-> id]
           t == Append(box, m)
<1>1. m \in Message /\ m # [kind |-> "outcome", id |-> id] /\ m.id = id
    BY DEF Message
<1>2. Told(box, "input", id) = {} /\ Told(box, "outcome", id) = {}
    BY ToldNothing
<1> HIDE DEF m
<1>3. /\ t \in Seq(Message) /\ Len(t) = Len(box) + 1 /\ Len(box) \in Nat
      /\ t[Len(box) + 1] = m /\ \A k \in 1..Len(box) : t[k] = box[k]
      /\ Told(t, "input", id) = {Len(box) + 1} /\ Told(t, "outcome", id) = {}
  <2>1. m = [kind |-> "input", id |-> id]
      BY DEF m
  <2> QED BY <1>1, <1>2, <2>1, ToldAppend
<1> HIDE DEF t
<1>4. ASSUME NEW k \in 1..Len(t) PROVE t[k].id <= id
  <2>1. k \in 1..Len(box) \/ k = Len(box) + 1
      BY <1>3
  <2>2. CASE k \in 1..Len(box)
    <3>1. box[k] \in Message
        BY <2>2, ElementOfSeq
    <3>2. box[k].id \in Nat /\ box[k].id <= n /\ t[k] = box[k]
        BY <1>3, <2>2, <3>1 DEF Message
    <3> QED BY <3>2
  <2>3. CASE k = Len(box) + 1
      BY <1>1, <1>3, <2>3
  <2> QED BY <2>1, <2>2, <2>3
<1>5. last.status = "running" => InformedOf(t, last)
  <2>1. Len(box) + 1 \in 1..Len(t)
      BY <1>3
  <2> QED BY <1>3, <2>1 DEF InformedOf
<1>6. last.status # "running" => InformedOf(Append(t, [kind |-> "outcome", id |-> id]), last)
  <2>1. Len(box) + 1 \in 1..Len(t)
      BY <1>3
  <2> QED BY <1>3, <2>1, OutcomeInforms
<1> QED BY <1>3, <1>4, <1>5, <1>6 DEF t, m

LEMMA Sends ==
    ASSUME NEW box \in Seq(Message), NEW a \in Message, NEW b \in Message
    PROVE  /\ <<a>> \o <<b>> \in Seq(Message)
           /\ <<a>> \o <<>> \in Seq(Message) /\ <<>> \o <<b>> \in Seq(Message)
           /\ <<>> \o <<>> \in Seq(Message)
           /\ box \o (<<a>> \o <<b>>) = Append(Append(box, a), b)
           /\ box \o (<<a>> \o <<>>) = Append(box, a)
           /\ box \o (<<>> \o <<b>>) = Append(box, b)
           /\ box \o (<<>> \o <<>>) = box /\ box \o <<>> = box
<1>1. <<a>> \in Seq(Message) /\ <<b>> \in Seq(Message) /\ <<>> \in Seq(Message)
    BY EmptySeq
<1>2. <<a>> \o <<b>> \in Seq(Message)
    BY <1>1, ConcatProperties
<1>3. /\ <<a>> \o <<>> = <<a>> /\ <<>> \o <<b>> = <<b>> /\ <<>> \o <<>> = <<>>
      /\ box \o <<>> = box
    BY <1>1, ConcatEmptySeq
<1>4. Append(box, a) = box \o <<a>> /\ Append(box, b) = box \o <<b>>
    BY AppendIsConcat
<1>5. Append(box, a) \in Seq(Message)
    BY AppendProperties
<1>6. Append(Append(box, a), b) = (box \o <<a>>) \o <<b>>
    BY <1>4, <1>5, AppendIsConcat
<1>7. (box \o <<a>>) \o <<b>> = box \o (<<a>> \o <<b>>)
    BY <1>1, ConcatAssociative
<1> QED BY <1>1, <1>2, <1>3, <1>4, <1>6, <1>7

\* What is forwarded, case by case.
LEMMA ForwardSends ==
    ASSUME HostInvariant, NEW last \in Invocation, NEW ref \in 0..MaxLives,
           NEW now \in BOOLEAN, Forward(last, ref, now)
    PROVE  /\ sentInput' \in Nat /\ sentResult' \in Nat /\ inbox' \in [Life -> Seq(Message)]
           /\ \A l \in Life : l # ref => inbox'[l] = inbox[l]
           /\ ~now \/ ref = 0 \/ last.id = 0 => UNCHANGED <<sentInput, sentResult, inbox>>
           /\ now /\ ref # 0 /\ last.id # 0 =>
                 LET settled == last.status \in {"completed", "failed"}
                     input == [kind |-> "input", id |-> last.id]
                     outcome == [kind |-> "outcome", id |-> last.id] IN
                 /\ sentInput' = last.id
                 /\ sentInput # last.id /\ settled =>
                        /\ sentResult' = last.id
                        /\ inbox'[ref] = Append(Append(inbox[ref], input), outcome)
                 /\ sentInput # last.id /\ ~settled =>
                        sentResult' = 0 /\ inbox'[ref] = Append(inbox[ref], input)
                 /\ sentInput = last.id /\ settled /\ sentResult # last.id =>
                        sentResult' = last.id /\ inbox'[ref] = Append(inbox[ref], outcome)
                 /\ sentInput = last.id /\ (~settled \/ sentResult = last.id) =>
                        sentResult' = sentResult /\ inbox'[ref] = inbox[ref]
<1> DEFINE settled == last.status \in {"completed", "failed"}
           input == [kind |-> "input", id |-> last.id]
           outcome == [kind |-> "outcome", id |-> last.id]
           f == Forwarded(last, ref, now)
<1>1. /\ sentInput \in Nat /\ sentResult \in Nat /\ inbox \in [Life -> Seq(Message)]
      /\ last.id \in Nat /\ input \in Message /\ outcome \in Message
      /\ ref # 0 => ref \in Life
    BY HostNumbers DEF HostInvariant, TypeOK, Message, Invocation
<1>2. /\ sentInput' = f.input /\ sentResult' = f.result
      /\ inbox' = IF f.sent = <<>> THEN inbox ELSE [inbox EXCEPT ![ref] = @ \o f.sent]
    BY DEF Forward
<1>3. CASE ~now \/ ref = 0 \/ last.id = 0
  <2>1. f = [input |-> sentInput, result |-> sentResult, sent |-> <<>>]
      BY <1>3 DEF Forwarded
  <2>2. UNCHANGED <<sentInput, sentResult, inbox>>
      BY <1>2, <2>1
  <2> QED BY <1>1, <1>3, <2>2
<1>4. CASE now /\ ref # 0 /\ last.id # 0
  <2>1. /\ <<input>> \o <<outcome>> \in Seq(Message)
        /\ <<input>> \o <<>> \in Seq(Message) /\ <<>> \o <<outcome>> \in Seq(Message)
        /\ <<>> \o <<>> \in Seq(Message)
        /\ inbox[ref] \in Seq(Message)
        /\ inbox[ref] \o (<<input>> \o <<outcome>>)
              = Append(Append(inbox[ref], input), outcome)
        /\ inbox[ref] \o (<<input>> \o <<>>) = Append(inbox[ref], input)
        /\ inbox[ref] \o (<<>> \o <<outcome>>) = Append(inbox[ref], outcome)
        /\ inbox[ref] \o (<<>> \o <<>>) = inbox[ref] /\ inbox[ref] \o <<>> = inbox[ref]
      BY <1>1, <1>4, Sends
  <2>2. f = [input |-> last.id,
             result |-> IF settled /\ (sentInput # last.id \/ sentResult # last.id) THEN last.id
                        ELSE IF sentInput # last.id THEN 0 ELSE sentResult,
             sent |-> (IF sentInput # last.id THEN <<input>> ELSE <<>>)
                      \o (IF settled /\ (sentInput # last.id \/ sentResult # last.id)
                          THEN <<outcome>> ELSE <<>>)]
      BY <1>4 DEF Forwarded
  <2> HIDE DEF f, input, outcome
  <2>3. f.sent \in Seq(Message) /\ f.input = last.id
      BY <2>1, <2>2
  <2>4. inbox[ref] \o f.sent \in Seq(Message)
      BY <2>1, <2>3, ConcatProperties
  <2>5. /\ inbox' \in [Life -> Seq(Message)] /\ inbox'[ref] = inbox[ref] \o f.sent
        /\ \A l \in Life : l # ref => inbox'[l] = inbox[l]
      BY <1>1, <1>2, <1>4, <2>1, <2>4
  <2>6. CASE sentInput # last.id
      BY <1>1, <1>2, <1>4, <2>1, <2>2, <2>3, <2>5, <2>6 DEF input, outcome
  <2>7. CASE sentInput = last.id
      BY <1>1, <1>2, <1>4, <2>1, <2>2, <2>3, <2>5, <2>7 DEF input, outcome
  <2> QED BY <2>6, <2>7
<1> QED BY <1>3, <1>4

\* An app that knew of the invocation, or of earlier ones only, is informed.
LEMMA ForwardInforms ==
    ASSUME HostInvariant, NEW last \in Invocation, NEW ref \in Life, Forward(last, ref, TRUE),
           last.id # 0, last.status # "none",
           \A k \in 1..Len(inbox[ref]) : inbox[ref][k].id <= sentInput,
           \/ sentInput < last.id
           \/ /\ sentInput = last.id /\ shownCall.id = last.id
              /\ InformedOf(inbox[ref], shownCall)
              /\ shownCall.status \in {"running", last.status}
              /\ sentResult = sentInput <=> shownCall.status # "running"
    PROVE  /\ \A k \in 1..Len(inbox'[ref]) : inbox'[ref][k].id <= sentInput'
           /\ sentInput' = last.id
           /\ sentResult' = sentInput' <=> last.status # "running"
           /\ InformedOf(inbox'[ref], last)
<1> DEFINE settled == last.status \in {"completed", "failed"}
           input == [kind |-> "input", id |-> last.id]
           outcome == [kind |-> "outcome", id |-> last.id]
           box == inbox[ref]
<1>1. /\ sentInput \in Nat /\ box \in Seq(Message) /\ last.id \in Nat /\ last.id # 0
      /\ outcome \in Message /\ outcome.id = last.id /\ ref \in 0..MaxLives /\ ref # 0
      /\ settled <=> last.status # "running"
    BY HostNumbers DEF HostInvariant, TypeOK, Message, Invocation
<1>2. /\ sentInput' = last.id
      /\ sentInput # last.id /\ settled =>
             /\ sentResult' = last.id
             /\ inbox'[ref] = Append(Append(box, input), outcome)
      /\ sentInput # last.id /\ ~settled => sentResult' = 0 /\ inbox'[ref] = Append(box, input)
      /\ sentInput = last.id /\ settled /\ sentResult # last.id =>
             sentResult' = last.id /\ inbox'[ref] = Append(box, outcome)
      /\ sentInput = last.id /\ (~settled \/ sentResult = last.id) =>
             sentResult' = sentResult /\ inbox'[ref] = box
    BY <1>1, ForwardSends
<1> HIDE DEF settled, outcome
<1>3. \A t \in Seq(Message) :
          (\A k \in 1..Len(t) : t[k].id <= last.id) =>
              \A k \in 1..Len(Append(t, outcome)) : Append(t, outcome)[k].id <= last.id
  <2> TAKE t \in Seq(Message)
  <2> HAVE \A k \in 1..Len(t) : t[k].id <= last.id
  <2>1. /\ Len(Append(t, outcome)) = Len(t) + 1 /\ Len(t) \in Nat
        /\ Append(t, outcome)[Len(t) + 1] = outcome
        /\ \A k \in 1..Len(t) : Append(t, outcome)[k] = t[k]
      BY <1>1, AppendProperties, LenProperties
  <2> TAKE k \in 1..Len(Append(t, outcome))
  <2>2. k \in 1..Len(t) \/ k = Len(t) + 1
      BY <2>1
  <2>3. outcome.id <= last.id
      BY <1>1
  <2> QED BY <2>1, <2>2, <2>3
<1>4. CASE sentInput < last.id
  <2> DEFINE t == Append(box, input)
  <2>1. /\ t \in Seq(Message) /\ \A k \in 1..Len(t) : t[k].id <= last.id
        /\ last.status = "running" => InformedOf(t, last)
        /\ last.status # "running" => InformedOf(Append(t, outcome), last)
      BY <1>1, <1>4, NewInforms DEF outcome
  <2> HIDE DEF t
  <2>2. sentInput # last.id
      BY <1>1, <1>4
  <2>3. \/ ~settled /\ inbox'[ref] = t /\ sentResult' = 0
        \/ settled /\ inbox'[ref] = Append(t, outcome) /\ sentResult' = last.id
      BY <1>2, <2>2 DEF t
  <2> QED BY <1>1, <1>2, <1>3, <2>1, <2>3
<1>5. CASE /\ sentInput = last.id /\ shownCall.id = last.id
           /\ InformedOf(box, shownCall)
           /\ shownCall.status \in {"running", last.status}
           /\ sentResult = sentInput <=> shownCall.status # "running"
  <2>1. \A k \in 1..Len(box) : box[k].id <= last.id
      BY <1>5
  <2>2. CASE shownCall.status = last.status
    <3>1. InformedOf(box, last)
        BY <1>5, <2>2 DEF InformedOf
    <3>2. sentResult' = sentResult /\ inbox'[ref] = box
        BY <1>1, <1>2, <1>5, <2>2
    <3> QED BY <1>1, <1>2, <1>5, <2>1, <2>2, <3>1, <3>2
  <2>3. CASE shownCall.status = "running" /\ last.status # "running"
    <3>1. PICK i \in 1..Len(box) :
              Told(box, "input", last.id) = {i} /\ Told(box, "outcome", last.id) = {}
        BY <1>5, <2>3 DEF InformedOf
    <3>2. InformedOf(Append(box, outcome), last)
        BY <1>1, <2>3, <3>1, OutcomeInforms DEF outcome
    <3>3. sentResult' = last.id /\ inbox'[ref] = Append(box, outcome)
        BY <1>1, <1>2, <1>5, <2>3
    <3> QED BY <1>1, <1>2, <1>3, <2>1, <2>3, <3>2, <3>3
  <2> QED BY <1>5, <2>2, <2>3
<1> QED BY <1>4, <1>5

LEMMA UpdatesHolds ==
    ASSUME HostInvariant, Updates, UNCHANGED roomVars
    PROVE  HostInvariant'
<1>1. /\ shown' = life /\ shownCall' = call /\ Forward(call, bridgeRef, ready)
      /\ mounted /\ shown # 0 /\ resource = shownUri /\ call \in Invocation
      /\ UNCHANGED <<shownUri, tile, frame, effect, late, src, app, appUp, bridgeRef, themeRef,
                     ready, setup, frameOf, bridge, themes, posts, life, mounted, resource, call,
                     calls, running>>
      /\ bridgeRef \in 0..MaxLives /\ ready \in BOOLEAN /\ (ready <=> bridgeRef # 0)
    BY DEF Updates, frameVars, roomVars, HostInvariant, TypeOK, RoomTypeOK, Refs
<1>2. /\ RoomTypeOK' /\ Ordered' /\ Elements(evidence') = Elements(evidence)
      /\ \A l : AppRecords(l)' = AppRecords(l)
    BY RoomRests
<1>3. /\ sentInput' \in Nat /\ sentResult' \in Nat /\ inbox' \in [Life -> Seq(Message)]
      /\ \A l \in Life : l # bridgeRef => inbox'[l] = inbox[l]
      /\ ~ready \/ call.id = 0 => UNCHANGED <<sentInput, sentResult, inbox>>
      /\ ready /\ call.id # 0 => sentInput' = call.id
    BY <1>1, ForwardSends
<1>4. TypeOK'
    BY <1>1, <1>2, <1>3, HostNumbers DEF HostInvariant, TypeOK, Message
<1>5. Lives'
    BY <1>1, HostNumbers DEF HostInvariant, Lives
<1>6. LetGo' /\ NothingStray'
    BY <1>1 DEF HostInvariant, LetGo, NothingStray
<1>7. Refs'
    BY <1>1, <1>3 DEF HostInvariant, Refs
<1>8. Heard'
  <2>1. \A l : (Reported(l)' <=> Reported(l)) /\ (OwnFrame(l)' <=> OwnFrame(l))
      BY <1>1, <1>2 DEF Reported, OwnFrame
  <2> QED BY <1>1, <1>2, <2>1 DEF HostInvariant, Heard
<1>9. call.id <= calls
    BY HostNumbers DEF HostInvariant, Numbered
<1>10. Numbered'
    BY <1>1, <1>3, <1>9 DEF HostInvariant, Numbered
<1>11. Informed'
  <2> SUFFICES ASSUME late = {}, ready
               PROVE  /\ \A k \in 1..Len(inbox'[bridgeRef]) :
                             inbox'[bridgeRef][k].id <= sentInput'
                      /\ call.id # 0 =>
                            /\ sentInput' = call.id
                            /\ sentResult' = sentInput' <=> call.status # "running"
                            /\ InformedOf(inbox'[bridgeRef], call)
      BY <1>1 DEF Informed, InformedOf, Told
  <2>1. /\ bridgeRef \in Life
        /\ \A k \in 1..Len(inbox[bridgeRef]) : inbox[bridgeRef][k].id <= sentInput
        /\ shownCall.id # 0 =>
              /\ sentInput = shownCall.id
              /\ sentResult = sentInput <=> shownCall.status # "running"
              /\ InformedOf(inbox[bridgeRef], shownCall)
      BY <1>1, HostNumbers DEF HostInvariant, Informed
  <2>2. CASE call.id = 0
      BY <1>3, <2>1, <2>2
  <2>3. CASE call.id # 0
    <3>1. CASE sentInput < call.id
        BY <1>1, <2>1, <2>3, <3>1, ForwardInforms DEF HostInvariant, Numbered
    <3>2. CASE ~(sentInput < call.id)
      <4>1. call.id = calls /\ shownCall.id # 0 /\ sentInput = shownCall.id
          BY <2>1, <2>3, <3>2 DEF HostInvariant, Numbered
      <4>2. shownCall.id = call.id
          BY <3>2, <4>1, HostNumbers DEF HostInvariant, Numbered
      <4>3. shownCall.status \in {"running", call.status} /\ call.status # "none"
          BY <2>3, <4>1, <4>2 DEF HostInvariant, Numbered
      <4> QED BY <1>1, <2>1, <2>3, <4>1, <4>2, <4>3, ForwardInforms
    <3> QED BY <3>1, <3>2
  <2> QED BY <2>2, <2>3
<1> QED BY <1>2, <1>4, <1>5, <1>6, <1>7, <1>8, <1>10, <1>11 DEF HostInvariant

LEMMA FinishHolds ==
    ASSUME HostInvariant, NEW l \in Life, Finish(l), UNCHANGED roomVars
    PROVE  HostInvariant'
<1>1. /\ setup[l] = "delivered" /\ setup' = [setup EXCEPT ![l] = "done"]
      /\ UNCHANGED <<shown, shownUri, shownCall, tile, frame, effect, late, src, app, appUp,
                     frameOf, bridge, themes, themeRef, posts, life, mounted, resource, call,
                     calls, running>>
      /\ setup \in [Life -> Step] /\ setup' \in [Life -> Step]
      /\ l \in 0..MaxLives /\ l # 0 /\ shownCall \in Invocation /\ inbox[l] = <<>>
    BY HostNumbers
    DEF Finish, tileVars, frameVars, roomVars, HostInvariant, TypeOK, Step, Refs
<1>2. /\ RoomTypeOK' /\ Ordered' /\ Elements(evidence') = Elements(evidence)
      /\ \A k : AppRecords(k)' = AppRecords(k)
    BY RoomRests
<1>3. late = {} => l = effect /\ ~ready /\ tile # 0 /\ tile <= l
    BY <1>1, HostNumbers DEF HostInvariant, LetGo, Refs, Lives, Unchecked
<1>4. /\ \A k \in Life : k # l => setup'[k] = setup[k]
      /\ setup'[l] = "done"
    BY <1>1
<1>5. LetGo' /\ NothingStray'
    BY <1>1, <1>4 DEF HostInvariant, LetGo, NothingStray, Unchecked
<1>6. Lives'
    BY <1>1, <1>4 DEF HostInvariant, Lives
<1>7. Heard'
  <2>1. \A k \in Life : (Reported(k)' <=> Reported(k)) /\ (OwnFrame(k)' <=> OwnFrame(k))
      BY <1>1, <1>2, <1>4 DEF Reported, OwnFrame
  <2>2. effect # 0 => effect \in Life
      BY HostNumbers DEF HostInvariant, TypeOK
  <2> QED BY <1>1, <1>2, <1>4, <2>1, <2>2 DEF HostInvariant, Heard
<1>8. CASE UNCHANGED <<bridgeRef, ready, sentInput, sentResult, inbox>> /\ late # {}
  <2>1. TypeOK'
      BY <1>1, <1>2, <1>8 DEF HostInvariant, TypeOK
  <2>2. Refs'
      BY <1>1, <1>4, <1>8, HostNumbers DEF HostInvariant, Refs
  <2>3. Numbered' /\ Informed'
      BY <1>1, <1>8 DEF HostInvariant, Numbered, Informed
  <2> QED BY <1>2, <1>5, <1>6, <1>7, <2>1, <2>2, <2>3 DEF HostInvariant
<1>9. CASE /\ bridgeRef' = l /\ ready' = TRUE /\ ready
           /\ UNCHANGED <<sentInput, sentResult, inbox>>
  <2>1. TypeOK'
      BY <1>1, <1>2, <1>9 DEF HostInvariant, TypeOK
  <2>2. Refs' /\ Numbered' /\ Informed'
      BY <1>1, <1>3, <1>4, <1>9 DEF HostInvariant, Refs, Numbered, Informed
  <2> QED BY <1>2, <1>5, <1>6, <1>7, <2>1, <2>2 DEF HostInvariant
<1>10. CASE bridgeRef' = l /\ ready' = TRUE /\ ~ready /\ Forward(shownCall, l, TRUE)
  <2>1. /\ sentInput' \in Nat /\ sentResult' \in Nat /\ inbox' \in [Life -> Seq(Message)]
        /\ \A k \in Life : k # l => inbox'[k] = inbox[k]
        /\ shownCall.id = 0 => UNCHANGED <<sentInput, sentResult, inbox>>
        /\ shownCall.id # 0 => sentInput' = shownCall.id
      BY <1>1, <1>10, ForwardSends
  <2>2. TypeOK'
      BY <1>1, <1>2, <1>10, <2>1 DEF HostInvariant, TypeOK, Message
  <2>3. Refs'
      BY <1>1, <1>3, <1>4, <1>10, <2>1 DEF HostInvariant, Refs
  <2>4. Numbered'
      BY <1>1, <2>1 DEF HostInvariant, Numbered
  <2>5. sentInput = 0 /\ Len(inbox[l]) = 0
      BY <1>1, <1>10, EmptySeq DEF HostInvariant, Refs
  <2>6. ASSUME shownCall.id = 0 PROVE Informed'
    <3>1. /\ inbox'[bridgeRef'] = inbox[l] /\ shownCall'.id = 0
          /\ \A k \in 1..Len(inbox[l]) : inbox[l][k].id <= sentInput'
      <4>1. inbox'[bridgeRef'] = inbox[l]
          BY <1>10, <2>1, <2>6
      <4>2. shownCall'.id = 0
          BY <1>1, <2>6
      <4>3. \A k \in 1..Len(inbox[l]) : FALSE
          BY <2>5
      <4> QED BY <4>1, <4>2, <4>3
    <3> QED BY <3>1 DEF Informed
  <2>7. ASSUME shownCall.id # 0 PROVE Informed'
    <3>1. sentInput < shownCall.id /\ shownCall.status # "none"
        BY <2>5, <2>7, HostNumbers DEF HostInvariant, Numbered
    <3>2. /\ \A k \in 1..Len(inbox'[l]) : inbox'[l][k].id <= sentInput'
          /\ sentInput' = shownCall.id
          /\ sentResult' = sentInput' <=> shownCall.status # "running"
          /\ InformedOf(inbox'[l], shownCall)
      <4>1. \A k \in 1..Len(inbox[l]) : inbox[l][k].id <= sentInput
          BY <2>5
      <4> QED BY <1>1, <1>10, <2>7, <3>1, <4>1, ForwardInforms
    <3> QED BY <1>1, <1>10, <3>2 DEF Informed, InformedOf, Told
  <2> QED BY <1>2, <1>5, <1>6, <1>7, <2>2, <2>3, <2>4, <2>6, <2>7 DEF HostInvariant
<1> QED BY <1>3, <1>8, <1>9, <1>10 DEF Finish

LEMMA HostKeeps == HostInvariant /\ [Next]_vars => HostInvariant'
<1> SUFFICES ASSUME HostInvariant, [Next]_vars PROVE HostInvariant'
    OBVIOUS
<1>1. CASE Elsewhere /\ UNCHANGED hostVars
    BY <1>1, MountHereHolds, UnmountHereHolds, ElsewhereReportsHolds DEF Elsewhere
<1>2. CASE CallSent /\ UNCHANGED hostVars
    BY <1>2, CallSentHolds
<1>3. CASE /\ \E id \in running, status \in {"completed", "failed"} : CallSettled(id, status)
           /\ UNCHANGED hostVars
    BY <1>3, CallSettledHolds
<1>4. CASE Render /\ UNCHANGED roomVars
    BY <1>4, AppearsHolds, UpdatesHolds, ChangesHolds, DisappearsHolds DEF Render
<1>5. CASE (ProxyReady \/ Initialized) /\ UNCHANGED roomVars
    BY <1>5, ProxyReadyHolds, InitializedHolds
<1>6. ASSUME NEW l \in Life, SetupStep(l), UNCHANGED roomVars PROVE HostInvariant'
    BY <1>6, FetchedHolds, WireHolds, ConnectedHolds, FinishHolds DEF SetupStep
<1>7. ASSUME NEW p \in posts, Arrives(p) PROVE HostInvariant'
    BY <1>7, ArrivesHolds
<1>8. CASE UNCHANGED vars
  <2>1. UNCHANGED roomVars /\ UNCHANGED hostVars
      BY <1>8 DEF vars
  <2>2. RoomTypeOK' /\ Ordered' /\ Elements(evidence') = Elements(evidence)
      BY <2>1, RoomRests
  <2>3. Lives' /\ Numbered'
      BY <2>1 DEF HostInvariant, Lives, Numbered, hostVars, tileVars, refVars, roomVars
  <2> QED BY <2>1, <2>2, <2>3, RoomMoves
<1> QED BY <1>1, <1>2, <1>3, <1>4, <1>5, <1>6, <1>7, <1>8 DEF Next, HostStep

LEMMA HostHolds == Spec => []HostInvariant
<1> QED BY HostStarts, HostKeeps, PTL DEF Spec

\* Of the tile's type invariant.
THEOREM HostTypes == Spec => []TypeOK
<1>1. HostInvariant => TypeOK
    BY DEF HostInvariant
<1> QED BY <1>1, HostHolds, PTL

\* Of a set-up that is cleaned up at any of its awaits, in any life of the instance: no
\* theme listener and no open bridge of it is left, but for those that NothingStray names.
THEOREM CleanUpsLetGo == Spec => []NothingStray
<1>1. HostInvariant => NothingStray
    BY DEF HostInvariant
<1> QED BY <1>1, HostHolds, PTL

\* Of the invocations forwarded to an app: each is told once, and in order, however
\* many there are and whenever the bridge becomes ready.
THEOREM AppsAreInformed == Spec => []AppIsInformed
<1>1. HostInvariant => AppIsInformed
    BY DEF HostInvariant, Informed, AppIsInformed
<1> QED BY <1>1, HostHolds, PTL

\* Of the reports of an app's initialization: one for each mount with a frame of its own
\* whose set-up did not fail, in whatever order reports arrive and whichever are lost.
THEOREM InitializationsCountOnce == Spec => []InitializedOnce
<1>1. HostInvariant => InitializedOnce
  <2> SUFFICES ASSUME HostInvariant, late = {},
                      NEW j \in 1..Len(evidence), NEW k \in 1..Len(evidence),
                      evidence[j].event = "app_initialized",
                      evidence[k].event = "app_initialized",
                      evidence[j].inst = Here, evidence[k].inst = Here,
                      evidence[j].life = evidence[k].life, OwnFrame(evidence[j].life)
               PROVE  j = k
      BY DEF InitializedOnce
  <2> DEFINE l == evidence[j].life
  <2>1. evidence[j] \in Elements(evidence) /\ evidence[k] \in Elements(evidence)
      BY DEF Elements
  <2>2. evidence[j] \in AppRecords(l) /\ evidence[k] \in AppRecords(l) /\ l \in Life
      BY <2>1 DEF AppRecords, OwnFrame
  <2>3. evidence[j] = evidence[k]
      BY <2>2 DEF HostInvariant, Heard, Reported
  <2>4. Len(evidence) \in Nat /\ evidence[k].revision \in Nat
      BY LenProperties DEF HostInvariant, TypeOK, RoomTypeOK, Ordered
  <2>5. CASE j < k
    <3>1. j \in 1..(k - 1)
        BY <2>4, <2>5
    <3>2. evidence[j].revision < evidence[k].revision
        BY <3>1 DEF HostInvariant, Ordered
    <3> QED BY <2>3, <2>4, <3>2
  <2>6. CASE k < j
    <3>1. k \in 1..(j - 1)
        BY <2>4, <2>6
    <3>2. evidence[k].revision < evidence[j].revision
        BY <3>1 DEF HostInvariant, Ordered
    <3> QED BY <2>3, <2>4, <3>2
  <2> QED BY <2>4, <2>5, <2>6
<1> QED BY <1>1, HostHolds, PTL

=============================================================================
