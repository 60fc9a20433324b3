-------------------------- MODULE RoomConfig_proofs --------------------------
(* Room configurations, for any number of configurations, loads, revisions  *)
(* and instances, and any specs: the two tables of the repository agree, a  *)
(* load applies the revision it reports, a save loses nothing, and a load   *)
(* that nobody disturbs restores the room or leaves a beginning of it.      *)
EXTENDS RoomConfig, Lists_proofs, FiniteSetTheorems

-----------------------------------------------------------------------------
\* What the tables need for induction: every history is a sequence.
Histories ==
    /\ \A c \in ConfigId : \E S : history[c] \in Seq(S)
    /\ DOMAIN history = ConfigId /\ DOMAIN current = ConfigId /\ DOMAIN load = Load
    /\ \A l \in Load : load[l].revision \in Nat
    /\ \A l \in Load : load[l].pc = "idle" => load[l].revision = 0
    /\ \A l \in Load : load[l].pc # "idle" => load[l].config \in ConfigId

Fields == {"pc", "config", "key", "revision", "spec", "ops", "next", "alone"}
LoadsAreRecords == \A l \in Load : DOMAIN load[l] = Fields

RepositoryInvariant == Histories /\ LoadsAreRecords /\ RevisionsAgree

\* Appending keeps a sequence and what it held.
LEMMA AppendKeeps ==
    ASSUME NEW S, NEW s \in Seq(S), NEW e
    PROVE  /\ Append(s, e) \in Seq(S \cup {e})
           /\ Len(Append(s, e)) = Len(s) + 1
           /\ Last(Append(s, e)) = e
           /\ Append(s, e) # <<>>
           /\ \A k \in 1..Len(s) : Append(s, e)[k] = s[k]
<1>1. s \in Seq(S \cup {e}) /\ e \in S \cup {e}
    <2>1. Len(s) \in Nat /\ \A k \in 1..Len(s) : s[k] \in S \cup {e}
        BY LenProperties, ElementOfSeq
    <2>2. s = [k \in 1..Len(s) |-> s[k]]
        BY LenProperties
    <2> QED BY <2>1, <2>2, IsASeq
<1>2. /\ Append(s, e) \in Seq(S \cup {e}) /\ Len(Append(s, e)) = Len(s) + 1
      /\ \A k \in 1..Len(s) : Append(s, e)[k] = s[k]
      /\ Append(s, e)[Len(s) + 1] = e
    BY <1>1, AppendProperties
<1>3. Last(Append(s, e)) = e
    BY <1>2 DEF Last
<1> QED BY <1>1, <1>2, <1>3, EmptySeq

-----------------------------------------------------------------------------
\* An upsert or a save appends the revision that it makes current.
LEMMA StoreKeepsRepository ==
    ASSUME RepositoryInvariant, NEW c \in ConfigId, NEW spec, Store(c, spec), load' = load
    PROVE  RepositoryInvariant'
<1>1. PICK S : history[c] \in Seq(S)
    BY DEF RepositoryInvariant, Histories
<1>2. /\ history' = [history EXCEPT ![c] = Append(history[c], spec)]
      /\ current' = [current EXCEPT ![c] = [revision |-> current[c].revision + 1,
                                            spec |-> spec]]
    BY DEF Store, InsertRevision, NextRevision
<1>3. /\ history'[c] = Append(history[c], spec)
      /\ current'[c].revision = current[c].revision + 1 /\ current'[c].spec = spec
      /\ \A d \in ConfigId : d # c => history'[d] = history[d] /\ current'[d] = current[d]
    BY <1>2 DEF RepositoryInvariant, Histories
<1>4. /\ history'[c] \in Seq(S \cup {spec}) /\ Len(history'[c]) = Len(history[c]) + 1
      /\ Last(history'[c]) = spec
      /\ \A k \in 1..Len(history[c]) : history'[c][k] = history[c][k]
    <2>1. /\ Append(history[c], spec) \in Seq(S \cup {spec})
          /\ Len(Append(history[c], spec)) = Len(history[c]) + 1
          /\ Last(Append(history[c], spec)) = spec
          /\ \A k \in 1..Len(history[c]) : Append(history[c], spec)[k] = history[c][k]
        BY <1>1, AppendKeeps
    <2> QED BY <1>3, <2>1
<1>5. Histories' /\ LoadsAreRecords'
    <2>1. \A d \in ConfigId : \E T : history'[d] \in Seq(T)
        BY <1>3, <1>4 DEF RepositoryInvariant, Histories
    <2>2. DOMAIN history' = ConfigId /\ DOMAIN current' = ConfigId
        BY <1>2 DEF RepositoryInvariant, Histories
    <2> QED BY <2>1, <2>2 DEF RepositoryInvariant, Histories, LoadsAreRecords
<1>6. RevisionsAgree'
    <2>1. ASSUME NEW d \in ConfigId
          PROVE  /\ current'[d].revision = Len(history'[d])
                 /\ history'[d] # <<>> => current'[d].spec = Last(history'[d])
        BY <1>3, <1>4 DEF RepositoryInvariant, RevisionsAgree
    <2>2. ASSUME NEW l \in Load, load[l].revision > 0
          PROVE  /\ load[l].revision <= Len(history'[load[l].config])
                 /\ load[l].spec = history'[load[l].config][load[l].revision]
        <3>1. /\ load[l].config \in ConfigId /\ load[l].revision \in Nat
              /\ load[l].revision <= Len(history[load[l].config])
              /\ load[l].spec = history[load[l].config][load[l].revision]
            BY <2>2 DEF RepositoryInvariant, Histories, RevisionsAgree
        <3>2. CASE load[l].config = c
            <4>1. Len(history[c]) \in Nat /\ load[l].revision \in 1..Len(history[c])
                BY <1>1, <2>2, <3>1, <3>2, LenProperties
            <4> QED BY <1>4, <3>1, <3>2, <4>1
        <3>3. CASE load[l].config # c
            BY <1>3, <3>1, <3>3
        <3> QED BY <3>2, <3>3
    <2> QED BY <2>1, <2>2 DEF RevisionsAgree
<1> QED BY <1>5, <1>6 DEF RepositoryInvariant

\* A step that leaves the tables alone and gives no load another configuration,
\* spec or revision.
LEMMA OthersKeepRepository ==
    ASSUME RepositoryInvariant, UNCHANGED <<history, current>>, DOMAIN load' = Load,
           \A l \in Load : /\ load'[l].revision = load[l].revision
                           /\ load'[l].spec = load[l].spec
                           /\ load'[l].config = load[l].config
                           /\ DOMAIN load'[l] = Fields
                           /\ load'[l].pc = "idle" <=> load[l].pc = "idle"
    PROVE  RepositoryInvariant'
<1>1. Histories' /\ LoadsAreRecords'
    BY DEF RepositoryInvariant, Histories, LoadsAreRecords
<1>2. RevisionsAgree'
    BY DEF RepositoryInvariant, RevisionsAgree
<1> QED BY <1>1, <1>2 DEF RepositoryInvariant

\* A step of one load that has begun.
LEMMA OneLoadKeepsRepository ==
    ASSUME RepositoryInvariant, UNCHANGED <<history, current>>,
           NEW l \in Load, load[l].pc # "idle",
           NEW r, load' = [load EXCEPT ![l] = r], DOMAIN r = Fields, r.pc # "idle",
           r.revision = load[l].revision, r.spec = load[l].spec, r.config = load[l].config
    PROVE  RepositoryInvariant'
<1>1. DOMAIN load' = Load /\ load'[l] = r /\ \A m \in Load : m # l => load'[m] = load[m]
    BY DEF RepositoryInvariant, Histories
<1>2. ASSUME NEW m \in Load
      PROVE  /\ load'[m].revision = load[m].revision
             /\ load'[m].spec = load[m].spec /\ load'[m].config = load[m].config
             /\ DOMAIN load'[m] = Fields
             /\ load'[m].pc = "idle" <=> load[m].pc = "idle"
    BY <1>1 DEF RepositoryInvariant, LoadsAreRecords
<1> QED BY <1>1, <1>2, OthersKeepRepository

LEMMA MovedKeepsRepository ==
    ASSUME RepositoryInvariant, UNCHANGED <<history, current>>,
           NEW l \in Load, load[l].pc # "idle",
           NEW pc, pc # "idle", load' = [load EXCEPT ![l].pc = pc]
    PROVE  RepositoryInvariant'
<1> DEFINE r == [load[l] EXCEPT !.pc = pc]
<1>1. load' = [load EXCEPT ![l] = r]
    OBVIOUS
<1>2. /\ DOMAIN r = Fields /\ r.pc # "idle" /\ r.revision = load[l].revision
      /\ r.spec = load[l].spec /\ r.config = load[l].config
    BY DEF RepositoryInvariant, LoadsAreRecords, Fields
<1> HIDE DEF r
<1> QED BY <1>1, <1>2, OneLoadKeepsRepository

LEMMA RefuseKeepsRepository ==
    ASSUME RepositoryInvariant, UNCHANGED <<history, current>>,
           NEW l \in Load, load[l].pc # "idle", Refuse(l)
    PROVE  RepositoryInvariant'
BY MovedKeepsRepository DEF Refuse

\* A command of a load gives no load another configuration, spec or revision.
LEMMA ExecutedKeepsRepository ==
    ASSUME RepositoryInvariant, UNCHANGED <<history, current>>,
           NEW l \in Load, load[l].pc # "idle", NEW r, Executed(l, r)
    PROVE  RepositoryInvariant'
<1>1. DOMAIN load' = Load
    BY DEF Executed, Disturb
<1>2. ASSUME NEW m \in Load, m # l
      PROVE  load'[m] = [load[m] EXCEPT !.alone = FALSE]
    BY <1>2 DEF Executed, Disturb
<1>3. load'[l] = [load[l] EXCEPT !.next = @ + 1, !.pc = "applying"]
    BY DEF Executed, Disturb, Advanced
<1>4. \A m \in Load : /\ load'[m].revision = load[m].revision
                      /\ load'[m].spec = load[m].spec /\ load'[m].config = load[m].config
                      /\ DOMAIN load'[m] = Fields
                      /\ load'[m].pc = "idle" <=> load[m].pc = "idle"
    BY <1>2, <1>3 DEF RepositoryInvariant, LoadsAreRecords, Fields
<1> QED BY <1>1, <1>4, OthersKeepRepository

-----------------------------------------------------------------------------
LEMMA InitRepository == Init => RepositoryInvariant
<1> SUFFICES ASSUME Init PROVE RepositoryInvariant
    OBVIOUS
<1>1. Histories /\ LoadsAreRecords
    BY EmptySeq DEF Init, Histories, LoadsAreRecords, Fields, Idle
<1>2. RevisionsAgree
    BY EmptySeq DEF Init, RevisionsAgree, Idle
<1> QED BY <1>1, <1>2 DEF RepositoryInvariant

\* The repository's answer is the row as it is now: current is the end of history.
LEMMA ReadKeepsRepository ==
    ASSUME RepositoryInvariant, NEW l \in Load, Read(l)
    PROVE  RepositoryInvariant'
<1> DEFINE c == load[l].config
<1>1. c \in ConfigId /\ UNCHANGED <<history, current>>
    <2>1. load[l].pc = "reading"
        BY DEF Read, Row
    <2>2. \A m \in Load : load[m].pc = "reading" => load[m].config \in ConfigId
        BY DEF RepositoryInvariant, Histories
    <2>3. UNCHANGED <<history, current>>
        BY DEF Read, Row
    <2> QED BY <2>1, <2>2, <2>3
<1>2. CASE Refuse(l)
    BY <1>1, <1>2, RefuseKeepsRepository DEF Read, Row
<1>3. CASE /\ current[c].revision # 0
           /\ load' = [load EXCEPT ![l].pc = "planning", ![l].revision = current[c].revision,
                                   ![l].spec = current[c].spec]
    <2>1. /\ DOMAIN load' = Load /\ \A m \in Load : m # l => load'[m] = load[m]
          /\ load'[l] = [load[l] EXCEPT !.pc = "planning", !.revision = current[c].revision,
                                        !.spec = current[c].spec]
        BY <1>3 DEF RepositoryInvariant, Histories
    <2>2. /\ load'[l].pc = "planning" /\ load'[l].config = c /\ DOMAIN load'[l] = Fields
          /\ load'[l].revision = current[c].revision /\ load'[l].spec = current[c].spec
        BY <2>1 DEF RepositoryInvariant, LoadsAreRecords, Fields
    <2>3. PICK S : history[c] \in Seq(S)
        BY <1>1 DEF RepositoryInvariant, Histories
    <2>4. /\ Len(history[c]) \in Nat /\ current[c].revision = Len(history[c])
          /\ history[c] # <<>>
          /\ current[c].spec = history[c][Len(history[c])]
        BY <1>1, <1>3, <2>3, LenProperties, EmptySeq
        DEF RepositoryInvariant, RevisionsAgree, Last
    <2>5. Histories' /\ LoadsAreRecords'
        BY <1>1, <2>1, <2>2, <2>4 DEF RepositoryInvariant, Histories, LoadsAreRecords
    <2>6. RevisionsAgree'
        <3>1. ASSUME NEW m \in Load, load'[m].revision > 0
              PROVE  /\ load'[m].revision <= Len(history[load'[m].config])
                     /\ load'[m].spec = history[load'[m].config][load'[m].revision]
            <4>1. CASE m = l
                BY <2>2, <2>4, <4>1
            <4>2. CASE m # l
                BY <2>1, <3>1, <4>2 DEF RepositoryInvariant, RevisionsAgree
            <4> QED BY <4>1, <4>2
        <3> QED BY <1>1, <3>1 DEF RepositoryInvariant, RevisionsAgree
    <2> QED BY <2>5, <2>6 DEF RepositoryInvariant
<1> QED BY <1>2, <1>3 DEF Read, Row

\* No other step of a load touches the tables or what was read.
LEMMA ProceedKeepsRepository ==
    ASSUME RepositoryInvariant, NEW l \in Load, Proceed(l)
    PROVE  RepositoryInvariant'
<1>1. CASE Read(l)
    BY <1>1, ReadKeepsRepository
<1>2. CASE PlanLoad(l)
    <2>1. UNCHANGED <<history, current>> /\ load[l].pc # "idle"
        BY <1>2 DEF PlanLoad
    <2>2. CASE Refuse(l)
        BY <2>1, <2>2, RefuseKeepsRepository
    <2>3. CASE ~Refuse(l)
        <3> DEFINE r == [load[l] EXCEPT !.pc = "inspecting",
                                        !.ops = Operations(load[l].spec),
                                        !.alone = \A k \in DOMAIN memory : k[1] # load[l].key]
        <3>1. load' = [load EXCEPT ![l] = r]
            BY <1>2, <2>3 DEF PlanLoad
        <3>2. /\ DOMAIN r = Fields /\ r.pc # "idle" /\ r.revision = load[l].revision
              /\ r.spec = load[l].spec /\ r.config = load[l].config
            BY DEF RepositoryInvariant, LoadsAreRecords, Fields
        <3> HIDE DEF r
        <3> QED BY <2>1, <3>1, <3>2, OneLoadKeepsRepository
    <2> QED BY <2>2, <2>3
<1>3. CASE Preflight(l)
    <2>1. UNCHANGED <<history, current>> /\ load[l].pc # "idle"
        BY <1>3 DEF Preflight
    <2>2. ASSUME NEW pc, pc # "idle", load' = [load EXCEPT ![l].pc = pc]
          PROVE  RepositoryInvariant'
        BY <2>1, <2>2, MovedKeepsRepository
    <2> QED BY <1>3, <2>1, <2>2, RefuseKeepsRepository DEF Preflight, InspectionFails
<1>4. CASE Remembered(l)
    <2>1. UNCHANGED <<history, current>> /\ load[l].pc # "idle"
        BY <1>4 DEF Remembered
    <2>2. CASE Refuse(l)
        BY <2>1, <2>2, RefuseKeepsRepository
    <2>3. CASE ~Refuse(l)
        <3> DEFINE r == [load[l] EXCEPT !.next = @ + 1, !.pc = "applying"]
        <3>1. load' = [load EXCEPT ![l] = r]
            BY <1>4, <2>3 DEF Remembered, Advanced
        <3>2. /\ DOMAIN r = Fields /\ r.pc # "idle" /\ r.revision = load[l].revision
              /\ r.spec = load[l].spec /\ r.config = load[l].config
            BY DEF RepositoryInvariant, LoadsAreRecords, Fields
        <3> HIDE DEF r
        <3> QED BY <2>1, <3>1, <3>2, OneLoadKeepsRepository
    <2> QED BY <2>2, <2>3
<1>5. CASE StartCommand(l)
    <2>1. UNCHANGED <<history, current>> /\ load[l].pc # "idle"
        BY <1>5 DEF StartCommand
    <2>2. CASE Refuse(l)
        BY <2>1, <2>2, RefuseKeepsRepository
    <2>3. CASE load' = [load EXCEPT ![l].pc = "mounting"]
        BY <2>1, <2>3, MovedKeepsRepository
    <2>4. CASE \E r : Executed(l, r)
        BY <2>1, <2>4, ExecutedKeepsRepository
    <2> QED BY <1>5, <2>2, <2>3, <2>4 DEF StartCommand
<1>6. CASE FinishMount(l)
    <2>1. UNCHANGED <<history, current>> /\ load[l].pc # "idle"
        BY <1>6 DEF FinishMount
    <2> QED BY <1>6, <2>1, RefuseKeepsRepository, ExecutedKeepsRepository DEF FinishMount
<1>7. CASE Answer(l)
    <2>1. UNCHANGED <<history, current>> /\ load[l].pc # "idle"
        BY <1>7 DEF Answer
    <2> QED BY <1>7, <2>1, MovedKeepsRepository DEF Answer
<1> QED BY <1>1, <1>2, <1>3, <1>4, <1>5, <1>6, <1>7 DEF Proceed

LEMMA EditKeepsRepository ==
    ASSUME RepositoryInvariant, NEW r, Edit(r)
    PROVE  RepositoryInvariant'
<1>1. /\ UNCHANGED <<history, current>> /\ DOMAIN load' = Load
      /\ \A l \in Load : load'[l] = [load[l] EXCEPT !.alone = FALSE]
    BY DEF Edit, Disturb
<1> QED BY <1>1, OthersKeepRepository DEF RepositoryInvariant, LoadsAreRecords, Fields

LEMMA BeginKeepsRepository ==
    ASSUME RepositoryInvariant, NEW l \in Load, NEW c \in ConfigId, NEW k, Begin(l, c, k)
    PROVE  RepositoryInvariant'
<1>1. /\ load[l].pc = "idle" /\ load[l].revision = 0 /\ UNCHANGED <<history, current>>
      /\ DOMAIN load' = Load /\ \A m \in Load : m # l => load'[m] = load[m]
      /\ load'[l] = [load[l] EXCEPT !.pc = "reading", !.config = c, !.key = k]
    BY DEF Begin, RepositoryInvariant, Histories
<1>2. /\ load'[l].pc = "reading" /\ load'[l].config = c /\ load'[l].revision = 0
      /\ DOMAIN load'[l] = Fields
    BY <1>1 DEF RepositoryInvariant, LoadsAreRecords, Fields
<1>3. Histories' /\ LoadsAreRecords'
    BY <1>1, <1>2 DEF RepositoryInvariant, Histories, LoadsAreRecords
<1>4. RevisionsAgree'
    <2>1. ASSUME NEW m \in Load, load'[m].revision > 0
          PROVE  m # l /\ load'[m] = load[m]
        <3>1. CASE m = l
            BY <1>2, <2>1, <3>1
        <3>2. CASE m # l
            BY <1>1, <3>2
        <3> QED BY <3>1, <3>2
    <2> QED BY <1>1, <2>1 DEF RepositoryInvariant, RevisionsAgree
<1> QED BY <1>3, <1>4 DEF RepositoryInvariant

LEMMA RepositoryHolds == Spec => []RepositoryInvariant
<1>1. RepositoryInvariant /\ [Next]_vars => RepositoryInvariant'
    <2> SUFFICES ASSUME RepositoryInvariant, [Next]_vars PROVE RepositoryInvariant'
        OBVIOUS
    <2>1. ASSUME NEW c \in ConfigId, NEW spec \in Spec0, Upsert(c, spec)
          PROVE  RepositoryInvariant'
        BY <2>1, StoreKeepsRepository DEF Upsert
    <2>2. ASSUME NEW c \in ConfigId, SaveFromRoomState(c)
          PROVE  RepositoryInvariant'
        BY <2>2, StoreKeepsRepository DEF SaveFromRoomState
    <2>3. CASE CreateRoom \/ UNCHANGED vars
        BY <2>3 DEF CreateRoom, vars, RepositoryInvariant, Histories, LoadsAreRecords,
                    RevisionsAgree
    <2>4. ASSUME NEW i \in Instance, MountDirectly(i) \/ Unmount(i)
          PROVE  RepositoryInvariant'
        BY <2>4, EditKeepsRepository DEF MountDirectly, Unmount
    <2>5. ASSUME NEW i \in Instance, NEW v \in BOOLEAN, SetVisible(i, v)
          PROVE  RepositoryInvariant'
        BY <2>5, EditKeepsRepository DEF SetVisible
    <2>6. ASSUME NEW i \in Instance \cup {NoInstance}, Select(i)
          PROVE  RepositoryInvariant'
        BY <2>6, EditKeepsRepository DEF Select
    <2>7. ASSUME NEW l \in Load, NEW c \in ConfigId, NEW k \in Key, Begin(l, c, k)
          PROVE  RepositoryInvariant'
        BY <2>7, BeginKeepsRepository
    <2>8. ASSUME NEW l \in Load, Proceed(l)
          PROVE  RepositoryInvariant'
        BY <2>8, ProceedKeepsRepository
    <2> QED BY <2>1, <2>2, <2>3, <2>4, <2>5, <2>6, <2>7, <2>8 DEF Next
<1> QED BY InitRepository, <1>1, PTL DEF Spec

\* What a load applies is the spec of the revision it reports, and the two tables
\* of the repository agree, however upserts, saves, loads and commands interleave.
THEOREM LoadsApplyTheirRevision == Spec => []RevisionsAgree
<1>1. RepositoryInvariant => RevisionsAgree
    BY DEF RepositoryInvariant
<1> QED BY RepositoryHolds, <1>1, PTL

-----------------------------------------------------------------------------
(* The operations that a load plans.                                        *)

\* The function that FlattenSeq reads its result from.
IsFlattened(ss, f) ==
    f = [i \in 1..Len(ss) |-> IF i = 1 THEN ss[i] ELSE f[i - 1] \o ss[i]]

LEMMA FlattenedExists ==
    ASSUME NEW ss, Len(ss) \in Nat \ {0}
    PROVE  \E f : IsFlattened(ss, f)
<1> DEFINE Rec(f, m) == f = [i \in 1..m |-> IF i = 1 THEN ss[i] ELSE f[i - 1] \o ss[i]]
           Done == {m \in Nat : \E f : Rec(f, m)}
<1>1. 0 \in Done
  <2>1. Rec([i \in 1..0 |-> ss], 0)
      OBVIOUS
  <2> QED BY <2>1
<1>2. ASSUME NEW m \in Nat, m \in Done PROVE m + 1 \in Done
  <2>1. PICK f : Rec(f, m)
      BY <1>2
  <2> DEFINE v == IF m = 0 THEN ss[m + 1] ELSE f[m] \o ss[m + 1]
             g == [i \in 1..m+1 |-> IF i = m + 1 THEN v ELSE f[i]]
             e(i) == IF i = 1 THEN ss[i] ELSE g[i - 1] \o ss[i]
  <2>2. (\A i \in 1..m : g[i] = f[i]) /\ g[m + 1] = v
    <3>1. m + 1 \in 1..m+1 /\ \A i \in 1..m : i \in 1..m+1 /\ i # m + 1
        OBVIOUS
    <3> HIDE DEF v
    <3> QED BY <3>1
  <2>3. \A i \in 1..m : f[i] = IF i = 1 THEN ss[i] ELSE f[i - 1] \o ss[i]
      BY <2>1
  <2>4. ASSUME NEW i \in 1..m+1 PROVE g[i] = e(i)
    <3>1. CASE i = m + 1
      <4>1. (m = 0 <=> i = 1) /\ i - 1 = m /\ (m # 0 => m \in 1..m)
          BY <3>1
      <4> HIDE DEF g
      <4> QED BY <3>1, <4>1, <2>2
    <3>2. CASE i # m + 1
      <4>1. i \in 1..m /\ (i # 1 => i - 1 \in 1..m)
          BY <3>2
      <4> HIDE DEF g
      <4> QED BY <4>1, <2>2, <2>3
    <3> QED BY <3>1, <3>2
  <2>5. Rec(g, m + 1)
    <3>1. g = [i \in 1..m+1 |-> g[i]]
        OBVIOUS
    <3> HIDE DEF g
    <3>2. g = [i \in 1..m+1 |-> e(i)]
        BY <3>1, <2>4
    <3> QED BY <3>2
  <2> HIDE DEF g, Rec
  <2> QED BY <2>5
<1>3. Nat \subseteq Done
  <2> HIDE DEF Done
  <2> QED BY <1>1, <1>2, NatInduces
<1>4. PICK f : Rec(f, Len(ss))
    BY <1>3
<1> QED BY <1>4 DEF IsFlattened

\* Flattening appends one sequence after the other.
Flattens(ss, f) ==
    \A i \in 1..Len(ss) : f[i] = IF i = 1 THEN ss[i] ELSE f[i - 1] \o ss[i]

LEMMA FlattenedBySteps ==
    ASSUME NEW ss, Len(ss) \in Nat \ {0}
    PROVE  \E f : Flattens(ss, f) /\ FlattenSeq(ss) = f[Len(ss)]
<1> DEFINE f == CHOOSE g : IsFlattened(ss, g)
<1>1. FlattenSeq(ss) = f[Len(ss)]
    BY DEF FlattenSeq, IsFlattened
<1>2. IsFlattened(ss, f)
    BY FlattenedExists
<1> HIDE DEF f
<1>3. Flattens(ss, f)
    BY <1>2 DEF IsFlattened, Flattens
<1> QED BY <1>1, <1>3

\* What has been flattened stays where it is.
Grows(S, ss, f) ==
    /\ \A i \in 1..Len(ss) : f[i] \in Seq(S)
    /\ \A i \in 1..Len(ss), d \in Nat : i + d <= Len(ss) =>
           /\ Len(f[i]) <= Len(f[i + d])
           /\ \A k \in 1..Len(f[i]) : f[i + d][k] = f[i][k]

LEMMA FlattenedPrefix ==
    ASSUME NEW S, NEW ss \in Seq(Seq(S)), NEW f, Flattens(ss, f)
    PROVE  Grows(S, ss, f)
<1>1. Len(ss) \in Nat /\ \A i \in 1..Len(ss) : ss[i] \in Seq(S)
    BY LenProperties, ElementOfSeq
<1>2. \A i \in 1..Len(ss) : f[i] \in Seq(S)
  <2> DEFINE Typed == {n \in Nat : n + 1 <= Len(ss) => f[n + 1] \in Seq(S)}
  <2>1. 0 \in Typed
      BY <1>1 DEF Flattens
  <2>2. ASSUME NEW n \in Nat, n \in Typed PROVE n + 1 \in Typed
    <3> SUFFICES ASSUME (n + 1) + 1 <= Len(ss) PROVE f[(n + 1) + 1] \in Seq(S)
        OBVIOUS
    <3>1. /\ (n + 1) + 1 \in 1..Len(ss) /\ (n + 1) + 1 # 1 /\ ((n + 1) + 1) - 1 = n + 1
          /\ n + 1 <= Len(ss)
        BY <1>1
    <3>2. f[n + 1] \in Seq(S)
        BY <2>2, <3>1
    <3>3. f[(n + 1) + 1] = f[n + 1] \o ss[(n + 1) + 1]
        BY <3>1 DEF Flattens
    <3> QED BY <1>1, <3>1, <3>2, <3>3, ConcatProperties
  <2>3. Nat \subseteq Typed
    <3> HIDE DEF Typed
    <3> QED BY <2>1, <2>2, NatInduces
  <2>4. ASSUME NEW i \in 1..Len(ss) PROVE f[i] \in Seq(S)
    <3>1. i - 1 \in Nat /\ (i - 1) + 1 = i /\ i <= Len(ss)
        BY <1>1
    <3>2. i - 1 \in Typed
        BY <2>3, <3>1
    <3> QED BY <3>1, <3>2
  <2> QED BY <2>4
<1>3. ASSUME NEW i \in 1..Len(ss), NEW d \in Nat, i + d <= Len(ss)
      PROVE  /\ Len(f[i]) <= Len(f[i + d])
             /\ \A k \in 1..Len(f[i]) : f[i + d][k] = f[i][k]
  <2> DEFINE Kept(n) == /\ Len(f[i]) <= Len(f[i + n])
                        /\ \A k \in 1..Len(f[i]) : f[i + n][k] = f[i][k]
             Stays == {n \in Nat : i + n <= Len(ss) => Kept(n)}
  <2>1. 0 \in Stays
    <3>1. i + 0 = i /\ Len(f[i]) \in Nat
        BY <1>2, LenProperties
    <3> QED BY <3>1
  <2>2. ASSUME NEW n \in Nat, n \in Stays PROVE n + 1 \in Stays
    <3> SUFFICES ASSUME i + (n + 1) <= Len(ss) PROVE Kept(n + 1)
        OBVIOUS
    <3>1. /\ i + (n + 1) \in 1..Len(ss) /\ i + (n + 1) # 1 /\ (i + (n + 1)) - 1 = i + n
          /\ i + n \in 1..Len(ss) /\ i + n <= Len(ss)
        BY <1>1
    <3>2. Kept(n)
        BY <2>2, <3>1
    <3>3. f[i + (n + 1)] = f[i + n] \o ss[i + (n + 1)]
        BY <3>1 DEF Flattens
    <3>4. /\ f[i + n] \in Seq(S) /\ ss[i + (n + 1)] \in Seq(S) /\ f[i] \in Seq(S)
        BY <1>1, <1>2, <3>1
    <3> HIDE DEF Kept
    <3>5. ASSUME NEW a \in Seq(S), NEW b \in Seq(S), NEW c \in Seq(S), Len(c) <= Len(a),
                 \A k \in 1..Len(c) : a[k] = c[k]
          PROVE  Len(c) <= Len(a \o b) /\ \A k \in 1..Len(c) : (a \o b)[k] = c[k]
      <4>1. Len(a) \in Nat /\ Len(b) \in Nat /\ Len(c) \in Nat
          BY <3>5, LenProperties
      <4>2. /\ Len(a \o b) = Len(a) + Len(b)
            /\ \A k \in 1..Len(a) + Len(b) :
                   (a \o b)[k] = IF k <= Len(a) THEN a[k] ELSE b[k - Len(a)]
          BY <3>5, ConcatProperties
      <4> QED BY <3>5, <4>1, <4>2
    <3>6. Len(f[i]) <= Len(f[i + n]) /\ \A k \in 1..Len(f[i]) : f[i + n][k] = f[i][k]
        BY <3>2 DEF Kept
    <3>7. /\ Len(f[i]) <= Len(f[i + n] \o ss[i + (n + 1)])
          /\ \A k \in 1..Len(f[i]) : (f[i + n] \o ss[i + (n + 1)])[k] = f[i][k]
        BY <3>4, <3>5, <3>6
    <3> QED BY <3>3, <3>7 DEF Kept
  <2>3. Nat \subseteq Stays
    <3> HIDE DEF Stays
    <3> QED BY <2>1, <2>2, NatInduces
  <2> QED BY <1>3, <2>3
<1> QED BY <1>2, <1>3 DEF Grows

\* A spec that has passed the validation.
Sound(spec) == spec \in ValidSpec /\ Valid(spec)

Operation == [type : {"mount", "hide"}, id : Instance]
             \cup [type : {"select"}, id : Instance \cup {NoInstance}]

\* Where the operations of a spec are: those of the k-th instance follow the
\* first at[k - 1], the selection comes last.
Laid(ops, spec, at) ==
    LET line == ApplyOrder(spec) IN
    /\ at \in [0..Len(line) -> Nat] /\ at[0] = 0
    /\ Len(ops) = at[Len(line)] + IF spec.selected = Unset THEN 0 ELSE 1
    /\ \A k \in 1..Len(line) :
           /\ ops[at[k - 1] + 1] = [type |-> "mount", id |-> line[k]]
           /\ at[k - 1] < at[Len(line)]
           /\ IF line[k] \in spec.hidden
              THEN /\ ops[at[k - 1] + 2] = [type |-> "hide", id |-> line[k]]
                   /\ at[k] = at[k - 1] + 2
              ELSE at[k] = at[k - 1] + 1
    /\ spec.selected # Unset => ops[Len(ops)] = [type |-> "select", id |-> spec.selected]

LEMMA SetOfSequence ==
    ASSUME NEW S, NEW s \in Seq(S)
    PROVE  ToSet(s) = Elements(s) /\ ToSet(s) = {s[k] : k \in 1..Len(s)}
BY LenProperties DEF ToSet, Elements

\* The order of a valid spec has the instances of the spec, each once.
LEMMA LineCovers ==
    ASSUME NEW spec, Sound(spec)
    PROVE  /\ ApplyOrder(spec) \in Seq(Instance) /\ Len(ApplyOrder(spec)) \in Nat \ {0}
           /\ ToSet(ApplyOrder(spec)) = ToSet(spec.instances)
           /\ \A j, k \in 1..Len(ApplyOrder(spec)) :
                  ApplyOrder(spec)[j] = ApplyOrder(spec)[k] => j = k
<1> DEFINE given == spec.instances
           line == ApplyOrder(spec)
<1>1. /\ given \in Seq(Instance) /\ line \in Seq(Instance) /\ given # <<>>
      /\ IsInjective(given) /\ IsInjective(line) /\ Len(line) = Len(given)
      /\ ToSet(line) \subseteq ToSet(given)
    BY DEF Sound, ValidSpec, Valid, OrderIsComplete, ApplyOrder
<1> HIDE DEF given, line
<1>2. /\ Len(given) \in Nat /\ Len(given) # 0 /\ DOMAIN given = 1..Len(given)
      /\ DOMAIN line = 1..Len(given)
    BY <1>1, LenProperties, EmptySeq
<1>3. \A j, k \in 1..Len(given) : line[j] = line[k] => j = k
    BY <1>1, <1>2 DEF IsInjective
<1>4. ASSUME NEW s \in Seq(Instance), DOMAIN s = 1..Len(given), IsInjective(s)
      PROVE  IsFiniteSet(ToSet(s)) /\ Cardinality(ToSet(s)) = Len(given)
  <2>1. s \in [1..Len(given) -> ToSet(s)]
      BY <1>4 DEF ToSet
  <2>2. s \in Injection(1..Len(given), ToSet(s)) /\ s \in Surjection(1..Len(given), ToSet(s))
      BY <1>4, <2>1 DEF ToSet, Injection, Surjection
  <2>3. ExistsBijection(1..Len(given), ToSet(s))
      BY <2>2 DEF ExistsBijection, Bijection
  <2> QED BY <1>2, <2>3, FS_NatBijection, FS_CountingElements
<1>5. ToSet(line) = ToSet(given)
    BY <1>1, <1>2, <1>4, FS_Subset
<1>6. Len(line) \in Nat \ {0} /\ \A j, k \in 1..Len(line) : line[j] = line[k] => j = k
    BY <1>1, <1>2, <1>3
<1> QED BY <1>1, <1>5, <1>6 DEF given, line

LEMMA StepsTyped ==
    ASSUME NEW spec, NEW i \in Instance
    PROVE  /\ Steps(spec, i) \in Seq(Operation)
           /\ Steps(spec, i)[1] = [type |-> "mount", id |-> i]
           /\ IF i \in spec.hidden
              THEN Len(Steps(spec, i)) = 2 /\ Steps(spec, i)[2] = [type |-> "hide", id |-> i]
              ELSE Len(Steps(spec, i)) = 1
<1> DEFINE mount == [type |-> "mount", id |-> i]
           hide == [type |-> "hide", id |-> i]
<1>1. mount \in Operation /\ hide \in Operation
    BY DEF Operation
<1>2. Steps(spec, i) = IF i \in spec.hidden THEN <<mount, hide>> ELSE <<mount>>
    BY DEF Steps
<1> HIDE DEF mount, hide
<1>3. /\ Steps(spec, i) \in Seq(Operation) /\ Steps(spec, i)[1] = mount
      /\ IF i \in spec.hidden THEN Len(Steps(spec, i)) = 2 /\ Steps(spec, i)[2] = hide
                              ELSE Len(Steps(spec, i)) = 1
    BY <1>1, <1>2
<1> QED BY <1>3 DEF mount, hide

\* What planLoad() lists, and where.
LEMMA OperationsLaid ==
    ASSUME NEW spec, Sound(spec)
    PROVE  /\ Operations(spec) \in Seq(Operation)
           /\ \E at : Laid(Operations(spec), spec, at)
<1> DEFINE line == ApplyOrder(spec)
           n == Len(line)
           ss == [k \in 1..n |-> Steps(spec, line[k])]
           last == IF spec.selected = Unset THEN <<>>
                   ELSE <<[type |-> "select", id |-> spec.selected]>>
<1>1. /\ line \in Seq(Instance) /\ n \in Nat \ {0} /\ \A k \in 1..n : line[k] \in Instance
    BY LineCovers, ElementOfSeq
<1>2. Operations(spec) = FlattenSeq(ss) \o last
    BY DEF Operations
<1>3. last \in Seq(Operation) /\ Len(last) = (IF spec.selected = Unset THEN 0 ELSE 1)
      /\ (spec.selected # Unset => last[1] = [type |-> "select", id |-> spec.selected])
  <2> DEFINE select == [type |-> "select", id |-> spec.selected]
  <2>1. spec.selected # Unset => select \in Operation
      BY DEF Sound, ValidSpec, Operation
  <2>2. last = IF spec.selected = Unset THEN <<>> ELSE <<select>>
      OBVIOUS
  <2> HIDE DEF select, last
  <2>3. last \in Seq(Operation) /\ Len(last) = (IF spec.selected = Unset THEN 0 ELSE 1)
        /\ (spec.selected # Unset => last[1] = select)
      BY <2>1, <2>2
  <2> QED BY <2>3 DEF select
<1> HIDE DEF line, n, last
<1>4. /\ \A k \in 1..n : ss[k] = Steps(spec, line[k]) /\ ss[k] \in Seq(Operation)
      /\ ss \in Seq(Seq(Operation)) /\ Len(ss) = n
  <2>1. \A k \in 1..n : Steps(spec, line[k]) \in Seq(Operation)
      BY <1>1, StepsTyped
  <2> QED BY <1>1, <2>1
<1> HIDE DEF ss
<1>5. PICK f : Flattens(ss, f) /\ FlattenSeq(ss) = f[n]
    BY <1>1, <1>4, FlattenedBySteps
<1>6. /\ \A k \in 1..n : f[k] \in Seq(Operation)
      /\ \A j \in 1..n, d \in Nat : j + d <= n =>
             Len(f[j]) <= Len(f[j + d]) /\ \A k \in 1..Len(f[j]) : f[j + d][k] = f[j][k]
  <2>1. ss \in Seq(Seq(Operation)) /\ Flattens(ss, f)
      BY <1>4, <1>5
  <2>2. Grows(Operation, ss, f)
      BY <2>1, FlattenedPrefix
  <2> QED BY <1>4, <2>2 DEF Grows
<1> DEFINE ops == f[n] \o last
           at == [k \in 0..n |-> IF k = 0 THEN 0 ELSE Len(f[k])]
<1>7. /\ f[n] \in Seq(Operation) /\ Len(f[n]) \in Nat
      /\ ops \in Seq(Operation) /\ Len(ops) = Len(f[n]) + Len(last)
      /\ \A k \in 1..Len(f[n]) : ops[k] = f[n][k]
      /\ spec.selected # Unset => ops[Len(ops)] = last[1]
  <2>1. f[n] \in Seq(Operation) /\ Len(f[n]) \in Nat /\ Len(last) \in Nat
      BY <1>1, <1>3, <1>6, LenProperties
  <2>2. /\ ops \in Seq(Operation) /\ Len(ops) = Len(f[n]) + Len(last)
        /\ \A k \in 1..Len(f[n]) + Len(last) :
               ops[k] = IF k <= Len(f[n]) THEN f[n][k] ELSE last[k - Len(f[n])]
      BY <1>3, <2>1, ConcatProperties
  <2> HIDE DEF ops
  <2>3. ASSUME spec.selected # Unset PROVE ops[Len(ops)] = last[1]
    <3>1. Len(ops) \in 1..Len(f[n]) + Len(last) /\ ~(Len(ops) <= Len(f[n]))
          /\ Len(ops) - Len(f[n]) = 1
        BY <1>3, <2>1, <2>2, <2>3
    <3> QED BY <2>2, <3>1
  <2> QED BY <2>1, <2>2, <2>3
<1>8. /\ at \in [0..n -> Nat] /\ at[0] = 0 /\ at[n] = Len(f[n])
      /\ \A k \in 1..n : at[k] = Len(f[k])
    BY <1>1, <1>6, LenProperties
<1> HIDE DEF at
\* The k-th instance's operations end the first at[k], and stay where they are.
<1>9. ASSUME NEW k \in 1..n
      PROVE  /\ at[k] = at[k - 1] + Len(ss[k]) /\ at[k] <= at[n]
             /\ \A j \in 1..Len(ss[k]) : f[n][at[k - 1] + j] = ss[k][j]
  <2>1. Len(ss[k]) \in Nat /\ Len(f[k]) \in Nat
      BY <1>4, <1>6, LenProperties
  <2>2. Len(f[k]) <= Len(f[n]) /\ \A j \in 1..Len(f[k]) : f[n][j] = f[k][j]
    <3>1. n - k \in Nat /\ k + (n - k) <= n /\ k + (n - k) = n
        BY <1>1
    <3> QED BY <1>6, <3>1
  <2>3. CASE k = 1
    <3>1. f[k] = ss[k] /\ at[k - 1] = 0
        BY <1>4, <1>5, <1>8, <2>3 DEF Flattens
    <3>2. at[k] = Len(ss[k]) /\ at[n] = Len(f[n])
        BY <1>8, <3>1
    <3> QED BY <2>1, <2>2, <3>1, <3>2
  <2>4. CASE k # 1
    <3>1. /\ k - 1 \in 1..n /\ f[k] = f[k - 1] \o ss[k] /\ at[k - 1] = Len(f[k - 1])
          /\ f[k - 1] \in Seq(Operation) /\ Len(f[k - 1]) \in Nat
      <4>1. k - 1 \in 1..n /\ k - 1 # 0
          BY <1>1, <2>4
      <4>2. f[k] = f[k - 1] \o ss[k]
          BY <1>4, <1>5, <2>4 DEF Flattens
      <4>3. f[k - 1] \in Seq(Operation) /\ at[k - 1] = Len(f[k - 1])
          BY <1>6, <1>8, <4>1
      <4> QED BY <4>1, <4>2, <4>3, LenProperties
    <3>2. /\ Len(f[k]) = Len(f[k - 1]) + Len(ss[k])
          /\ \A j \in 1..Len(f[k - 1]) + Len(ss[k]) :
                 f[k][j] = IF j <= Len(f[k - 1]) THEN f[k - 1][j] ELSE ss[k][j - Len(f[k - 1])]
        BY <1>4, <3>1, ConcatProperties
    <3>3. \A j \in 1..Len(ss[k]) :
              /\ Len(f[k - 1]) + j \in 1..Len(f[k]) /\ ~(Len(f[k - 1]) + j <= Len(f[k - 1]))
              /\ (Len(f[k - 1]) + j) - Len(f[k - 1]) = j
      <4>1. \A a, b, j \in Nat : j \in 1..b =>
                a + j \in 1..a + b /\ ~(a + j <= a) /\ (a + j) - a = j
          OBVIOUS
      <4>2. /\ Len(f[k - 1]) \in Nat /\ Len(ss[k]) \in Nat
            /\ Len(f[k]) = Len(f[k - 1]) + Len(ss[k])
            /\ \A j \in 1..Len(ss[k]) : j \in Nat
          BY <2>1, <3>1, <3>2
      <4> QED BY <4>1, <4>2
    <3>4. \A j \in 1..Len(ss[k]) : f[k][Len(f[k - 1]) + j] = ss[k][j]
        BY <3>2, <3>3
    <3> QED BY <1>8, <2>2, <3>1, <3>2, <3>3, <3>4
  <2> QED BY <2>3, <2>4
<1>10. ASSUME NEW k \in 1..n
       PROVE  /\ ops[at[k - 1] + 1] = [type |-> "mount", id |-> line[k]]
              /\ at[k - 1] < at[n]
              /\ IF line[k] \in spec.hidden
                 THEN /\ ops[at[k - 1] + 2] = [type |-> "hide", id |-> line[k]]
                      /\ at[k] = at[k - 1] + 2
                 ELSE at[k] = at[k - 1] + 1
  <2>1. /\ ss[k][1] = [type |-> "mount", id |-> line[k]]
        /\ IF line[k] \in spec.hidden
           THEN Len(ss[k]) = 2 /\ ss[k][2] = [type |-> "hide", id |-> line[k]]
           ELSE Len(ss[k]) = 1
      BY <1>1, <1>4, StepsTyped
  <2>2. at[k] \in Nat /\ at[k - 1] \in Nat /\ at[n] \in Nat
      BY <1>1, <1>8
  <2>3. /\ at[k] = at[k - 1] + Len(ss[k]) /\ at[k] <= at[n] /\ at[n] = Len(f[n])
        /\ \A j \in 1..Len(ss[k]) : f[n][at[k - 1] + j] = ss[k][j]
      BY <1>8, <1>9
  <2>4. \A j \in 1..Len(ss[k]) : at[k - 1] + j \in 1..Len(f[n])
      BY <2>1, <2>2, <2>3
  <2>5. \A j \in 1..Len(ss[k]) : ops[at[k - 1] + j] = ss[k][j]
      BY <1>7, <2>3, <2>4
  <2> HIDE DEF ops
  <2>6. CASE line[k] \in spec.hidden
    <3>1. 1 \in 1..Len(ss[k]) /\ 2 \in 1..Len(ss[k]) /\ at[k] = at[k - 1] + 2
        BY <2>1, <2>3, <2>6
    <3>2. at[k - 1] < at[n]
        BY <2>2, <2>3, <3>1
    <3> QED BY <2>1, <2>5, <2>6, <3>1, <3>2
  <2>7. CASE line[k] \notin spec.hidden
    <3>1. 1 \in 1..Len(ss[k]) /\ at[k] = at[k - 1] + 1
        BY <2>1, <2>3, <2>7
    <3>2. at[k - 1] < at[n]
        BY <2>2, <2>3, <3>1
    <3> QED BY <2>1, <2>5, <2>7, <3>1, <3>2
  <2> QED BY <2>6, <2>7
<1>11. Laid(ops, spec, at)
  <2>1. Len(ops) = at[n] + IF spec.selected = Unset THEN 0 ELSE 1
      BY <1>3, <1>7, <1>8
  <2>2. spec.selected # Unset => ops[Len(ops)] = [type |-> "select", id |-> spec.selected]
      BY <1>3, <1>7
  <2> HIDE DEF ops
  <2> QED BY <1>8, <1>10, <2>1, <2>2 DEF Laid, n, line
<1>12. Operations(spec) = ops
    BY <1>2, <1>5
<1> QED BY <1>7, <1>11, <1>12

-----------------------------------------------------------------------------
(* Rooms.                                                                   *)

\* Three fields, an order of what is mounted and a selection in it.
Shaped(r) ==
    /\ \E v, o, s : r = [visible |-> v, order |-> o, selected |-> s]
    /\ DOMAIN r.visible \subseteq Instance /\ r.visible \in [DOMAIN r.visible -> BOOLEAN]
    /\ r.order \in Seq(Instance) /\ ToSet(r.order) = DOMAIN r.visible
    /\ r.selected \in DOMAIN r.visible \cup {NoInstance}

LEMMA EmptyIsShaped == Shaped(EmptyRoom) /\ DOMAIN EmptyRoom.visible = {}
<1>1. <<>> \in Seq(Instance) /\ ToSet(<<>>) = {} /\ DOMAIN <<>> = {}
    BY EmptySeq DEF ToSet
<1>2. <<>> \in [DOMAIN <<>> -> BOOLEAN]
  <2>1. <<>> \in Seq(BOOLEAN) /\ Len(<<>>) = 0
      BY EmptySeq
  <2>2. <<>> \in [1..0 -> BOOLEAN]
      BY <2>1, LenProperties
  <2> QED BY <2>2
<1>3. /\ EmptyRoom.visible = <<>> /\ EmptyRoom.order = <<>>
      /\ EmptyRoom.selected = NoInstance
      /\ EmptyRoom = [visible |-> <<>>, order |-> <<>>, selected |-> NoInstance]
    BY DEF EmptyRoom
<1> HIDE DEF EmptyRoom
<1> QED BY <1>1, <1>2, <1>3 DEF Shaped

LEMMA MountedIsShaped ==
    ASSUME NEW r, Shaped(r), NEW i \in Instance
    PROVE  Shaped(WithMount(r, i))
<1>1. /\ Append(r.order, i) \in Seq(Instance)
      /\ ToSet(Append(r.order, i)) = DOMAIN r.visible \cup {i}
  <2>1. r.order \in Seq(Instance) /\ Append(r.order, i) \in Seq(Instance)
      BY AppendProperties DEF Shaped
  <2>2. Elements(Append(r.order, i)) = Elements(r.order) \cup {i}
      BY <2>1, ElementsAppend
  <2> QED BY <2>1, <2>2, SetOfSequence DEF Shaped
<1> QED BY <1>1 DEF Shaped, WithMount

LEMMA UnmountedIsShaped ==
    ASSUME NEW r, Shaped(r), NEW i \in Instance
    PROVE  Shaped(WithoutMount(r, i))
<1>1. /\ Without(r.order, {i}) \in Seq(Instance)
      /\ ToSet(Without(r.order, {i})) = DOMAIN r.visible \ {i}
  <2>1. r.order \in Seq(Instance)
      BY DEF Shaped
  <2>2. /\ Without(r.order, {i}) \in Seq(Instance)
        /\ Elements(Without(r.order, {i})) = Elements(r.order) \ {i}
      BY <2>1, WithoutElements
  <2> QED BY <2>1, <2>2, SetOfSequence DEF Shaped
<1> QED BY <1>1 DEF Shaped, WithoutMount

LEMMA ShownIsShaped ==
    ASSUME NEW r, Shaped(r), NEW i \in DOMAIN r.visible, NEW v \in BOOLEAN
    PROVE  Shaped([r EXCEPT !.visible[i] = v])
<1>1. [r EXCEPT !.visible[i] = v] = [visible |-> [r.visible EXCEPT ![i] = v],
                                     order |-> r.order, selected |-> r.selected]
    BY DEF Shaped
<1>2. /\ [r.visible EXCEPT ![i] = v] \in [DOMAIN r.visible -> BOOLEAN]
      /\ DOMAIN [r.visible EXCEPT ![i] = v] = DOMAIN r.visible
    BY DEF Shaped
<1> QED BY <1>1, <1>2 DEF Shaped

LEMMA SelectedIsShaped ==
    ASSUME NEW r, Shaped(r), NEW i \in DOMAIN r.visible \cup {NoInstance}
    PROVE  Shaped([r EXCEPT !.selected = i])
<1>1. [r EXCEPT !.selected = i] = [visible |-> r.visible, order |-> r.order, selected |-> i]
    BY DEF Shaped
<1> QED BY <1>1 DEF Shaped

\* What is saved of a room is valid, unless it shows an instance twice.
LEMMA SavedDescribes ==
    ASSUME NEW r, Shaped(r)
    PROVE  /\ Saved(r) \in ValidSpec
           /\ DOMAIN r.visible # {} /\ IsInjective(r.order) =>
                  Valid(Saved(r)) /\ Described(Saved(r)) = r
<1> DEFINE hidden == {i \in DOMAIN r.visible : ~r.visible[i]}
<1>1. /\ Saved(r) = [instances |-> r.order, order |-> r.order, hidden |-> hidden,
                     selected |-> r.selected]
      /\ r = [visible |-> r.visible, order |-> r.order, selected |-> r.selected]
      /\ r.order \in Seq(Instance) /\ r.order # Unset
      /\ r.selected \in Instance \cup {NoInstance} /\ r.selected # Unset
      /\ hidden \subseteq Instance
    BY ConfigAssumption DEF Saved, SavedSelection, Shaped
<1>2. Saved(r) \in ValidSpec
    BY <1>1 DEF ValidSpec
<1>3. ASSUME DOMAIN r.visible # {}, IsInjective(r.order)
      PROVE  Valid(Saved(r)) /\ Described(Saved(r)) = r
  <2>1. r.order # <<>>
      BY <1>1, <1>3, EmptySeq DEF Shaped, ToSet
  <2>2. Valid(Saved(r))
      BY <1>1, <1>3, <2>1 DEF Valid, OrderIsComplete, Shaped
  <2>3. [i \in ToSet(r.order) |-> i \notin hidden] = r.visible
      BY DEF Shaped
  <2>4. Described(Saved(r)) = [visible |-> [i \in ToSet(r.order) |-> i \notin hidden],
                               order |-> r.order, selected |-> r.selected]
      BY <1>1 DEF Described
  <2> QED BY <1>1, <2>2, <2>3, <2>4
<1> QED BY <1>2, <1>3

-----------------------------------------------------------------------------
(* How far a load has come in a room that nobody else has touched.          *)

Line(ld) == ApplyOrder(ld.spec)

AsDescribed(ld, r, n) ==
    \A k \in 1..n : r.visible[Line(ld)[k]] = (Line(ld)[k] \notin ld.spec.hidden)

BegunWith(ld, r, m) ==
    /\ m \in 0..Len(Line(ld)) /\ Len(r.order) = m
    /\ \A k \in 1..m : r.order[k] = Line(ld)[k]

\* m instances are as the spec has them...
Between(ld, r, at, m) ==
    /\ ld.next = at[m] + 1 /\ AsDescribed(ld, r, m)
    /\ r.selected = IF m = 0 THEN NoInstance ELSE Line(ld)[m]

\* ... or the last one has yet to be hidden...
BeforeHide(ld, r, at, m) ==
    /\ m # 0 /\ Line(ld)[m] \in ld.spec.hidden /\ ld.next = at[m]
    /\ AsDescribed(ld, r, m - 1) /\ r.visible[Line(ld)[m]] = TRUE
    /\ r.selected = Line(ld)[m]

\* ... or the selection has been made, and the load is through.
AfterSelect(ld, r, at, m) ==
    /\ m = Len(Line(ld)) /\ ld.spec.selected # Unset /\ ld.next = at[m] + 2
    /\ AsDescribed(ld, r, m) /\ r.selected = ld.spec.selected

Reached(ld, r, at, m) ==
    /\ BegunWith(ld, r, m)
    /\ Between(ld, r, at, m) \/ BeforeHide(ld, r, at, m) \/ AfterSelect(ld, r, at, m)

\* The next operation of a load tells how far it is.
LEMMA NextOperation ==
    ASSUME NEW ld, Sound(ld.spec), NEW at, Laid(ld.ops, ld.spec, at),
           NEW r, NEW m, Reached(ld, r, at, m)
    PROVE  IF ld.next <= Len(ld.ops)
           THEN \/ /\ Between(ld, r, at, m) /\ m + 1 \in 1..Len(Line(ld))
                   /\ ld.ops[ld.next] = [type |-> "mount", id |-> Line(ld)[m + 1]]
                \/ /\ BeforeHide(ld, r, at, m)
                   /\ ld.ops[ld.next] = [type |-> "hide", id |-> Line(ld)[m]]
                \/ /\ Between(ld, r, at, m) /\ m = Len(Line(ld)) /\ ld.spec.selected # Unset
                   /\ ld.ops[ld.next] = [type |-> "select", id |-> ld.spec.selected]
           ELSE /\ m = Len(Line(ld)) /\ AsDescribed(ld, r, m)
                /\ r.selected = IF ld.spec.selected = Unset THEN Line(ld)[m]
                                                            ELSE ld.spec.selected
<1> DEFINE n == Len(Line(ld))
           selects == IF ld.spec.selected = Unset THEN 0 ELSE 1
<1>1. /\ n \in Nat \ {0} /\ m \in 0..n
      /\ at \in [0..n -> Nat] /\ Len(ld.ops) = at[n] + selects
      /\ ld.spec.selected # Unset =>
             ld.ops[Len(ld.ops)] = [type |-> "select", id |-> ld.spec.selected]
    BY LineCovers DEF Laid, Reached, BegunWith, Line
<1>2. \A k \in 1..n :
          /\ ld.ops[at[k - 1] + 1] = [type |-> "mount", id |-> Line(ld)[k]]
          /\ at[k - 1] < at[n]
          /\ IF Line(ld)[k] \in ld.spec.hidden
             THEN /\ ld.ops[at[k - 1] + 2] = [type |-> "hide", id |-> Line(ld)[k]]
                  /\ at[k] = at[k - 1] + 2
             ELSE at[k] = at[k - 1] + 1
    BY DEF Laid, Line
<1> HIDE DEF n
<1>3. CASE Between(ld, r, at, m) /\ m # n
  <2>1. m + 1 \in 1..n /\ (m + 1) - 1 = m
      BY <1>1, <1>3
  <2>2. ld.next = at[m] + 1 /\ at[m] \in Nat /\ at[n] \in Nat
      BY <1>1, <1>3 DEF Between
  <2>3. ld.ops[ld.next] = [type |-> "mount", id |-> Line(ld)[m + 1]] /\ at[m] < at[n]
      BY <1>2, <2>1, <2>2
  <2>4. ld.next <= Len(ld.ops)
      BY <1>1, <2>2, <2>3
  <2> QED BY <1>3, <2>1, <2>3, <2>4 DEF n
<1>4. CASE Between(ld, r, at, m) /\ m = n
  <2>1. ld.next = at[n] + 1 /\ at[n] \in Nat
      BY <1>1, <1>4 DEF Between
  <2>2. CASE ld.spec.selected = Unset
    <3>1. ~(ld.next <= Len(ld.ops))
        BY <1>1, <2>1, <2>2
    <3> QED BY <1>1, <1>4, <2>2, <3>1 DEF Between, n
  <2>3. CASE ld.spec.selected # Unset
    <3>1. ld.next = Len(ld.ops) /\ ld.next <= Len(ld.ops)
        BY <1>1, <2>1, <2>3
    <3> QED BY <1>1, <1>4, <2>3, <3>1 DEF n
  <2> QED BY <2>2, <2>3
<1>5. CASE BeforeHide(ld, r, at, m)
  <2>1. m \in 1..n /\ m - 1 \in 0..n /\ ld.next = at[m] /\ Line(ld)[m] \in ld.spec.hidden
      BY <1>1, <1>5 DEF BeforeHide
  <2>2. /\ ld.ops[at[m - 1] + 2] = [type |-> "hide", id |-> Line(ld)[m]]
        /\ at[m] = at[m - 1] + 2
      BY <1>2, <2>1
  <2>3. at[m] <= at[n]
    <3>1. CASE m = n
        BY <1>1, <3>1
    <3>2. CASE m # n
      <4>1. m + 1 \in 1..n /\ (m + 1) - 1 = m
          BY <1>1, <2>1, <3>2
      <4>2. at[(m + 1) - 1] < at[n]
          BY <1>2, <4>1
      <4>3. at[m] < at[n]
          BY <4>1, <4>2
      <4>4. m \in 0..n /\ n \in 0..n
          BY <1>1
      <4>5. at[m] \in Nat /\ at[n] \in Nat
          BY <1>1, <4>4
      <4> HIDE DEF n
      <4> QED BY <4>3, <4>5
    <3> QED BY <3>1, <3>2
  <2>4. ld.next <= Len(ld.ops)
      BY <1>1, <2>1, <2>3
  <2> QED BY <1>5, <2>1, <2>2, <2>4
<1>6. CASE AfterSelect(ld, r, at, m)
  <2>1. ~(ld.next <= Len(ld.ops))
      BY <1>1, <1>6 DEF AfterSelect, n
  <2> QED BY <1>6, <2>1 DEF AfterSelect
<1> QED BY <1>3, <1>4, <1>5, <1>6 DEF Reached

LEMMA NextOfType ==
    ASSUME NEW ld, Sound(ld.spec), NEW at, Laid(ld.ops, ld.spec, at),
           NEW r, NEW m, Reached(ld, r, at, m), ld.next <= Len(ld.ops)
    PROVE  /\ ld.ops[ld.next].type = "mount" =>
                  /\ Between(ld, r, at, m) /\ m + 1 \in 1..Len(Line(ld))
                  /\ ld.ops[ld.next].id = Line(ld)[m + 1]
           /\ ld.ops[ld.next].type = "hide" =>
                  BeforeHide(ld, r, at, m) /\ ld.ops[ld.next].id = Line(ld)[m]
           /\ ld.ops[ld.next].type = "select" =>
                  /\ Between(ld, r, at, m) /\ m = Len(Line(ld)) /\ ld.spec.selected # Unset
                  /\ ld.ops[ld.next].id = ld.spec.selected
<1> DEFINE op == ld.ops[ld.next]
<1>1. \/ /\ Between(ld, r, at, m) /\ m + 1 \in 1..Len(Line(ld))
         /\ op = [type |-> "mount", id |-> Line(ld)[m + 1]]
      \/ BeforeHide(ld, r, at, m) /\ op = [type |-> "hide", id |-> Line(ld)[m]]
      \/ /\ Between(ld, r, at, m) /\ m = Len(Line(ld)) /\ ld.spec.selected # Unset
         /\ op = [type |-> "select", id |-> ld.spec.selected]
    BY NextOperation
<1> HIDE DEF op
<1>2. /\ op.type = "mount" => /\ Between(ld, r, at, m) /\ m + 1 \in 1..Len(Line(ld))
                              /\ op.id = Line(ld)[m + 1]
      /\ op.type = "hide" => BeforeHide(ld, r, at, m) /\ op.id = Line(ld)[m]
      /\ op.type = "select" => /\ Between(ld, r, at, m) /\ m = Len(Line(ld))
                               /\ ld.spec.selected # Unset /\ op.id = ld.spec.selected
    BY <1>1
<1> QED BY <1>2 DEF op

Advance(ld) == [ld EXCEPT !.next = @ + 1, !.pc = "applying"]

\* A mount brings one more instance, which is visible and selected.
LEMMA MountReaches ==
    ASSUME NEW ld, DOMAIN ld = Fields, Sound(ld.spec), NEW at, Laid(ld.ops, ld.spec, at),
           NEW r, Shaped(r), NEW m, Reached(ld, r, at, m),
           Between(ld, r, at, m), m + 1 \in 1..Len(Line(ld))
    PROVE  Reached(Advance(ld), WithMount(r, Line(ld)[m + 1]), at, m + 1)
<1> DEFINE i == Line(ld)[m + 1]
           to == Advance(ld)
           grown == WithMount(r, i)
<1>1. /\ to.next = ld.next + 1 /\ to.spec = ld.spec /\ Line(to) = Line(ld)
    BY DEF Advance, Fields, Line
<1>2. /\ Line(ld) \in Seq(Instance) /\ m \in Nat /\ Len(Line(ld)) \in Nat
      /\ \A j, k \in 1..Len(Line(ld)) : Line(ld)[j] = Line(ld)[k] => j = k
      /\ Len(r.order) = m /\ \A k \in 1..m : r.order[k] = Line(ld)[k]
      /\ r.order \in Seq(Instance) /\ i \in Instance
    BY LineCovers, ElementOfSeq DEF Line, Reached, BegunWith, Shaped
<1>3. DOMAIN r.visible = {Line(ld)[k] : k \in 1..m}
  <2>1. ToSet(r.order) = {r.order[k] : k \in 1..m}
      BY <1>2, SetOfSequence
  <2>2. {r.order[k] : k \in 1..m} = {Line(ld)[k] : k \in 1..m}
      BY <1>2
  <2>3. DOMAIN r.visible = ToSet(r.order)
      BY DEF Shaped
  <2> QED BY <2>1, <2>2, <2>3
<1>4. \A k \in 1..m : k \in 1..Len(Line(ld)) /\ k # m + 1 /\ Line(ld)[k] # i
    BY <1>2
<1>5. /\ grown.order = Append(r.order, i) /\ grown.selected = i
      /\ grown.visible[i] = TRUE
      /\ \A j \in DOMAIN r.visible : j # i => grown.visible[j] = r.visible[j]
    BY DEF WithMount
<1> HIDE DEF to, grown, i
<1>6. BegunWith(to, grown, m + 1)
  <2>1. /\ Len(grown.order) = m + 1 /\ grown.order[m + 1] = i
        /\ \A k \in 1..m : grown.order[k] = r.order[k]
      BY <1>2, <1>5, AppendProperties
  <2>2. ASSUME NEW k \in 1..m+1 PROVE grown.order[k] = Line(ld)[k]
    <3>1. CASE k = m + 1
        BY <2>1, <3>1 DEF i
    <3>2. CASE k \in 1..m
        BY <1>2, <2>1, <3>2
    <3> QED BY <1>2, <3>1, <3>2
  <2> QED BY <1>1, <1>2, <2>1, <2>2 DEF BegunWith
<1>7. \A k \in 1..m : grown.visible[Line(ld)[k]] = r.visible[Line(ld)[k]]
    BY <1>3, <1>4, <1>5
<1>8. AsDescribed(to, grown, m)
    BY <1>1, <1>7 DEF Between, AsDescribed
<1>9. /\ at[m] \in Nat /\ ld.next = at[m] + 1
      /\ IF i \in ld.spec.hidden THEN at[m + 1] = at[m] + 2 ELSE at[m + 1] = at[m] + 1
  <2>1. m + 1 \in 1..Len(Line(ld)) /\ (m + 1) - 1 = m /\ m \in 0..Len(Line(ld))
      BY <1>2
  <2> QED BY <2>1 DEF Laid, Between, Line, i
<1>10. CASE i \in ld.spec.hidden
  <2>1. to.next = at[m + 1] /\ (m + 1) - 1 = m /\ m + 1 # 0
      BY <1>1, <1>2, <1>9, <1>10
  <2>2. BeforeHide(to, grown, at, m + 1)
      BY <1>1, <1>5, <1>8, <1>10, <2>1 DEF BeforeHide, i
  <2> QED BY <1>6, <2>2 DEF Reached, to, grown, i
<1>11. CASE i \notin ld.spec.hidden
  <2>1. to.next = at[m + 1] + 1 /\ m + 1 # 0
      BY <1>1, <1>2, <1>9, <1>11
  <2>2. AsDescribed(to, grown, m + 1)
    <3>1. \A k \in 1..m+1 : k = m + 1 \/ k \in 1..m
        BY <1>2
    <3>2. grown.visible[Line(ld)[m + 1]] = (Line(ld)[m + 1] \notin ld.spec.hidden)
        BY <1>5, <1>11 DEF i
    <3> QED BY <1>1, <1>8, <3>1, <3>2 DEF AsDescribed
  <2>3. Between(to, grown, at, m + 1)
      BY <1>1, <1>5, <2>1, <2>2 DEF Between, i
  <2> QED BY <1>6, <2>3 DEF Reached, to, grown, i
<1> QED BY <1>10, <1>11

LEMMA HideReaches ==
    ASSUME NEW ld, DOMAIN ld = Fields, Sound(ld.spec), NEW at, Laid(ld.ops, ld.spec, at),
           NEW r, Shaped(r), NEW m, Reached(ld, r, at, m), BeforeHide(ld, r, at, m)
    PROVE  /\ Line(ld)[m] \in DOMAIN r.visible
           /\ Reached(Advance(ld), [r EXCEPT !.visible[Line(ld)[m]] = FALSE], at, m)
<1> DEFINE i == Line(ld)[m]
           to == Advance(ld)
           hid == [r EXCEPT !.visible[i] = FALSE]
<1>1. to.next = ld.next + 1 /\ to.spec = ld.spec /\ Line(to) = Line(ld)
    BY DEF Advance, Fields, Line
<1>2. /\ Line(ld) \in Seq(Instance) /\ Len(Line(ld)) \in Nat
      /\ m \in 1..Len(Line(ld)) /\ m \in 1..m
      /\ \A j, k \in 1..Len(Line(ld)) : Line(ld)[j] = Line(ld)[k] => j = k
      /\ Len(r.order) = m /\ \A k \in 1..m : r.order[k] = Line(ld)[k]
      /\ r.order \in Seq(Instance)
    BY LineCovers DEF Line, Reached, BegunWith, Shaped, BeforeHide
<1>3. DOMAIN r.visible = {Line(ld)[k] : k \in 1..m}
  <2>1. ToSet(r.order) = {r.order[k] : k \in 1..m}
      BY <1>2, SetOfSequence
  <2>2. {r.order[k] : k \in 1..m} = {Line(ld)[k] : k \in 1..m}
      BY <1>2
  <2>3. DOMAIN r.visible = ToSet(r.order)
      BY DEF Shaped
  <2> QED BY <2>1, <2>2, <2>3
<1>4. i \in DOMAIN r.visible
    BY <1>2, <1>3
<1>5. /\ hid.order = r.order /\ hid.selected = r.selected
      /\ hid.visible[i] = FALSE
      /\ \A j \in DOMAIN r.visible : j # i => hid.visible[j] = r.visible[j]
    BY <1>4 DEF Shaped
<1> HIDE DEF to, hid, i
<1>6. BegunWith(to, hid, m)
    BY <1>1, <1>2, <1>5 DEF BegunWith, Reached
<1>7. AsDescribed(to, hid, m)
  <2>1. ASSUME NEW k \in 1..m
        PROVE  hid.visible[Line(ld)[k]] = (Line(ld)[k] \notin ld.spec.hidden)
    <3>1. CASE k = m
        BY <1>5, <3>1 DEF BeforeHide, i
    <3>2. CASE k # m
      <4>1. k \in 1..(m - 1) /\ k \in 1..Len(Line(ld)) /\ Line(ld)[k] # i
          BY <1>2, <3>2 DEF i
      <4> QED BY <1>3, <1>5, <4>1 DEF BeforeHide, AsDescribed
    <3> QED BY <3>1, <3>2
  <2> QED BY <1>1, <2>1 DEF AsDescribed
<1>8. Between(to, hid, at, m)
    BY <1>1, <1>5, <1>7 DEF Between, BeforeHide, i
<1> QED BY <1>4, <1>6, <1>8 DEF Reached, to, hid, i

LEMMA SelectReaches ==
    ASSUME NEW ld, DOMAIN ld = Fields, NEW r, Shaped(r), NEW at, NEW m,
           Laid(ld.ops, ld.spec, at), Reached(ld, r, at, m),
           Between(ld, r, at, m), m = Len(Line(ld)), ld.spec.selected # Unset
    PROVE  Reached(Advance(ld), [r EXCEPT !.selected = ld.spec.selected], at, m)
<1> DEFINE to == Advance(ld)
           s == [r EXCEPT !.selected = ld.spec.selected]
<1>1. to.next = ld.next + 1 /\ to.spec = ld.spec /\ Line(to) = Line(ld)
    BY DEF Advance, Fields, Line
<1>2. s.order = r.order /\ s.visible = r.visible /\ s.selected = ld.spec.selected
    BY DEF Shaped
<1>3. at[m] \in Nat /\ ld.next = at[m] + 1
    BY DEF Laid, Line, Reached, BegunWith, Between
<1> HIDE DEF to, s
<1>4. BegunWith(to, s, m) /\ AsDescribed(to, s, m)
    BY <1>1, <1>2 DEF Reached, BegunWith, Between, AsDescribed
<1>5. AfterSelect(to, s, at, m)
    BY <1>1, <1>2, <1>3, <1>4 DEF AfterSelect
<1> QED BY <1>4, <1>5 DEF Reached, to, s

-----------------------------------------------------------------------------
(* What holds of every load, and of every one that nobody has disturbed.    *)

Planned(ld) == Sound(ld.spec) /\ ld.ops = Operations(ld.spec) /\ ld.next \in Nat \ {0}

LoadPlanned(ld, up) ==
    /\ ld.pc = "planning" => ld.spec \in ValidSpec
    /\ ld.pc \in {"idle", "reading", "planning", "inspecting"} => ld.next = 1
    /\ ld.pc \in {"inspecting", "applying", "mounting"} \/ ld.alone => Planned(ld)
    /\ ld.pc \in {"applying", "mounting"} => up
    /\ ld.pc = "mounting" => /\ ld.next <= Len(ld.ops)
                             /\ ld.ops[ld.next].type = "mount"
    /\ ld.alone => ld.pc \in {"inspecting", "applying", "mounting", "refused", "dry",
                              "applied"}

Undisturbed(ld, r, mem) ==
    ld.alone =>
        /\ \A k \in DOMAIN mem : k[1] = ld.key => k[3] \in 1..(ld.next - 1)
        /\ \E at, m : Laid(ld.ops, ld.spec, at) /\ Reached(ld, r, at, m)

RoomShape == Shaped(room) /\ (~exists => room = EmptyRoom)
StoredSpecs == \A c \in ConfigId : current[c].revision # 0 => current[c].spec \in ValidSpec
LoadsPlanned == \A l \in Load : LoadPlanned(load[l], exists)
LoadsUndisturbed == \A l \in Load : Undisturbed(load[l], room, memory)

ConfigInvariant == RoomShape /\ StoredSpecs /\ LoadsPlanned /\ LoadsUndisturbed

LEMMA DisturbedKeeps ==
    ASSUME NEW ld, DOMAIN ld = Fields, NEW up, LoadPlanned(ld, up), NEW r, NEW mem
    PROVE  /\ LoadPlanned([ld EXCEPT !.alone = FALSE], up)
           /\ Undisturbed([ld EXCEPT !.alone = FALSE], r, mem)
<1> DEFINE d == [ld EXCEPT !.alone = FALSE]
<1>1. /\ d.alone = FALSE /\ d.pc = ld.pc /\ d.spec = ld.spec /\ d.ops = ld.ops
      /\ d.next = ld.next
    BY DEF Fields
<1> HIDE DEF d
<1>2. LoadPlanned(d, up)
    BY <1>1 DEF LoadPlanned, Planned
<1>3. Undisturbed(d, r, mem)
    BY <1>1 DEF Undisturbed
<1> QED BY <1>2, <1>3 DEF d

\* How far a load is does not depend on its state.
LEMMA MovedIsUndisturbed ==
    ASSUME NEW ld, DOMAIN ld = Fields, NEW pc, NEW r, NEW mem, Undisturbed(ld, r, mem)
    PROVE  Undisturbed([ld EXCEPT !.pc = pc], r, mem)
<1> DEFINE d == [ld EXCEPT !.pc = pc]
<1>1. /\ d.alone = ld.alone /\ d.spec = ld.spec /\ d.ops = ld.ops /\ d.next = ld.next
      /\ d.key = ld.key /\ Line(d) = Line(ld)
    BY DEF Fields, Line
<1> HIDE DEF d
<1>2. \A at, m : Reached(ld, r, at, m) => Reached(d, r, at, m)
    BY <1>1 DEF Reached, BegunWith, Between, BeforeHide, AfterSelect, AsDescribed
<1>3. Undisturbed(d, r, mem)
    BY <1>1, <1>2 DEF Undisturbed
<1> QED BY <1>3 DEF d

\* A step of one load that leaves the room alone.
LEMMA OneMoves ==
    ASSUME ConfigInvariant, RepositoryInvariant, UNCHANGED <<room, memory, current>>,
           NEW l \in Load, NEW ld, load' = [load EXCEPT ![l] = ld],
           exists => exists', LoadPlanned(ld, exists'), Undisturbed(ld, room, memory)
    PROVE  ConfigInvariant'
<1>1. load'[l] = ld /\ \A k \in Load : k # l => load'[k] = load[k]
    BY DEF RepositoryInvariant, Histories
<1>2. RoomShape' /\ StoredSpecs'
    BY DEF ConfigInvariant, RoomShape, StoredSpecs
<1>3. LoadsPlanned'
  <2>1. ASSUME NEW k \in Load PROVE LoadPlanned(load'[k], exists')
    <3>1. LoadPlanned(load[k], exists)
        BY DEF ConfigInvariant, LoadsPlanned
    <3>2. LoadPlanned(load[k], exists')
        BY <3>1 DEF LoadPlanned
    <3> QED BY <1>1, <3>2
  <2> QED BY <2>1 DEF LoadsPlanned
<1>4. LoadsUndisturbed'
  <2>1. ASSUME NEW k \in Load PROVE Undisturbed(load'[k], room', memory')
      BY <1>1 DEF ConfigInvariant, LoadsUndisturbed
  <2> QED BY <2>1 DEF LoadsUndisturbed
<1> QED BY <1>2, <1>3, <1>4 DEF ConfigInvariant

LEMMA PcMoves ==
    ASSUME ConfigInvariant, RepositoryInvariant, UNCHANGED <<room, memory, current>>,
           NEW l \in Load, NEW pc, load' = [load EXCEPT ![l].pc = pc],
           exists => exists', LoadPlanned([load[l] EXCEPT !.pc = pc], exists')
    PROVE  ConfigInvariant'
<1> DEFINE ld == [load[l] EXCEPT !.pc = pc]
<1>1. load' = [load EXCEPT ![l] = ld]
    OBVIOUS
<1>2. Undisturbed(ld, room, memory)
    BY MovedIsUndisturbed DEF ConfigInvariant, LoadsUndisturbed, RepositoryInvariant,
                              LoadsAreRecords
<1> HIDE DEF ld
<1> QED BY <1>1, <1>2, OneMoves DEF ld

LEMMA RefusedKeeps ==
    ASSUME ConfigInvariant, RepositoryInvariant, UNCHANGED <<room, memory, current, exists>>,
           NEW l \in Load, Refuse(l)
    PROVE  ConfigInvariant'
<1> DEFINE ld == [load[l] EXCEPT !.pc = "refused"]
<1>1. /\ ld.pc = "refused" /\ ld.spec = load[l].spec /\ ld.ops = load[l].ops
      /\ ld.next = load[l].next /\ ld.alone = load[l].alone
    BY DEF RepositoryInvariant, LoadsAreRecords, Fields
<1>2. LoadPlanned(load[l], exists)
    BY DEF ConfigInvariant, LoadsPlanned
<1> HIDE DEF ld
<1>3. LoadPlanned(ld, exists')
    BY <1>1, <1>2 DEF LoadPlanned, Planned
<1> QED BY <1>3, PcMoves DEF ld, Refuse

\* A command of one load disturbs the others.
LEMMA ExecutedKeeps ==
    ASSUME ConfigInvariant, RepositoryInvariant, UNCHANGED <<exists, current>>, exists,
           NEW l \in Load, NEW r, Shaped(r), Executed(l, r), Planned(load[l]),
           load[l].alone =>
               \E at, m : /\ Laid(load[l].ops, load[l].spec, at)
                          /\ Reached(Advance(load[l]), r, at, m)
    PROVE  ConfigInvariant'
<1> DEFINE to == Advance(load[l])
<1>1. /\ load'[l] = to /\ room' = r
      /\ \A k \in Load : k # l => load'[k] = [load[k] EXCEPT !.alone = FALSE]
    BY DEF Executed, Disturb, Advanced, Advance
<1>2. /\ to.pc = "applying" /\ to.spec = load[l].spec /\ to.ops = load[l].ops
      /\ to.next = load[l].next + 1 /\ to.key = load[l].key /\ to.alone = load[l].alone
    BY DEF RepositoryInvariant, LoadsAreRecords, Fields, Advance
<1>3. /\ DOMAIN memory' = DOMAIN memory \cup {CommandKey(l)}
      /\ CommandKey(l)[1] = load[l].key /\ CommandKey(l)[3] = load[l].next
    BY DEF Executed, CommandKey
<1> HIDE DEF to
<1>4. RoomShape' /\ StoredSpecs'
    BY <1>1 DEF ConfigInvariant, RoomShape, StoredSpecs
<1>5. LoadsPlanned'
  <2>1. LoadPlanned(to, exists')
    <3>1. to.next \in Nat \ {0}
        BY <1>2 DEF Planned
    <3>2. Planned(to)
        BY <1>2, <3>1 DEF Planned
    <3> QED BY <1>2, <3>2 DEF LoadPlanned
  <2>2. ASSUME NEW k \in Load, k # l PROVE LoadPlanned(load'[k], exists')
    <3>1. LoadPlanned(load[k], exists') /\ DOMAIN load[k] = Fields
        BY DEF ConfigInvariant, LoadsPlanned, RepositoryInvariant, LoadsAreRecords
    <3>2. LoadPlanned([load[k] EXCEPT !.alone = FALSE], exists')
        BY <3>1, DisturbedKeeps
    <3> QED BY <1>1, <2>2, <3>2
  <2> QED BY <1>1, <2>1, <2>2 DEF LoadsPlanned
<1>6. LoadsUndisturbed'
  <2>1. Undisturbed(to, room', memory')
    <3> SUFFICES ASSUME to.alone PROVE Undisturbed(to, room', memory')
        BY DEF Undisturbed
    <3>1. ASSUME NEW k \in DOMAIN memory', k[1] = to.key
          PROVE  k[3] \in 1..(to.next - 1)
      <4>1. load[l].next \in Nat \ {0}
          BY DEF Planned
      <4>2. CASE k = CommandKey(l)
          BY <1>2, <1>3, <4>1, <4>2
      <4>3. CASE k \in DOMAIN memory
        <5>1. \A j \in DOMAIN memory : j[1] = load[l].key => j[3] \in 1..(load[l].next - 1)
            BY <1>2 DEF ConfigInvariant, LoadsUndisturbed, Undisturbed
        <5>2. k[3] \in 1..(load[l].next - 1)
            BY <1>2, <3>1, <4>3, <5>1
        <5> QED BY <1>2, <4>1, <5>2
      <4> QED BY <1>3, <4>2, <4>3
    <3>2. \E at, m : Laid(to.ops, to.spec, at) /\ Reached(to, room', at, m)
        BY <1>1, <1>2 DEF to
    <3> QED BY <3>1, <3>2 DEF Undisturbed
  <2>2. ASSUME NEW k \in Load, k # l PROVE Undisturbed(load'[k], room', memory')
    <3>1. LoadPlanned(load[k], exists) /\ DOMAIN load[k] = Fields
        BY DEF ConfigInvariant, LoadsPlanned, RepositoryInvariant, LoadsAreRecords
    <3>2. Undisturbed([load[k] EXCEPT !.alone = FALSE], room', memory')
        BY <3>1, DisturbedKeeps
    <3> QED BY <1>1, <2>2, <3>2
  <2> QED BY <1>1, <2>1, <2>2 DEF LoadsUndisturbed
<1> QED BY <1>4, <1>5, <1>6 DEF ConfigInvariant

-----------------------------------------------------------------------------
(* Each step keeps it.                                                      *)

LEMMA InitConfig == Init => ConfigInvariant
<1> SUFFICES ASSUME Init PROVE ConfigInvariant
    OBVIOUS
<1>1. RoomShape /\ StoredSpecs
    BY EmptyIsShaped DEF Init, RoomShape, StoredSpecs
<1>2. \A l \in Load : load[l].pc = "idle" /\ load[l].next = 1 /\ load[l].alone = FALSE
    BY DEF Init, Idle
<1>3. LoadsPlanned /\ LoadsUndisturbed
    BY <1>2 DEF LoadsPlanned, LoadPlanned, LoadsUndisturbed, Undisturbed
<1> QED BY <1>1, <1>3 DEF ConfigInvariant

\* What is upserted has the shape of a spec, and so has what is saved.
LEMMA StoreKeeps ==
    ASSUME ConfigInvariant, RepositoryInvariant, NEW c \in ConfigId,
           NEW spec \in ValidSpec, Store(c, spec),
           UNCHANGED <<exists, room, memory, load>>
    PROVE  ConfigInvariant'
<1>1. \A d \in ConfigId : current'[d] = current[d] \/ current'[d].spec = spec
    BY DEF Store, InsertRevision, RepositoryInvariant, Histories
<1>2. StoredSpecs'
    BY <1>1 DEF ConfigInvariant, StoredSpecs
<1> QED BY <1>2 DEF ConfigInvariant, RoomShape, LoadsPlanned, LoadsUndisturbed

LEMMA EditKeeps ==
    ASSUME ConfigInvariant, RepositoryInvariant, NEW r, Shaped(r), Edit(r)
    PROVE  ConfigInvariant'
<1>1. /\ room' = r /\ exists /\ exists' = exists /\ current' = current
      /\ \A l \in Load : load'[l] = [load[l] EXCEPT !.alone = FALSE]
    BY DEF Edit, Disturb
<1>2. RoomShape' /\ StoredSpecs'
    BY <1>1 DEF ConfigInvariant, RoomShape, StoredSpecs
<1>3. ASSUME NEW l \in Load
      PROVE  LoadPlanned(load'[l], exists') /\ Undisturbed(load'[l], room', memory')
  <2>1. LoadPlanned(load[l], exists) /\ DOMAIN load[l] = Fields
      BY DEF ConfigInvariant, LoadsPlanned, RepositoryInvariant, LoadsAreRecords
  <2> DEFINE d == [load[l] EXCEPT !.alone = FALSE]
  <2>2. LoadPlanned(d, exists) /\ Undisturbed(d, room', memory')
      BY <2>1, DisturbedKeeps
  <2>3. load'[l] = d
      BY <1>1
  <2> HIDE DEF d
  <2> QED BY <1>1, <2>2, <2>3
<1> QED BY <1>2, <1>3 DEF ConfigInvariant, LoadsPlanned, LoadsUndisturbed

LEMMA BeginKeeps ==
    ASSUME ConfigInvariant, RepositoryInvariant, NEW l \in Load, NEW c, NEW k, Begin(l, c, k)
    PROVE  ConfigInvariant'
<1> DEFINE ld == [load[l] EXCEPT !.pc = "reading", !.config = c, !.key = k]
<1>1. /\ ld.pc = "reading" /\ ld.next = load[l].next /\ ld.alone = load[l].alone
      /\ load[l].pc = "idle" /\ load' = [load EXCEPT ![l] = ld]
      /\ UNCHANGED <<room, memory, current, exists>>
    BY DEF Begin, RepositoryInvariant, LoadsAreRecords, Fields
<1>2. LoadPlanned(load[l], exists)
    BY DEF ConfigInvariant, LoadsPlanned
<1> HIDE DEF ld
<1>3. LoadPlanned(ld, exists') /\ Undisturbed(ld, room, memory)
    BY <1>1, <1>2 DEF LoadPlanned, Undisturbed
<1> QED BY <1>1, <1>3, OneMoves

LEMMA ReadKeeps ==
    ASSUME ConfigInvariant, RepositoryInvariant, NEW l \in Load, Read(l)
    PROVE  ConfigInvariant'
<1> DEFINE row == current[load[l].config]
           ld == [load[l] EXCEPT !.pc = "planning", !.revision = row.revision,
                                 !.spec = row.spec]
<1>1. /\ load[l].pc = "reading" /\ UNCHANGED <<room, memory, current, exists>>
      /\ \/ Refuse(l)
         \/ row.revision # 0 /\ load' = [load EXCEPT ![l] = ld]
    BY DEF Read, Row
<1>2. CASE Refuse(l)
    BY <1>1, <1>2, RefusedKeeps
<1>3. CASE row.revision # 0 /\ load' = [load EXCEPT ![l] = ld]
  <2>1. /\ ld.pc = "planning" /\ ld.spec = row.spec /\ ld.next = load[l].next
        /\ ld.alone = load[l].alone
      BY DEF RepositoryInvariant, LoadsAreRecords, Fields
  <2>2. row.spec \in ValidSpec
      BY <1>1, <1>3 DEF ConfigInvariant, StoredSpecs, RepositoryInvariant, Histories
  <2>3. LoadPlanned(load[l], exists)
      BY DEF ConfigInvariant, LoadsPlanned
  <2> HIDE DEF ld, row
  <2>4. LoadPlanned(ld, exists') /\ Undisturbed(ld, room, memory)
      BY <1>1, <2>1, <2>2, <2>3 DEF LoadPlanned, Undisturbed
  <2> QED BY <1>1, <1>3, <2>4, OneMoves
<1> QED BY <1>1, <1>2, <1>3

\* The plan is of an empty room: nothing of it has been done.
LEMMA PlanKeeps ==
    ASSUME ConfigInvariant, RepositoryInvariant, NEW l \in Load, PlanLoad(l)
    PROVE  ConfigInvariant'
<1> DEFINE new == \A k \in DOMAIN memory : k[1] # load[l].key
           ld == [load[l] EXCEPT !.pc = "inspecting", !.ops = Operations(load[l].spec),
                                 !.alone = new]
<1>1. /\ load[l].pc = "planning" /\ UNCHANGED <<room, memory, current, exists>>
      /\ \/ Refuse(l)
         \/ /\ SnapshotMounts = {} /\ Valid(load[l].spec)
            /\ load' = [load EXCEPT ![l] = ld]
    BY DEF PlanLoad
<1>2. CASE Refuse(l)
    BY <1>1, <1>2, RefusedKeeps
<1>3. CASE /\ SnapshotMounts = {} /\ Valid(load[l].spec)
           /\ load' = [load EXCEPT ![l] = ld]
  <2>1. /\ ld.pc = "inspecting" /\ ld.spec = load[l].spec /\ ld.next = load[l].next
        /\ ld.ops = Operations(load[l].spec) /\ ld.alone = new /\ ld.key = load[l].key
      BY DEF RepositoryInvariant, LoadsAreRecords, Fields
  <2>2. LoadPlanned(load[l], exists)
      BY DEF ConfigInvariant, LoadsPlanned
  <2>3. Sound(load[l].spec) /\ load[l].next = 1
      BY <1>1, <1>3, <2>2 DEF LoadPlanned, Sound
  <2> HIDE DEF ld
  <2>4. LoadPlanned(ld, exists')
      BY <2>1, <2>3 DEF LoadPlanned, Planned
  <2>5. Shaped(room) /\ DOMAIN room.visible = {}
      BY <1>3, EmptyIsShaped DEF ConfigInvariant, RoomShape, SnapshotMounts, Mounted
  <2>6. Len(room.order) = 0 /\ room.selected = NoInstance
    <3>1. ToSet(room.order) = {room.order[k] : k \in 1..Len(room.order)}
          /\ Len(room.order) \in Nat
        BY <2>5, SetOfSequence, LenProperties DEF Shaped
    <3>2. 1 \notin 1..Len(room.order)
        BY <2>5, <3>1 DEF Shaped
    <3>3. Len(room.order) = 0
        BY <3>1, <3>2
    <3> QED BY <2>5, <3>3 DEF Shaped
  <2>7. ASSUME ld.alone PROVE Undisturbed(ld, room, memory)
    <3>1. PICK at : Laid(ld.ops, ld.spec, at)
        BY <2>1, <2>3, OperationsLaid
    <3>2. at[0] = 0
        BY <3>1 DEF Laid
    <3>3. Len(Line(ld)) \in Nat
        BY <2>1, <2>3, LineCovers DEF Line
    <3>4. BegunWith(ld, room, 0) /\ Between(ld, room, at, 0)
        BY <2>1, <2>3, <2>6, <3>2, <3>3 DEF BegunWith, Between, AsDescribed
    <3>5. \A k \in DOMAIN memory : k[1] # ld.key
        BY <2>1, <2>7
    <3> QED BY <3>1, <3>4, <3>5 DEF Undisturbed, Reached
  <2>8. Undisturbed(ld, room, memory)
      BY <2>7 DEF Undisturbed
  <2> QED BY <1>1, <1>3, <2>4, <2>8, OneMoves
<1> QED BY <1>1, <1>2, <1>3

LEMMA PreflightKeeps ==
    ASSUME ConfigInvariant, RepositoryInvariant, NEW l \in Load, Preflight(l)
    PROVE  ConfigInvariant'
<1>1. load[l].pc = "inspecting" /\ UNCHANGED <<room, memory, current>>
    BY DEF Preflight
<1>2. LoadPlanned(load[l], exists)
    BY DEF ConfigInvariant, LoadsPlanned
<1>3. ASSUME NEW pc \in {"dry", "applying"}, load' = [load EXCEPT ![l].pc = pc],
             exists => exists', pc = "applying" => exists'
      PROVE  ConfigInvariant'
  <2> DEFINE ld == [load[l] EXCEPT !.pc = pc]
  <2>1. /\ ld.pc = pc /\ ld.spec = load[l].spec /\ ld.ops = load[l].ops
        /\ ld.next = load[l].next /\ ld.alone = load[l].alone
      BY DEF RepositoryInvariant, LoadsAreRecords, Fields
  <2> HIDE DEF ld
  <2>2. LoadPlanned(ld, exists')
      BY <1>1, <1>2, <1>3, <2>1 DEF LoadPlanned, Planned
  <2> QED BY <1>1, <1>3, <2>2, PcMoves DEF ld
<1>4. CASE Refuse(l) /\ UNCHANGED exists
    BY <1>1, <1>4, RefusedKeeps
<1> QED BY <1>3, <1>4 DEF Preflight, InspectionFails

\* A load that is alone finds none of its keys remembered.
LEMMA RememberedKeeps ==
    ASSUME ConfigInvariant, RepositoryInvariant, NEW l \in Load, Remembered(l)
    PROVE  ConfigInvariant'
<1> DEFINE ld == [load[l] EXCEPT !.next = @ + 1, !.pc = "applying"]
<1>1. /\ load[l].pc = "applying" /\ CommandKey(l) \in DOMAIN memory
      /\ UNCHANGED <<room, memory, current, exists>>
      /\ Refuse(l) \/ load' = [load EXCEPT ![l] = ld]
    BY DEF Remembered, Advanced
<1>2. LoadPlanned(load[l], exists) /\ Undisturbed(load[l], room, memory)
    BY DEF ConfigInvariant, LoadsPlanned, LoadsUndisturbed
<1>3. load[l].next \in Nat \ {0} /\ Planned(load[l]) /\ exists
    BY <1>1, <1>2 DEF LoadPlanned, Planned
<1>4. ~load[l].alone
  <2>1. CommandKey(l)[1] = load[l].key /\ CommandKey(l)[3] = load[l].next
      BY DEF CommandKey
  <2>2. load[l].next \notin 1..(load[l].next - 1)
      BY <1>3
  <2> QED BY <1>1, <1>2, <2>1, <2>2 DEF Undisturbed
<1>5. CASE Refuse(l)
    BY <1>1, <1>5, RefusedKeeps
<1>6. CASE load' = [load EXCEPT ![l] = ld]
  <2>1. /\ ld.pc = "applying" /\ ld.spec = load[l].spec /\ ld.ops = load[l].ops
        /\ ld.next = load[l].next + 1 /\ ld.alone = load[l].alone
      BY DEF RepositoryInvariant, LoadsAreRecords, Fields
  <2> HIDE DEF ld
  <2>2. ld.next \in Nat \ {0}
      BY <1>3, <2>1
  <2>3. LoadPlanned(ld, exists') /\ Undisturbed(ld, room, memory)
      BY <1>1, <1>3, <1>4, <2>1, <2>2 DEF LoadPlanned, Planned, Undisturbed
  <2> QED BY <1>1, <1>6, <2>3, OneMoves
<1> QED BY <1>1, <1>5, <1>6

\* The next operation of a planned load is one of its plan.
LEMMA NextIsOperation ==
    ASSUME NEW l \in Load, Planned(load[l]), HasNext(l)
    PROVE  NextOp(l) \in Operation
<1>1. load[l].ops \in Seq(Operation) /\ load[l].next \in Nat \ {0}
    BY OperationsLaid DEF Planned
<1>2. load[l].next \in 1..Len(load[l].ops)
    BY <1>1, LenProperties DEF HasNext
<1> QED BY <1>1, <1>2, ElementOfSeq DEF NextOp

LEMMA StartKeeps ==
    ASSUME ConfigInvariant, RepositoryInvariant, NEW l \in Load, StartCommand(l)
    PROVE  ConfigInvariant'
<1> DEFINE op == NextOp(l)
           ld == load[l]
<1>1. ld.pc = "applying" /\ HasNext(l) /\ UNCHANGED <<current, exists>>
    BY DEF StartCommand
<1>2. LoadPlanned(ld, exists) /\ Undisturbed(ld, room, memory) /\ Shaped(room)
      /\ DOMAIN ld = Fields
    BY DEF ConfigInvariant, LoadsPlanned, LoadsUndisturbed, RoomShape, RepositoryInvariant,
           LoadsAreRecords
<1>3. Planned(ld) /\ Sound(ld.spec) /\ exists
    BY <1>1, <1>2 DEF LoadPlanned, Planned
<1>4. op \in Operation /\ op = ld.ops[ld.next] /\ ld.next <= Len(ld.ops)
    BY <1>1, <1>3, NextIsOperation DEF NextOp, HasNext
<1> HIDE DEF op
<1>5. CASE Refuse(l) /\ UNCHANGED <<room, memory>>
    BY <1>1, <1>5, RefusedKeeps
<1>6. CASE /\ op.type = "mount" /\ load' = [load EXCEPT ![l].pc = "mounting"]
           /\ UNCHANGED <<room, memory>>
  <2> DEFINE to == [load[l] EXCEPT !.pc = "mounting"]
  <2>1. /\ to.pc = "mounting" /\ to.spec = ld.spec /\ to.ops = ld.ops
        /\ to.next = ld.next /\ to.alone = ld.alone
      BY <1>2 DEF Fields
  <2> HIDE DEF to
  <2>2. LoadPlanned(to, exists')
      BY <1>1, <1>3, <1>4, <1>6, <2>1 DEF LoadPlanned, Planned
  <2> QED BY <1>1, <1>6, <2>2, PcMoves DEF to
<1>7. CASE /\ op.type = "hide" /\ op.id \in Mounted
           /\ Executed(l, [room EXCEPT !.visible[op.id] = FALSE])
  <2>1. Shaped([room EXCEPT !.visible[op.id] = FALSE])
      BY <1>2, <1>7, ShownIsShaped DEF Mounted
  <2>2. ASSUME ld.alone
        PROVE  \E at, m : /\ Laid(ld.ops, ld.spec, at)
                          /\ Reached(Advance(ld), [room EXCEPT !.visible[op.id] = FALSE],
                                     at, m)
    <3>1. PICK at, m : Laid(ld.ops, ld.spec, at) /\ Reached(ld, room, at, m)
        BY <1>2, <2>2 DEF Undisturbed
    <3>2. BeforeHide(ld, room, at, m) /\ op.id = Line(ld)[m]
        BY <1>3, <1>4, <1>7, <3>1, NextOfType
    <3>3. Reached(Advance(ld), [room EXCEPT !.visible[Line(ld)[m]] = FALSE], at, m)
        BY <1>2, <1>3, <3>1, <3>2, HideReaches
    <3> QED BY <3>1, <3>2, <3>3
  <2> QED BY <1>1, <1>3, <1>7, <2>1, <2>2, ExecutedKeeps
<1>8. CASE /\ op.type = "select" /\ op.id \in Mounted \cup {NoInstance}
           /\ Executed(l, [room EXCEPT !.selected = op.id])
  <2>1. Shaped([room EXCEPT !.selected = op.id])
      BY <1>2, <1>8, SelectedIsShaped DEF Mounted
  <2>2. ASSUME ld.alone
        PROVE  \E at, m : /\ Laid(ld.ops, ld.spec, at)
                          /\ Reached(Advance(ld), [room EXCEPT !.selected = op.id], at, m)
    <3>1. PICK at, m : Laid(ld.ops, ld.spec, at) /\ Reached(ld, room, at, m)
        BY <1>2, <2>2 DEF Undisturbed
    <3>2. /\ Between(ld, room, at, m) /\ m = Len(Line(ld)) /\ ld.spec.selected # Unset
          /\ op.id = ld.spec.selected
        BY <1>3, <1>4, <1>8, <3>1, NextOfType
    <3>3. Reached(Advance(ld), [room EXCEPT !.selected = ld.spec.selected], at, m)
        BY <1>2, <3>1, <3>2, SelectReaches
    <3> QED BY <3>1, <3>2, <3>3
  <2> QED BY <1>1, <1>3, <1>8, <2>1, <2>2, ExecutedKeeps
<1> QED BY <1>5, <1>6, <1>7, <1>8 DEF StartCommand, op

LEMMA FinishKeeps ==
    ASSUME ConfigInvariant, RepositoryInvariant, NEW l \in Load, FinishMount(l)
    PROVE  ConfigInvariant'
<1> DEFINE op == NextOp(l)
           ld == load[l]
<1>1. ld.pc = "mounting" /\ UNCHANGED <<current, exists>>
    BY DEF FinishMount
<1>2. LoadPlanned(ld, exists) /\ Undisturbed(ld, room, memory) /\ Shaped(room)
      /\ DOMAIN ld = Fields
    BY DEF ConfigInvariant, LoadsPlanned, LoadsUndisturbed, RoomShape, RepositoryInvariant,
           LoadsAreRecords
<1>3. Planned(ld) /\ Sound(ld.spec) /\ exists /\ HasNext(l) /\ op.type = "mount"
    BY <1>1, <1>2 DEF LoadPlanned, Planned, HasNext, NextOp
<1>4. op \in Operation /\ op = ld.ops[ld.next] /\ ld.next <= Len(ld.ops)
    BY <1>3, NextIsOperation DEF NextOp, HasNext
<1> HIDE DEF op
<1>5. CASE Refuse(l) /\ UNCHANGED <<room, memory>>
    BY <1>1, <1>5, RefusedKeeps
<1>6. CASE Executed(l, WithMount(room, op.id))
  <2>1. Shaped(WithMount(room, op.id))
      BY <1>2, <1>3, <1>4, MountedIsShaped DEF Operation
  <2>2. ASSUME ld.alone
        PROVE  \E at, m : /\ Laid(ld.ops, ld.spec, at)
                          /\ Reached(Advance(ld), WithMount(room, op.id), at, m)
    <3>1. PICK at, m : Laid(ld.ops, ld.spec, at) /\ Reached(ld, room, at, m)
        BY <1>2, <2>2 DEF Undisturbed
    <3>2. /\ Between(ld, room, at, m) /\ m + 1 \in 1..Len(Line(ld))
          /\ op.id = Line(ld)[m + 1]
        BY <1>3, <1>4, <3>1, NextOfType
    <3>3. Reached(Advance(ld), WithMount(room, Line(ld)[m + 1]), at, m + 1)
        BY <1>2, <1>3, <3>1, <3>2, MountReaches
    <3> QED BY <3>1, <3>2, <3>3
  <2> QED BY <1>1, <1>3, <1>6, <2>1, <2>2, ExecutedKeeps
<1> QED BY <1>5, <1>6 DEF FinishMount, op

LEMMA AnswerKeeps ==
    ASSUME ConfigInvariant, RepositoryInvariant, NEW l \in Load, Answer(l)
    PROVE  ConfigInvariant'
<1> DEFINE to == [load[l] EXCEPT !.pc = "applied"]
<1>1. /\ load[l].pc = "applying" /\ UNCHANGED <<room, memory, current, exists>>
      /\ load' = [load EXCEPT ![l].pc = "applied"]
    BY DEF Answer
<1>2. /\ to.pc = "applied" /\ to.spec = load[l].spec /\ to.ops = load[l].ops
      /\ to.next = load[l].next /\ to.alone = load[l].alone
    BY DEF RepositoryInvariant, LoadsAreRecords, Fields
<1>3. LoadPlanned(load[l], exists)
    BY DEF ConfigInvariant, LoadsPlanned
<1> HIDE DEF to
<1>4. LoadPlanned(to, exists')
    BY <1>1, <1>2, <1>3 DEF LoadPlanned, Planned
<1> QED BY <1>1, <1>4, PcMoves DEF to

LEMMA ConfigHolds == Spec => [](ConfigInvariant /\ RepositoryInvariant)
<1>1. ConfigInvariant /\ RepositoryInvariant /\ [Next]_vars => ConfigInvariant'
  <2> SUFFICES ASSUME ConfigInvariant, RepositoryInvariant, [Next]_vars
               PROVE  ConfigInvariant'
      OBVIOUS
  <2>1. ASSUME NEW c \in ConfigId, NEW spec \in Spec0, Upsert(c, spec)
        PROVE  ConfigInvariant'
    <3>1. spec \in ValidSpec
        BY ConfigAssumption DEF ValidSpec
    <3> QED BY <2>1, <3>1, StoreKeeps DEF Upsert
  <2>2. ASSUME NEW c \in ConfigId, SaveFromRoomState(c) PROVE ConfigInvariant'
    <3>1. Saved(room) \in ValidSpec
        BY SavedDescribes DEF ConfigInvariant, RoomShape
    <3> QED BY <2>2, <3>1, StoreKeeps DEF SaveFromRoomState
  <2>3. CASE CreateRoom
    <3>1. \A l \in Load : LoadPlanned(load[l], exists')
        BY <2>3 DEF CreateRoom, ConfigInvariant, LoadsPlanned, LoadPlanned
    <3> QED BY <2>3, <3>1 DEF CreateRoom, ConfigInvariant, RoomShape, StoredSpecs,
                              LoadsPlanned, LoadsUndisturbed
  <2>4. CASE UNCHANGED vars
      BY <2>4 DEF vars, ConfigInvariant, RoomShape, StoredSpecs, LoadsPlanned,
                  LoadsUndisturbed
  <2>5. Shaped(room)
      BY DEF ConfigInvariant, RoomShape
  <2>6. ASSUME NEW i \in Instance, MountDirectly(i) \/ Unmount(i) PROVE ConfigInvariant'
      BY <2>5, <2>6, MountedIsShaped, UnmountedIsShaped, EditKeeps
      DEF MountDirectly, Unmount
  <2>7. ASSUME NEW i \in Instance, NEW v \in BOOLEAN, SetVisible(i, v)
        PROVE  ConfigInvariant'
      BY <2>5, <2>7, ShownIsShaped, EditKeeps DEF SetVisible, Mounted
  <2>8. ASSUME NEW i \in Instance \cup {NoInstance}, Select(i) PROVE ConfigInvariant'
      BY <2>5, <2>8, SelectedIsShaped, EditKeeps DEF Select, Mounted
  <2>9. ASSUME NEW l \in Load, NEW c \in ConfigId, NEW k \in Key, Begin(l, c, k)
        PROVE  ConfigInvariant'
      BY <2>9, BeginKeeps
  <2>10. ASSUME NEW l \in Load, Proceed(l) PROVE ConfigInvariant'
      BY <2>10, ReadKeeps, PlanKeeps, PreflightKeeps, RememberedKeeps, StartKeeps,
         FinishKeeps, AnswerKeeps DEF Proceed
  <2> QED BY <2>1, <2>2, <2>3, <2>4, <2>6, <2>7, <2>8, <2>9, <2>10 DEF Next
<1> QED BY InitConfig, <1>1, RepositoryHolds, PTL DEF Spec

-----------------------------------------------------------------------------
(* What that says of rooms and loads.                                       *)

\* Whatever room clients and loads have brought about: a save of it describes it.
THEOREM SavesLoseNothing == Spec => []SaveLosesNothing
<1>1. ConfigInvariant => SaveLosesNothing
    BY SavedDescribes DEF ConfigInvariant, RoomShape, SaveLosesNothing, Mounted
<1> QED BY ConfigHolds, <1>1, PTL

LEMMA PrefixOfLine ==
    ASSUME NEW S, NEW s \in Seq(S), NEW t \in Seq(S), Len(s) <= Len(t),
           \A k \in 1..Len(s) : s[k] = t[k]
    PROVE  IsPrefix(s, t)
<1> DEFINE n == Len(s)
<1>1. n \in Nat /\ Len(t) \in Nat /\ \A k \in 1..n : s[k] \in S /\ t[k] \in S
    BY LenProperties, ElementOfSeq
<1>2. n - 1 + 1 = n /\ \A k \in 1..n : 1 + k - 1 = k
    BY <1>1
<1>3. /\ SubSeq(s, 1, n) \in Seq(S) /\ SubSeq(t, 1, n) \in Seq(S)
      /\ Len(SubSeq(s, 1, n)) = (IF 1 <= n THEN n - 1 + 1 ELSE 0)
      /\ Len(SubSeq(t, 1, n)) = (IF 1 <= n THEN n - 1 + 1 ELSE 0)
      /\ \A k \in 1..n - 1 + 1 : SubSeq(s, 1, n)[k] = s[1 + k - 1]
                                 /\ SubSeq(t, 1, n)[k] = t[1 + k - 1]
    BY <1>1, SubSeqProperties
<1> HIDE DEF n
<1>4. /\ Len(SubSeq(s, 1, n)) = n /\ Len(SubSeq(t, 1, n)) = n
      /\ \A k \in 1..n : SubSeq(s, 1, n)[k] = SubSeq(t, 1, n)[k]
    BY <1>1, <1>2, <1>3 DEF n
<1>5. SubSeq(s, 1, n) = SubSeq(t, 1, n)
    BY <1>3, <1>4, SeqEqual
<1> QED BY <1>5 DEF IsPrefix, n

\* The first m instances of the order, and which of them are as described.
LEMMA ReachedIsBeginning ==
    ASSUME NEW ld, Sound(ld.spec), NEW r, Shaped(r), NEW at, NEW m, Reached(ld, r, at, m)
    PROVE  /\ IsPrefix(r.order, Described(ld.spec).order)
           /\ \A i \in DOMAIN r.visible :
                  \/ r.visible[i] = Described(ld.spec).visible[i]
                  \/ i = Last(r.order) /\ r.visible[i]
<1>1. /\ Line(ld) \in Seq(Instance) /\ Len(Line(ld)) \in Nat
      /\ ToSet(Line(ld)) = ToSet(ld.spec.instances)
      /\ m \in 0..Len(Line(ld)) /\ Len(r.order) = m
      /\ \A k \in 1..m : r.order[k] = Line(ld)[k]
      /\ r.order \in Seq(Instance) /\ DOMAIN r.visible = ToSet(r.order)
    BY LineCovers DEF Line, Reached, BegunWith, Shaped
<1>2. /\ Described(ld.spec).order = Line(ld)
      /\ Described(ld.spec).visible =
             [i \in ToSet(ld.spec.instances) |-> i \notin ld.spec.hidden]
    BY DEF Described, Line, ApplyOrder
<1>3. IsPrefix(r.order, Line(ld))
    BY <1>1, PrefixOfLine
<1>4. ASSUME NEW i \in DOMAIN r.visible
      PROVE  \/ r.visible[i] = Described(ld.spec).visible[i]
             \/ i = Last(r.order) /\ r.visible[i]
  <2>1. ToSet(r.order) = {r.order[k] : k \in 1..Len(r.order)}
        /\ ToSet(Line(ld)) = {Line(ld)[k] : k \in 1..Len(Line(ld))}
      BY <1>1, SetOfSequence
  <2>2. PICK k \in 1..m : i = Line(ld)[k]
    <3>1. i \in {r.order[k] : k \in 1..Len(r.order)}
        BY <1>1, <2>1
    <3> QED BY <1>1, <3>1
  <2>3. k \in 1..Len(Line(ld))
      BY <1>1
  <2>4. Described(ld.spec).visible[i] = (i \notin ld.spec.hidden)
      BY <1>1, <1>2, <2>1, <2>2, <2>3
  <2>5. CASE AsDescribed(ld, r, m)
      BY <2>2, <2>4, <2>5 DEF AsDescribed
  <2>6. CASE BeforeHide(ld, r, at, m)
    <3>1. CASE k = m
      <4>1. i = Last(r.order)
          BY <1>1, <2>2, <3>1 DEF Last
      <4> QED BY <2>2, <2>6, <3>1, <4>1 DEF BeforeHide
    <3>2. CASE k # m
      <4>1. k \in 1..(m - 1)
          BY <1>1, <3>2
      <4> QED BY <2>2, <2>4, <2>6, <4>1 DEF BeforeHide, AsDescribed
    <3> QED BY <3>1, <3>2
  <2> QED BY <2>5, <2>6 DEF Reached, Between, AfterSelect
<1> QED BY <1>2, <1>3, <1>4

\* A load that fails, wherever it fails, leaves a beginning of its configuration.
THEOREM PartialLoadsAreBeginnings == Spec => []PartialIsBeginning
<1>1. ConfigInvariant => PartialIsBeginning
  <2> SUFFICES ASSUME ConfigInvariant, NEW l \in Load, load[l].alone
               PROVE  /\ IsPrefix(room.order, Described(load[l].spec).order)
                      /\ \A i \in Mounted :
                             \/ room.visible[i] = Described(load[l].spec).visible[i]
                             \/ i = Last(room.order) /\ room.visible[i]
      BY DEF PartialIsBeginning
  <2>1. Sound(load[l].spec) /\ Shaped(room)
      BY DEF ConfigInvariant, LoadsPlanned, LoadPlanned, Planned, RoomShape
  <2>2. PICK at, m : Reached(load[l], room, at, m)
      BY DEF ConfigInvariant, LoadsUndisturbed, Undisturbed
  <2> QED BY <2>1, <2>2, ReachedIsBeginning DEF Mounted
<1> QED BY ConfigHolds, <1>1, PTL

\* A load that is through has made the room what its spec describes.
LEMMA ThroughIsDescribed ==
    ASSUME NEW ld, Sound(ld.spec), NEW r, Shaped(r), NEW at, Laid(ld.ops, ld.spec, at),
           NEW m, Reached(ld, r, at, m), ~(ld.next <= Len(ld.ops))
    PROVE  r = Described(ld.spec)
<1>1. /\ Line(ld) \in Seq(Instance) /\ Len(Line(ld)) \in Nat \ {0}
      /\ ToSet(Line(ld)) = ToSet(ld.spec.instances)
      /\ Len(r.order) = m /\ \A k \in 1..m : r.order[k] = Line(ld)[k]
      /\ r.order \in Seq(Instance) /\ DOMAIN r.visible = ToSet(r.order)
    BY LineCovers DEF Line, Reached, BegunWith, Shaped
<1>2. /\ m = Len(Line(ld)) /\ AsDescribed(ld, r, m)
      /\ r.selected = IF ld.spec.selected = Unset THEN Line(ld)[m] ELSE ld.spec.selected
    BY NextOperation
<1>3. r.order = Line(ld)
    BY <1>1, <1>2, SeqEqual
<1>4. r.visible = [i \in ToSet(ld.spec.instances) |-> i \notin ld.spec.hidden]
  <2>1. r.visible = [i \in ToSet(ld.spec.instances) |-> r.visible[i]]
      BY <1>1, <1>3 DEF Shaped
  <2>2. ASSUME NEW i \in ToSet(ld.spec.instances)
        PROVE  r.visible[i] = (i \notin ld.spec.hidden)
    <3>1. PICK k \in 1..m : i = Line(ld)[k]
        BY <1>1, <1>2, SetOfSequence
    <3> QED BY <1>2, <3>1 DEF AsDescribed
  <2> QED BY <2>1, <2>2
<1>5. Described(ld.spec) =
          [visible |-> [i \in ToSet(ld.spec.instances) |-> i \notin ld.spec.hidden],
           order |-> Line(ld),
           selected |-> IF ld.spec.selected = Unset THEN Last(Line(ld))
                                                    ELSE ld.spec.selected]
    BY DEF Described, Line, ApplyOrder
<1>6. r = [visible |-> r.visible, order |-> r.order, selected |-> r.selected]
    BY DEF Shaped
<1>7. Last(Line(ld)) = Line(ld)[m]
    BY <1>2 DEF Last
<1> QED BY <1>2, <1>3, <1>4, <1>5, <1>6, <1>7

\* Only Answer says that a load is applied.
LEMMA OnlyAnswers ==
    ASSUME RepositoryInvariant, [Next]_vars, NEW l \in Load,
           load'[l].pc = "applied", load[l].pc # "applied"
    PROVE  Answer(l)
<1>1. DOMAIN load = Load /\ DOMAIN load[l] = Fields
    BY DEF RepositoryInvariant, Histories, LoadsAreRecords
<1>2. ASSUME NEW k \in Load, Refuse(k) PROVE FALSE
    BY <1>1, <1>2 DEF Refuse, Fields
<1>3. ASSUME NEW k \in Load, NEW r, Executed(k, r) PROVE FALSE
  <2>1. load'[k].pc = "applying" /\ (k # l => load'[l].pc = load[l].pc)
      BY <1>1, <1>3 DEF Executed, Advanced, Disturb, Fields, RepositoryInvariant,
                        LoadsAreRecords
  <2> QED BY <2>1
<1>4. ASSUME NEW r, Edit(r) PROVE FALSE
    BY <1>1, <1>4 DEF Edit, Disturb, Fields
<1>5. ASSUME load' = load PROVE FALSE
    BY <1>5
<1>6. ASSUME NEW k \in Load, NEW pc, pc # "applied", load' = [load EXCEPT ![k].pc = pc]
      PROVE  FALSE
    BY <1>1, <1>6 DEF Fields
<1>7. ASSUME NEW k \in Load, Proceed(k) PROVE Answer(l)
  <2>1. CASE Read(k)
    <3>1. CASE load' = [load EXCEPT ![k].pc = "planning",
                                    ![k].revision = Row(load[k].config).revision,
                                    ![k].spec = Row(load[k].config).spec]
        BY <1>1, <3>1 DEF Fields
    <3> QED BY <1>2, <2>1, <3>1 DEF Read
  <2>2. CASE PlanLoad(k)
    <3>1. CASE load' = [load EXCEPT ![k].pc = "inspecting",
                                    ![k].ops = Operations(load[k].spec),
                                    ![k].alone = \A j \in DOMAIN memory : j[1] # load[k].key]
        BY <1>1, <3>1 DEF Fields
    <3> QED BY <1>2, <2>2, <3>1 DEF PlanLoad
  <2>3. CASE Preflight(k)
      BY <1>2, <1>6, <2>3 DEF Preflight, InspectionFails
  <2>4. CASE Remembered(k)
    <3>1. CASE load' = [load EXCEPT ![k] = Advanced(k)]
        BY <1>1, <3>1 DEF Fields, Advanced
    <3> QED BY <1>2, <2>4, <3>1 DEF Remembered
  <2>5. CASE StartCommand(k)
      BY <1>2, <1>3, <1>6, <2>5 DEF StartCommand
  <2>6. CASE FinishMount(k)
      BY <1>2, <1>3, <2>6 DEF FinishMount
  <2>7. CASE Answer(k)
    <3>1. k = l
        BY <1>1, <2>7 DEF Answer, Fields
    <3> QED BY <2>7, <3>1
  <2> QED BY <1>7, <2>1, <2>2, <2>3, <2>4, <2>5, <2>6, <2>7 DEF Proceed
<1>8. ASSUME NEW c \in ConfigId, NEW spec, Upsert(c, spec) \/ SaveFromRoomState(c)
      PROVE  FALSE
    BY <1>5, <1>8 DEF Upsert, SaveFromRoomState
<1>9. ASSUME NEW i, NEW v, MountDirectly(i) \/ Unmount(i) \/ SetVisible(i, v) \/ Select(i)
      PROVE  FALSE
    BY <1>4, <1>9 DEF MountDirectly, Unmount, SetVisible, Select
<1>10. ASSUME NEW k \in Load, NEW c, NEW key, Begin(k, c, key) PROVE FALSE
    BY <1>1, <1>10 DEF Begin, Fields
<1> QED BY <1>5, <1>7, <1>8, <1>9, <1>10 DEF Next, CreateRoom, vars

\* "applied: true" is the truth for a load that nobody disturbed.
THEOREM LoadsRestore == Spec => LoadRestores
<1>1. ConfigInvariant /\ RepositoryInvariant /\ [Next]_vars =>
          [\A l \in Load :
              load'[l].pc = "applied" /\ load[l].pc # "applied" /\ load[l].alone =>
                  exists' /\ room' = Described(load[l].spec)]_vars
  <2> SUFFICES ASSUME ConfigInvariant, RepositoryInvariant, [Next]_vars, NEW l \in Load,
                      load'[l].pc = "applied", load[l].pc # "applied", load[l].alone
               PROVE  exists' /\ room' = Described(load[l].spec)
      OBVIOUS
  <2>1. /\ load[l].pc = "applying" /\ ~(load[l].next <= Len(load[l].ops))
        /\ UNCHANGED <<exists, room>>
      BY OnlyAnswers DEF Answer, HasNext
  <2>2. Sound(load[l].spec) /\ exists /\ Shaped(room)
      BY <2>1 DEF ConfigInvariant, LoadsPlanned, LoadPlanned, Planned, RoomShape
  <2>3. PICK at, m : /\ Laid(load[l].ops, load[l].spec, at)
                     /\ Reached(load[l], room, at, m)
      BY DEF ConfigInvariant, LoadsUndisturbed, Undisturbed
  <2> QED BY <2>1, <2>2, <2>3, ThroughIsDescribed
<1> QED BY ConfigHolds, <1>1, PTL DEF Spec, LoadRestores

-----------------------------------------------------------------------------
(* Types.                                                                   *)

Pcs == {"idle", "reading", "planning", "inspecting", "applying", "mounting", "refused",
        "dry", "applied"}

LoadTyped(ld) ==
    ld.pc \in Pcs /\ ld.ops \in Seq(Operation) /\ ld.next \in 1..Len(ld.ops) + 1

TablesTyped ==
    \A c \in ConfigId : current[c].revision \in 0..MaxRevision /\ history[c] \in Seq(ValidSpec)
MemoryTyped == \A k \in DOMAIN memory : memory[k] \in Instance \cup {NoInstance}
LoadsTyped == \A l \in Load : LoadTyped(load[l])

TypeInvariant ==
    exists \in BOOLEAN /\ edits \in 0..MaxEdits /\ TablesTyped /\ MemoryTyped /\ LoadsTyped

LEMMA StoreKeepsTypes ==
    ASSUME TypeInvariant, RepositoryInvariant, NEW c \in ConfigId,
           NEW spec \in ValidSpec, Store(c, spec), UNCHANGED <<exists, memory, load, edits>>
    PROVE  TypeInvariant'
<1>1. /\ current[c].revision < MaxRevision
      /\ current' = [current EXCEPT ![c] = [revision |-> current[c].revision + 1,
                                            spec |-> spec]]
      /\ history' = [history EXCEPT ![c] = Append(history[c], spec)]
      /\ DOMAIN current = ConfigId /\ DOMAIN history = ConfigId
    BY DEF Store, InsertRevision, NextRevision, RepositoryInvariant, Histories
<1>2. history[c] \in Seq(ValidSpec) /\ current[c].revision \in 0..MaxRevision
    BY DEF TypeInvariant, TablesTyped
<1>3. /\ Append(history[c], spec) \in Seq(ValidSpec)
      /\ current[c].revision + 1 \in 0..MaxRevision
  <2>1. Append(history[c], spec) \in Seq(ValidSpec)
      BY <1>2, AppendProperties
  <2>2. current[c].revision + 1 \in 0..MaxRevision
      BY <1>1, <1>2, ConfigAssumption
  <2> QED BY <2>1, <2>2
<1>4. TablesTyped'
  <2>1. ASSUME NEW d \in ConfigId
        PROVE  current'[d].revision \in 0..MaxRevision /\ history'[d] \in Seq(ValidSpec)
    <3>1. CASE d = c
        BY <1>1, <1>3, <3>1
    <3>2. CASE d # c
        BY <1>1, <3>2 DEF TypeInvariant, TablesTyped
    <3> QED BY <3>1, <3>2
  <2> QED BY <2>1 DEF TablesTyped
<1> QED BY <1>4 DEF TypeInvariant, MemoryTyped, LoadsTyped

\* One load moves, the others at most cease to be alone.
LEMMA LoadsKeepTypes ==
    ASSUME TypeInvariant, RepositoryInvariant, NEW l \in Load, LoadTyped(load'[l]),
           \A k \in Load : k # l => \/ load'[k] = load[k]
                                    \/ load'[k] = [load[k] EXCEPT !.alone = FALSE],
           UNCHANGED <<history, current, edits>>, exists' \in BOOLEAN, MemoryTyped'
    PROVE  TypeInvariant'
<1>1. ASSUME NEW k \in Load, k # l PROVE LoadTyped(load'[k])
  <2>1. LoadTyped(load[k]) /\ DOMAIN load[k] = Fields
      BY DEF TypeInvariant, LoadsTyped, RepositoryInvariant, LoadsAreRecords
  <2>2. load'[k].pc = load[k].pc /\ load'[k].ops = load[k].ops /\ load'[k].next = load[k].next
      BY <1>1, <2>1 DEF Fields
  <2> QED BY <2>1, <2>2 DEF LoadTyped
<1>2. LoadsTyped'
    BY <1>1 DEF LoadsTyped
<1> QED BY <1>2 DEF TypeInvariant, TablesTyped

LEMMA MovesKeepTypes ==
    ASSUME TypeInvariant, RepositoryInvariant, NEW l \in Load, NEW ld, LoadTyped(ld),
           load' = [load EXCEPT ![l] = ld],
           UNCHANGED <<history, current, edits, memory>>, exists' \in BOOLEAN
    PROVE  TypeInvariant'
<1>1. load'[l] = ld /\ \A k \in Load : k # l => load'[k] = load[k]
    BY DEF RepositoryInvariant, Histories
<1>2. MemoryTyped'
    BY DEF TypeInvariant, MemoryTyped
<1> QED BY <1>1, <1>2, LoadsKeepTypes

LEMMA PcKeepsTypes ==
    ASSUME TypeInvariant, RepositoryInvariant, NEW l \in Load, NEW pc \in Pcs,
           load' = [load EXCEPT ![l].pc = pc],
           UNCHANGED <<history, current, edits, memory>>, exists' \in BOOLEAN
    PROVE  TypeInvariant'
<1> DEFINE ld == [load[l] EXCEPT !.pc = pc]
<1>1. ld.pc = pc /\ ld.ops = load[l].ops /\ ld.next = load[l].next
    BY DEF RepositoryInvariant, LoadsAreRecords, Fields
<1>2. load' = [load EXCEPT ![l] = ld] /\ LoadTyped(load[l])
    BY DEF TypeInvariant, LoadsTyped
<1> HIDE DEF ld
<1>3. LoadTyped(ld)
    BY <1>1, <1>2 DEF LoadTyped
<1> QED BY <1>2, <1>3, MovesKeepTypes

LEMMA ExecutedKeepsTypes ==
    ASSUME TypeInvariant, RepositoryInvariant, UNCHANGED <<exists, history, current, edits>>,
           NEW l \in Load, NEW r, Executed(l, r), Planned(load[l]), HasNext(l)
    PROVE  TypeInvariant'
<1>1. LoadTyped(load[l]) /\ DOMAIN load[l] = Fields
    BY DEF TypeInvariant, LoadsTyped, RepositoryInvariant, LoadsAreRecords
<1>2. /\ load'[l] = [load[l] EXCEPT !.next = @ + 1, !.pc = "applying"]
      /\ \A k \in Load : k # l => load'[k] = [load[k] EXCEPT !.alone = FALSE]
    BY DEF Executed, Disturb, Advanced
<1>3. /\ load'[l].pc = "applying" /\ load'[l].ops = load[l].ops
      /\ load'[l].next = load[l].next + 1
    BY <1>1, <1>2 DEF Fields
<1>4. LoadTyped(load'[l])
  <2>1. load[l].ops \in Seq(Operation) /\ load[l].next \in 1..Len(load[l].ops) + 1
        /\ load[l].next <= Len(load[l].ops)
      BY <1>1 DEF LoadTyped, HasNext
  <2>2. Len(load[l].ops) \in Nat
      BY <2>1, LenProperties
  <2>3. load[l].next + 1 \in 1..Len(load[l].ops) + 1
      BY <2>1, <2>2
  <2> QED BY <1>3, <2>1, <2>3 DEF LoadTyped, Pcs
<1>5. MemoryTyped'
  <2>1. NextOp(l).id \in Instance \cup {NoInstance}
      BY NextIsOperation DEF Operation
  <2> QED BY <2>1 DEF Executed, MemoryTyped, TypeInvariant
<1> QED BY <1>2, <1>4, <1>5, LoadsKeepTypes DEF TypeInvariant

LEMMA ProceedKeepsTypes ==
    ASSUME TypeInvariant, ConfigInvariant, RepositoryInvariant, NEW l \in Load, Proceed(l)
    PROVE  TypeInvariant'
<1>1. /\ LoadTyped(load[l]) /\ LoadPlanned(load[l], exists) /\ exists \in BOOLEAN
      /\ DOMAIN load[l] = Fields
    BY DEF TypeInvariant, LoadsTyped, ConfigInvariant, LoadsPlanned, RepositoryInvariant,
           LoadsAreRecords
<1>2. ASSUME Refuse(l), UNCHANGED <<history, current, edits, memory, exists>>
      PROVE  TypeInvariant'
    BY <1>1, <1>2, PcKeepsTypes DEF Refuse, Pcs
<1>3. CASE Read(l)
  <2> DEFINE ld == [load[l] EXCEPT !.pc = "planning",
                                   !.revision = Row(load[l].config).revision,
                                   !.spec = Row(load[l].config).spec]
  <2>1. ld.pc = "planning" /\ ld.ops = load[l].ops /\ ld.next = load[l].next
      BY <1>1 DEF Fields
  <2>2. /\ UNCHANGED <<history, current, edits, memory, exists>>
        /\ Refuse(l) \/ load' = [load EXCEPT ![l] = ld]
      BY <1>3 DEF Read
  <2> HIDE DEF ld
  <2>3. LoadTyped(ld)
      BY <1>1, <2>1 DEF LoadTyped, Pcs
  <2> QED BY <1>1, <1>2, <2>2, <2>3, MovesKeepTypes
<1>4. CASE PlanLoad(l)
  <2> DEFINE ld == [load[l] EXCEPT !.pc = "inspecting", !.ops = Operations(load[l].spec),
                                   !.alone = \A k \in DOMAIN memory : k[1] # load[l].key]
  <2>1. /\ ld.pc = "inspecting" /\ ld.ops = Operations(load[l].spec)
        /\ ld.next = load[l].next
      BY <1>1 DEF Fields
  <2>2. /\ UNCHANGED <<history, current, edits, memory, exists>> /\ load[l].pc = "planning"
        /\ \/ Refuse(l)
           \/ Valid(load[l].spec) /\ load' = [load EXCEPT ![l] = ld]
      BY <1>4 DEF PlanLoad
  <2> HIDE DEF ld
  <2>3. ASSUME Valid(load[l].spec) PROVE LoadTyped(ld)
    <3>1. Sound(load[l].spec) /\ load[l].next = 1
        BY <1>1, <2>2, <2>3 DEF LoadPlanned, Sound
    <3>2. Operations(load[l].spec) \in Seq(Operation)
        BY <3>1, OperationsLaid
    <3>3. 1 \in 1..Len(Operations(load[l].spec)) + 1
        BY <3>2, LenProperties
    <3> QED BY <2>1, <3>1, <3>2, <3>3 DEF LoadTyped, Pcs
  <2> QED BY <1>1, <1>2, <2>2, <2>3, MovesKeepTypes
<1>5. CASE Preflight(l)
    BY <1>1, <1>2, <1>5, PcKeepsTypes DEF Preflight, InspectionFails, Pcs
<1>6. CASE Remembered(l)
  <2> DEFINE ld == [load[l] EXCEPT !.next = @ + 1, !.pc = "applying"]
  <2>1. ld.pc = "applying" /\ ld.ops = load[l].ops /\ ld.next = load[l].next + 1
      BY <1>1 DEF Fields
  <2>2. /\ UNCHANGED <<history, current, edits, memory, exists>> /\ HasNext(l)
        /\ Refuse(l) \/ load' = [load EXCEPT ![l] = ld]
      BY <1>6 DEF Remembered, Advanced
  <2> HIDE DEF ld
  <2>3. load[l].next \in 1..Len(load[l].ops) + 1 /\ load[l].next <= Len(load[l].ops)
        /\ Len(load[l].ops) \in Nat
      BY <1>1, <2>2, LenProperties DEF LoadTyped, HasNext
  <2>4. load[l].next + 1 \in 1..Len(load[l].ops) + 1
      BY <2>3
  <2>5. LoadTyped(ld)
      BY <1>1, <2>1, <2>4 DEF LoadTyped, Pcs
  <2> QED BY <1>1, <1>2, <2>2, <2>5, MovesKeepTypes
<1>7. CASE StartCommand(l)
  <2>1. HasNext(l) /\ UNCHANGED <<exists, history, current, edits>> /\ Planned(load[l])
      BY <1>1, <1>7 DEF StartCommand, LoadPlanned
  <2>2. ASSUME NEW r, Executed(l, r) PROVE TypeInvariant'
      BY <2>1, <2>2, ExecutedKeepsTypes
  <2>3. CASE load' = [load EXCEPT ![l].pc = "mounting"] /\ UNCHANGED memory
      BY <1>1, <2>1, <2>3, PcKeepsTypes DEF Pcs
  <2> QED BY <1>2, <1>7, <2>1, <2>2, <2>3 DEF StartCommand
<1>8. CASE FinishMount(l)
  <2>1. /\ HasNext(l) /\ UNCHANGED <<exists, history, current, edits>>
        /\ Planned(load[l])
      BY <1>1, <1>8 DEF FinishMount, LoadPlanned, HasNext
  <2> QED BY <1>2, <1>8, <2>1, ExecutedKeepsTypes DEF FinishMount
<1>9. CASE Answer(l)
    BY <1>1, <1>9, PcKeepsTypes DEF Answer, Pcs
<1> QED BY <1>3, <1>4, <1>5, <1>6, <1>7, <1>8, <1>9 DEF Proceed

LEMMA EditKeepsTypes ==
    ASSUME TypeInvariant, RepositoryInvariant, NEW r, Edit(r)
    PROVE  TypeInvariant'
<1>1. /\ edits' \in 0..MaxEdits /\ UNCHANGED <<exists, memory, history, current>>
      /\ \A l \in Load : load'[l] = [load[l] EXCEPT !.alone = FALSE]
    BY ConfigAssumption DEF Edit, Disturb, TypeInvariant
<1>2. ASSUME NEW l \in Load PROVE LoadTyped(load'[l])
  <2>1. LoadTyped(load[l]) /\ DOMAIN load[l] = Fields
      BY DEF TypeInvariant, LoadsTyped, RepositoryInvariant, LoadsAreRecords
  <2>2. load'[l].pc = load[l].pc /\ load'[l].ops = load[l].ops /\ load'[l].next = load[l].next
      BY <1>1, <2>1 DEF Fields
  <2> QED BY <2>1, <2>2 DEF LoadTyped
<1> QED BY <1>1, <1>2 DEF TypeInvariant, TablesTyped, MemoryTyped, LoadsTyped

\* Every state has the types the model gives it; what a room shows is what it has
\* in its order, and a load that waits for a mount has one to wait for.
THEOREM TypesHold == Spec => []TypeOK
<1>1. Init => TypeInvariant
  <2> SUFFICES ASSUME Init PROVE TypeInvariant
      OBVIOUS
  <2>1. /\ \A l \in Load : load[l].pc = "idle" /\ load[l].ops = <<>> /\ load[l].next = 1
        /\ 1 \in 1..Len(<<>>) + 1 /\ 0 \in 0..MaxEdits /\ 0 \in 0..MaxRevision
      BY ConfigAssumption, EmptySeq DEF Init, Idle
  <2>2. LoadsTyped
      BY <2>1, EmptySeq DEF LoadsTyped, LoadTyped, Pcs
  <2>3. TablesTyped /\ MemoryTyped
      BY <2>1, EmptySeq, EmptyIsShaped DEF Init, TablesTyped, MemoryTyped
  <2> QED BY <2>1, <2>2, <2>3 DEF Init, TypeInvariant
<1>2. TypeInvariant /\ ConfigInvariant /\ RepositoryInvariant /\ [Next]_vars => TypeInvariant'
  <2> SUFFICES ASSUME TypeInvariant, ConfigInvariant, RepositoryInvariant, [Next]_vars
               PROVE  TypeInvariant'
      OBVIOUS
  <2>1. ASSUME NEW c \in ConfigId, NEW spec \in Spec0, Upsert(c, spec)
        PROVE  TypeInvariant'
    <3>1. spec \in ValidSpec
        BY ConfigAssumption DEF ValidSpec
    <3> QED BY <2>1, <3>1, StoreKeepsTypes DEF Upsert
  <2>2. ASSUME NEW c \in ConfigId, SaveFromRoomState(c) PROVE TypeInvariant'
    <3>1. Saved(room) \in ValidSpec
        BY SavedDescribes DEF ConfigInvariant, RoomShape
    <3> QED BY <2>2, <3>1, StoreKeepsTypes DEF SaveFromRoomState
  <2>3. CASE CreateRoom \/ UNCHANGED vars
      BY <2>3 DEF CreateRoom, vars, TypeInvariant, TablesTyped, MemoryTyped, LoadsTyped
  <2>4. ASSUME NEW i, NEW v, MountDirectly(i) \/ Unmount(i) \/ SetVisible(i, v) \/ Select(i)
        PROVE  TypeInvariant'
      BY <2>4, EditKeepsTypes DEF MountDirectly, Unmount, SetVisible, Select
  <2>5. ASSUME NEW l \in Load, NEW c, NEW k, Begin(l, c, k) PROVE TypeInvariant'
    <3> DEFINE ld == [load[l] EXCEPT !.pc = "reading", !.config = c, !.key = k]
    <3>1. /\ LoadTyped(load[l]) /\ load' = [load EXCEPT ![l] = ld]
          /\ exists' \in BOOLEAN /\ UNCHANGED <<history, current, edits, memory>>
        BY <2>5 DEF Begin, TypeInvariant, LoadsTyped
    <3>2. ld.pc = "reading" /\ ld.ops = load[l].ops /\ ld.next = load[l].next
        BY DEF RepositoryInvariant, LoadsAreRecords, Fields
    <3> HIDE DEF ld
    <3>3. LoadTyped(ld)
        BY <3>1, <3>2 DEF LoadTyped, Pcs
    <3> QED BY <3>1, <3>3, MovesKeepTypes
  <2>6. ASSUME NEW l \in Load, Proceed(l) PROVE TypeInvariant'
      BY <2>6, ProceedKeepsTypes
  <2> QED BY <2>1, <2>2, <2>3, <2>4, <2>5, <2>6 DEF Next
<1>3. TypeInvariant /\ ConfigInvariant => TypeOK
  <2> SUFFICES ASSUME TypeInvariant, ConfigInvariant PROVE TypeOK
      OBVIOUS
  <2>1. /\ Mounted \subseteq Instance /\ \A i \in Mounted : room.visible[i] \in BOOLEAN
        /\ room.order \in Seq(Instance) /\ ToSet(room.order) = Mounted
        /\ room.selected \in Mounted \cup {NoInstance} /\ (~exists => room = EmptyRoom)
      BY DEF ConfigInvariant, RoomShape, Shaped, Mounted
  <2>2. \A l \in Load : /\ load[l].pc \in Pcs /\ load[l].next \in 1..Len(load[l].ops) + 1
                        /\ load[l].pc = "mounting" => HasNext(l) /\ NextOp(l).type = "mount"
      BY DEF TypeInvariant, LoadsTyped, LoadTyped, ConfigInvariant, LoadsPlanned,
             LoadPlanned, HasNext, NextOp
  <2> QED BY <2>1, <2>2 DEF TypeInvariant, TypeOK, TablesTyped, MemoryTyped, Pcs
<1> QED BY <1>1, <1>2, <1>3, ConfigHolds, PTL DEF Spec

=============================================================================
