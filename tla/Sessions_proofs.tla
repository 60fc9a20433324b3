-------------------------- MODULE Sessions_proofs --------------------------
(* The two modules on top of SessionFactory, for any number of callers and *)
(* connections.  ClientPolicy: a server is allowed what clients granted, a *)
(* mount's policy is in force when it commits, and the roots a server has  *)
(* read are those of the moment unless it is being told.  Inspection: one  *)
(* that succeeds has seen every tool; and two at a time connect to a server*)
(* once and leave nothing behind.                                          *)
EXTENDS ClientPolicy, Inspection, Lists_proofs

-----------------------------------------------------------------------------
(* The inductive invariants.                                               *)

Operation == {"none", "opening", "inspecting", "finishing", "failing", "releasing", "telling"}
RequestRecord == [op : Operation, instance : Instance \cup {"none"},
                  patch : MountPatch \cup {<<>>}, had : BOOLEAN, undisturbed : BOOLEAN]

PolicyTypes ==
    /\ policy = [f \in Field |-> policy[f]]
    /\ negotiated \in BOOLEAN
    /\ req \in [Caller -> RequestRecord]
    /\ \A c \in Caller : InFlight(req[c]) => req[c].patch \in MountPatch

\* Only what clients set differs from the defaults, what the mounts in flight
\* still have to set included.
DefaultsUnlessGranted ==
    /\ \A f \in Field : f \notin granted => policy[f] = DefaultPolicy[f]
    /\ \A c \in Caller : InFlight(req[c]) => DOMAIN req[c].patch \subseteq granted

\* With no mount in place, the policy is set only by mounts that will clear it.
DefaultsUnlessMounted ==
    mounts = {} /\ (\A c \in Caller : InFlight(req[c]) => req[c].had) => policy = DefaultPolicy

\* A first mount finds the policy as it set it, unless it was disturbed.
FirstMountHolds ==
    \A c \in Caller :
        InFlight(req[c]) /\ ~req[c].had /\ req[c].undisturbed
        => Merged(policy, req[c].patch) = policy

PolicyInvariant ==
    PolicyTypes /\ DefaultsUnlessGranted /\ DefaultsUnlessMounted /\ FirstMountHolds

SessionTypes ==
    /\ entry \in {0} \cup Attempt
    /\ attempt \in [Attempt -> Status]
    /\ call \in [Caller -> Call]

\* A connection that is not open yet has read nothing.
NothingReadYet ==
    \A n \in Attempt : attempt[n] \in {"unused", "connecting"} => known[n] = Unread

\* Whoever is about to tell a change is about to tell it over this connection.
ReadOrBeingTold ==
    \A n \in Attempt :
        attempt[n] = "open" /\ entry = n /\ known[n] # Unread /\ ~unannounced
        => \/ known[n] = policy.roots
           \/ news[n]
           \/ \E c \in Caller : req[c].op = "telling" /\ call[c] = [op |-> "get", awaits |-> n]

RootsInvariant ==
    /\ SessionTypes /\ DOMAIN known = Attempt /\ DOMAIN news = Attempt
    /\ unannounced \in BOOLEAN
    /\ NothingReadYet /\ ReadOrBeingTold

-----------------------------------------------------------------------------
(* Policies and requests.                                                  *)

\* The defaults are what they were.
LEMMA DefaultsStay == DefaultPolicy' = DefaultPolicy
BY DEF DefaultPolicy, NormalizedRoots

\* A patch leaves alone the fields that it does not set.
LEMMA MergedKeeps ==
    ASSUME NEW pol, NEW patch
    PROVE  /\ Merged(pol, patch) = [f \in Field |-> Merged(pol, patch)[f]]
           /\ \A f \in Field : f \notin DOMAIN patch => Merged(pol, patch)[f] = pol[f]
BY DEF Merged

\* A patch that has been applied changes nothing when it is applied again.
LEMMA MergedTwice ==
    ASSUME NEW pol, NEW patch
    PROVE  Merged(Merged(pol, patch), patch) = Merged(pol, patch)
<1>1. ASSUME NEW f \in Field
      PROVE  Merged(Merged(pol, patch), patch)[f] = Merged(pol, patch)[f]
    <2>1. CASE f \in DOMAIN patch
        BY <2>1 DEF Merged
    <2>2. CASE f \notin DOMAIN patch
        BY <2>2, MergedKeeps
    <2> QED BY <2>1, <2>2
<1>2. /\ Merged(Merged(pol, patch), patch)
           = [f \in Field |-> Merged(Merged(pol, patch), patch)[f]]
      /\ Merged(pol, patch) = [f \in Field |-> Merged(pol, patch)[f]]
    BY MergedKeeps
<1> QED BY <1>1, <1>2

\* A change of the policy leaves a mark on the mounts in flight, and nothing else.
LEMMA DisturbedMarks ==
    ASSUME NEW r \in [Caller -> RequestRecord]
    PROVE  /\ Disturbed(r) \in [Caller -> RequestRecord]
           /\ \A c \in Caller :
                 /\ Disturbed(r)[c].op = r[c].op /\ Disturbed(r)[c].patch = r[c].patch
                 /\ Disturbed(r)[c].had = r[c].had
                 /\ InFlight(r[c]) => ~Disturbed(r)[c].undisturbed
<1>1. ASSUME NEW c \in Caller
      PROVE  /\ Disturbed(r)[c] \in RequestRecord
             /\ Disturbed(r)[c].op = r[c].op /\ Disturbed(r)[c].patch = r[c].patch
             /\ Disturbed(r)[c].had = r[c].had
             /\ InFlight(r[c]) => ~Disturbed(r)[c].undisturbed
    <2>1. r[c] \in RequestRecord
        OBVIOUS
    <2>2. CASE InFlight(r[c])
        <3>1. Disturbed(r)[c] = [r[c] EXCEPT !.undisturbed = FALSE]
            BY <2>2 DEF Disturbed
        <3> QED BY <2>1, <3>1 DEF RequestRecord
    <2>3. CASE ~InFlight(r[c])
        BY <2>1, <2>3 DEF Disturbed
    <2> QED BY <2>2, <2>3
<1> QED BY <1>1 DEF Disturbed

-----------------------------------------------------------------------------
(* The policy.                                                             *)

\* A step that changes neither the policy nor what is mounted keeps the
\* invariant if no mount in flight is lost that has still to clear.
LEMMA SameFlights ==
    ASSUME PolicyInvariant, UNCHANGED <<policy, mounts, negotiated, granted>>,
           req' \in [Caller -> RequestRecord],
           \A c \in Caller : InFlight(req'[c]) =>
               /\ InFlight(req[c]) /\ req'[c].patch = req[c].patch
               /\ req'[c].had = req[c].had /\ req'[c].undisturbed = req[c].undisturbed,
           \A c \in Caller : InFlight(req[c]) /\ ~req[c].had => InFlight(req'[c])
    PROVE  PolicyInvariant'
<1> USE DEF PolicyInvariant
<1>1. PolicyTypes'
    BY DEF PolicyTypes
<1>2. DefaultsUnlessGranted'
    BY DEF DefaultsUnlessGranted
<1>3. DefaultsUnlessMounted'
    BY DEF DefaultsUnlessMounted
<1>4. FirstMountHolds'
    BY DEF FirstMountHolds
<1> QED BY <1>1, <1>2, <1>3, <1>4

\* Serving a mount, up to its end.
LEMMA ProgressKeepsPolicy ==
    ASSUME PolicyInvariant, NEW c \in Caller,
           SessionComes(c) \/ Inspected(c) \/ InspectionFails(c)
    PROVE  PolicyInvariant'
<1>1. PICK op \in {"inspecting", "finishing", "failing"} : req' = [req EXCEPT ![c].op = op]
    BY DEF SessionComes, Inspected, InspectionFails
<1>2. InFlight(req[c]) /\ UNCHANGED <<policy, mounts, negotiated, granted>>
    BY DEF SessionComes, Inspected, InspectionFails, InFlight
<1>3. req \in [Caller -> RequestRecord] /\ req[c] \in RequestRecord
    BY DEF PolicyInvariant, PolicyTypes
<1>4. req' \in [Caller -> RequestRecord]
    BY <1>1, <1>3 DEF RequestRecord, Operation
<1>5. \A d \in Caller : req'[d] = IF d = c THEN [req[c] EXCEPT !.op = op] ELSE req[d]
    BY <1>1, <1>3
<1>6. /\ InFlight(req'[c]) /\ req'[c].patch = req[c].patch
      /\ req'[c].had = req[c].had /\ req'[c].undisturbed = req[c].undisturbed
    BY <1>3, <1>5 DEF RequestRecord, InFlight
<1> QED BY <1>2, <1>4, <1>5, <1>6, SameFlights

\* A caller that was telling or releasing is done.
LEMMA DoneKeepsPolicy ==
    ASSUME PolicyInvariant, NEW c \in Caller, Releases(c) \/ Tell(c)
    PROVE  PolicyInvariant'
<1>1. req' = [req EXCEPT ![c] = Nobody] /\ UNCHANGED <<policy, mounts, negotiated, granted>>
    BY DEF Releases, Tell
<1>2. ~InFlight(req[c]) /\ ~InFlight(Nobody) /\ Nobody \in RequestRecord
    BY DEF Releases, Tell, InFlight, Nobody, RequestRecord, Operation
<1>3. req \in [Caller -> RequestRecord]
    BY DEF PolicyInvariant, PolicyTypes
<1>4. req' \in [Caller -> RequestRecord]
    BY <1>1, <1>2, <1>3
<1>5. \A d \in Caller : req'[d] = IF d = c THEN Nobody ELSE req[d]
    BY <1>1, <1>3
<1> QED BY <1>1, <1>2, <1>4, <1>5, SameFlights

\* PUT .../roots and the two PATCH requests, about an instance in place.
LEMMA ChangeKeepsPolicy ==
    ASSUME PolicyInvariant, NEW patch, mounts # {}, UNCHANGED <<mounts, negotiated>>,
           policy' = Merged(policy, patch), granted' = granted \cup DOMAIN patch,
           req' \in [Caller -> RequestRecord],
           \A c \in Caller : InFlight(req'[c]) =>
               /\ InFlight(req[c]) /\ req'[c].patch = req[c].patch
               /\ ~req'[c].undisturbed
    PROVE  PolicyInvariant'
<1> USE DEF PolicyInvariant
<1>1. /\ policy' = [f \in Field |-> policy'[f]]
      /\ \A f \in Field : f \notin DOMAIN patch => policy'[f] = policy[f]
    BY MergedKeeps
<1>2. PolicyTypes'
    BY <1>1 DEF PolicyTypes
<1>3. DefaultsUnlessGranted'
    BY <1>1 DEF DefaultsUnlessGranted
<1>4. DefaultsUnlessMounted' /\ FirstMountHolds'
    BY DEF DefaultsUnlessMounted, FirstMountHolds
<1> QED BY <1>2, <1>3, <1>4

\* What SetRoots leaves of the requests.
LEMMA SetRootsKeepsPolicy ==
    ASSUME PolicyInvariant, NEW c \in Caller, NEW i, NEW list, SetRoots(c, i, list)
    PROVE  PolicyInvariant'
<1> DEFINE told == [req EXCEPT ![c] = [Nobody EXCEPT !.op = "telling"]]
           patch == "roots" :> list
<1>1. req \in [Caller -> RequestRecord]
    BY DEF PolicyInvariant, PolicyTypes
<1>2. [Nobody EXCEPT !.op = "telling"] \in RequestRecord
      /\ [Nobody EXCEPT !.op = "telling"].op = "telling"
    BY DEF Nobody, RequestRecord, Operation
<1>3. told \in [Caller -> RequestRecord] /\ ~InFlight(told[c])
      /\ \A d \in Caller : d # c => told[d] = req[d]
    BY <1>1, <1>2 DEF InFlight
<1>4. PICK r \in {req, told} : req' = Disturbed(r)
    BY DEF SetRoots, Patched
<1>5. r \in [Caller -> RequestRecord]
      /\ \A d \in Caller : InFlight(r[d]) => r[d] = req[d]
    BY <1>1, <1>3
<1>6. /\ req' \in [Caller -> RequestRecord]
      /\ \A d \in Caller : /\ req'[d].op = r[d].op /\ req'[d].patch = r[d].patch
                           /\ InFlight(r[d]) => ~req'[d].undisturbed
    BY <1>4, <1>5, DisturbedMarks
<1>7. \A d \in Caller : InFlight(req'[d]) =>
          InFlight(req[d]) /\ req'[d].patch = req[d].patch /\ ~req'[d].undisturbed
    BY <1>5, <1>6 DEF InFlight
<1>8. /\ mounts # {} /\ UNCHANGED <<mounts, negotiated>>
      /\ policy' = Merged(policy, patch) /\ granted' = granted \cup DOMAIN patch
    BY DEF SetRoots, Patched
<1> HIDE DEF patch
<1> QED BY <1>6, <1>7, <1>8, ChangeKeepsPolicy

LEMMA ConfigureKeepsPolicy ==
    ASSUME PolicyInvariant, NEW c \in Caller, NEW i, NEW patch, Configure(c, i, patch)
    PROVE  PolicyInvariant'
<1>1. req \in [Caller -> RequestRecord]
    BY DEF PolicyInvariant, PolicyTypes
<1>2. req' = Disturbed(req)
    BY DEF Configure, Patched
<1>3. /\ req' \in [Caller -> RequestRecord]
      /\ \A d \in Caller : /\ req'[d].op = req[d].op /\ req'[d].patch = req[d].patch
                           /\ InFlight(req[d]) => ~req'[d].undisturbed
    BY <1>1, <1>2, DisturbedMarks
<1>4. \A d \in Caller : InFlight(req'[d]) =>
          InFlight(req[d]) /\ req'[d].patch = req[d].patch /\ ~req'[d].undisturbed
    BY <1>3 DEF InFlight
<1>5. /\ mounts # {} /\ UNCHANGED <<mounts, negotiated>>
      /\ policy' = Merged(policy, patch) /\ granted' = granted \cup DOMAIN patch
    BY DEF Configure, Patched
<1> QED BY <1>3, <1>4, <1>5, ChangeKeepsPolicy

\* The policy is cleared by a failed first mount or with the last mount; what
\* was granted lapses when no other mount is in flight.
LEMMA LetGoKeepsPolicy ==
    ASSUME PolicyInvariant, NEW c \in Caller, LetGo(c),
           \/ granted' = granted
           \/ granted' = {} /\ \A d \in Caller : d # c => ~InFlight(req[d]),
           InFlight(req[c]) \/ req[c] = Nobody
    PROVE  PolicyInvariant' /\ ~InFlight(req'[c])
<1> DEFINE over == [req EXCEPT ![c] = Nobody]
           releasing == [req EXCEPT ![c] = [Nobody EXCEPT !.op = "releasing"]]
<1>1. req \in [Caller -> RequestRecord]
    BY DEF PolicyInvariant, PolicyTypes
<1>2. /\ Nobody \in RequestRecord /\ Nobody.op = "none"
      /\ [Nobody EXCEPT !.op = "releasing"] \in RequestRecord
      /\ [Nobody EXCEPT !.op = "releasing"].op = "releasing"
    BY DEF Nobody, RequestRecord, Operation
<1>3. PICK r \in {over, releasing} : req' = Disturbed(r)
    BY DEF LetGo
<1>4. r \in [Caller -> RequestRecord] /\ ~InFlight(r[c])
      /\ \A d \in Caller : d # c => r[d] = req[d]
    BY <1>1, <1>2 DEF InFlight
<1>5. /\ req' \in [Caller -> RequestRecord]
      /\ \A d \in Caller : /\ req'[d].op = r[d].op /\ req'[d].patch = r[d].patch
                           /\ req'[d].had = r[d].had
                           /\ InFlight(r[d]) => ~req'[d].undisturbed
    BY <1>3, <1>4, DisturbedMarks
<1>6. \A d \in Caller : InFlight(req'[d]) =>
          /\ d # c /\ InFlight(req[d]) /\ req'[d].patch = req[d].patch
          /\ ~req'[d].undisturbed
    BY <1>4, <1>5 DEF InFlight
<1>7. policy' = DefaultPolicy
    BY DEF LetGo, Cleared
<1>8. PolicyTypes'
    <2>1. policy' = [f \in Field |-> policy'[f]] /\ negotiated' = FALSE
        BY <1>7 DEF DefaultPolicy, LetGo
    <2> QED BY <1>5, <1>6, <2>1 DEF PolicyInvariant, PolicyTypes
<1>9. DefaultsUnlessGranted'
    BY <1>6, <1>7, DefaultsStay DEF PolicyInvariant, DefaultsUnlessGranted
<1>10. DefaultsUnlessMounted' /\ FirstMountHolds'
    BY <1>6, <1>7, DefaultsStay DEF DefaultsUnlessMounted, FirstMountHolds
<1> QED BY <1>6, <1>8, <1>9, <1>10 DEF PolicyInvariant

\* handleMount(): a first mount sets the policy, a later one will.
LEMMA BeginMountKeepsPolicy ==
    ASSUME PolicyInvariant, NEW c \in Caller, NEW i \in Instance,
           NEW patch \in MountPatch, BeginMount(c, i, patch)
    PROVE  PolicyInvariant'
<1> DEFINE begun == [op |-> "opening", instance |-> i, patch |-> patch,
                     had |-> negotiated, undisturbed |-> TRUE]
<1>1. /\ req \in [Caller -> RequestRecord] /\ policy = [f \in Field |-> policy[f]]
      /\ negotiated \in BOOLEAN /\ negotiated' = negotiated
    BY DEF PolicyInvariant, PolicyTypes, BeginMount
<1>2. PICK r \in {req, Disturbed(req)} :
          /\ req' = [r EXCEPT ![c] = begun]
          /\ ~negotiated => r = Disturbed(req)
    BY DEF BeginMount
<1>3. /\ r \in [Caller -> RequestRecord]
      /\ \A d \in Caller : /\ r[d].op = req[d].op /\ r[d].patch = req[d].patch
                           /\ r[d].had = req[d].had
    BY <1>1, DisturbedMarks
<1>4. /\ policy' = IF negotiated THEN policy ELSE Merged(policy, patch)
      /\ mounts' = mounts /\ granted' = granted \cup DOMAIN patch /\ ~InFlight(req[c])
    BY DEF BeginMount, Starts, Nobody, InFlight
<1>5. /\ policy' = [f \in Field |-> policy'[f]]
      /\ \A f \in Field : f \notin granted' => policy'[f] = policy[f]
    BY <1>1, <1>4, MergedKeeps
<1>6. begun \in RequestRecord /\ InFlight(begun) /\ begun.patch = patch
      /\ begun.had = negotiated
    BY <1>1 DEF RequestRecord, Operation, InFlight
<1>7. /\ req' \in [Caller -> RequestRecord] /\ req'[c] = begun
      /\ \A d \in Caller : d # c => req'[d] = r[d]
    BY <1>2, <1>3, <1>6
<1>8. \A d \in Caller : d # c =>
          /\ InFlight(req'[d]) = InFlight(req[d]) /\ req'[d].patch = req[d].patch
          /\ req'[d].had = req[d].had
    BY <1>3, <1>7 DEF InFlight
<1> HIDE DEF begun
<1>9. PolicyTypes'
    BY <1>1, <1>5, <1>6, <1>7, <1>8 DEF PolicyInvariant, PolicyTypes
<1>10. DefaultsUnlessGranted'
    <2>1. \A f \in Field : f \notin granted' => policy'[f] = DefaultPolicy[f]
        BY <1>4, <1>5 DEF PolicyInvariant, DefaultsUnlessGranted
    <2>2. \A d \in Caller : InFlight(req'[d]) => DOMAIN req'[d].patch \subseteq granted'
        BY <1>4, <1>6, <1>7, <1>8 DEF PolicyInvariant, DefaultsUnlessGranted
    <2> QED BY <2>1, <2>2, DefaultsStay DEF DefaultsUnlessGranted
<1>11. DefaultsUnlessMounted'
    <2>1. CASE negotiated
        BY <1>4, <1>8, <2>1, DefaultsStay DEF PolicyInvariant, DefaultsUnlessMounted
    <2>2. CASE ~negotiated
        BY <1>6, <1>7, <2>2 DEF DefaultsUnlessMounted
    <2> QED BY <2>1, <2>2
<1>12. FirstMountHolds'
    <2>1. CASE negotiated
        <3>1. policy' = policy
            BY <1>4, <2>1
        <3>2. ASSUME NEW d \in Caller, InFlight(req'[d]), ~req'[d].had,
                     req'[d].undisturbed
              PROVE  Merged(policy', req'[d].patch) = policy'
            <4>1. d # c
                BY <1>6, <1>7, <2>1, <3>2
            <4>2. req'[d] = r[d] /\ InFlight(req[d])
                BY <1>7, <1>8, <3>2, <4>1
            <4>3. r = req
                BY <1>1, <1>2, <3>2, <4>2, DisturbedMarks
            <4> QED BY <3>1, <3>2, <4>2, <4>3 DEF PolicyInvariant, FirstMountHolds
        <3> QED BY <3>2 DEF FirstMountHolds
    <2>2. CASE ~negotiated
        <3>1. \A d \in Caller : d # c /\ InFlight(req'[d]) => ~req'[d].undisturbed
            BY <1>1, <1>2, <1>7, <1>8, <2>2, DisturbedMarks
        <3>2. Merged(policy', patch) = policy'
            BY <1>4, <2>2, MergedTwice
        <3> QED BY <1>6, <1>7, <3>1, <3>2 DEF FirstMountHolds
    <2> QED BY <2>1, <2>2
<1> QED BY <1>9, <1>10, <1>11, <1>12 DEF PolicyInvariant

\* A later mount sets the policy as it commits.
LEMMA FinishMountKeepsPolicy ==
    ASSUME PolicyInvariant, NEW c \in Caller, FinishMount(c)
    PROVE  /\ PolicyInvariant'
           /\ req[c].undisturbed => Merged(policy', req[c].patch) = policy'
<1> DEFINE patch == req[c].patch
<1>1. /\ req \in [Caller -> RequestRecord] /\ policy = [f \in Field |-> policy[f]]
      /\ InFlight(req[c]) /\ req[c].had \in BOOLEAN
    BY DEF PolicyInvariant, PolicyTypes, RequestRecord, FinishMount, InFlight
<1>2. PICK r \in {req, Disturbed(req)} :
          /\ req' = [r EXCEPT ![c] = Nobody]
          /\ req[c].had => r = Disturbed(req)
          /\ ~req[c].had => r = req
    BY <1>1 DEF FinishMount
<1>3. /\ r \in [Caller -> RequestRecord]
      /\ \A d \in Caller : /\ r[d].op = req[d].op /\ r[d].patch = req[d].patch
                           /\ r[d].had = req[d].had
    BY <1>1, DisturbedMarks
<1>4. Nobody \in RequestRecord /\ ~InFlight(Nobody)
    BY DEF Nobody, RequestRecord, Operation, InFlight
<1>5. /\ req' \in [Caller -> RequestRecord] /\ ~InFlight(req'[c])
      /\ \A d \in Caller : d # c => req'[d] = r[d]
    BY <1>2, <1>3, <1>4
<1>6. \A d \in Caller : InFlight(req'[d]) =>
          /\ d # c /\ InFlight(req[d]) /\ req'[d].patch = req[d].patch
          /\ req'[d].had = req[d].had
    BY <1>3, <1>5 DEF InFlight
<1>7. /\ policy' = IF req[c].had THEN Merged(policy, patch) ELSE policy
      /\ mounts' # {} /\ granted' = granted /\ negotiated' = TRUE
    BY DEF FinishMount, Committed
<1>8. DOMAIN patch \subseteq granted
    BY <1>1 DEF PolicyInvariant, DefaultsUnlessGranted
<1> HIDE DEF patch
<1>9. /\ policy' = [f \in Field |-> policy'[f]]
      /\ \A f \in Field : f \notin granted => policy'[f] = policy[f]
    BY <1>1, <1>7, <1>8, MergedKeeps
<1>10. PolicyTypes'
    BY <1>5, <1>6, <1>7, <1>9 DEF PolicyInvariant, PolicyTypes
<1>11. DefaultsUnlessGranted'
    BY <1>6, <1>7, <1>9, DefaultsStay DEF PolicyInvariant, DefaultsUnlessGranted
<1>12. DefaultsUnlessMounted'
    BY <1>7 DEF DefaultsUnlessMounted
<1>13. FirstMountHolds'
    <2>1. CASE req[c].had
        <3>1. \A d \in Caller : InFlight(req'[d]) => ~req'[d].undisturbed
            BY <1>1, <1>2, <1>5, <1>6, <2>1, DisturbedMarks
        <3> QED BY <3>1 DEF FirstMountHolds
    <2>2. CASE ~req[c].had
        <3>1. policy' = policy /\ r = req
            BY <1>2, <1>7, <2>2
        <3>2. \A d \in Caller : InFlight(req'[d]) => req'[d] = req[d] /\ InFlight(req[d])
            BY <1>5, <1>6, <3>1
        <3> QED BY <3>1, <3>2 DEF PolicyInvariant, FirstMountHolds
    <2> QED BY <1>1, <2>1, <2>2
<1>14. req[c].undisturbed => Merged(policy', patch) = policy'
    <2>1. CASE req[c].had
        BY <1>7, <2>1, MergedTwice
    <2>2. CASE ~req[c].had
        BY <1>1, <1>7, <2>2 DEF PolicyInvariant, FirstMountHolds, patch
    <2> QED BY <1>1, <2>1, <2>2
<1> QED BY <1>10, <1>11, <1>12, <1>13, <1>14 DEF PolicyInvariant, patch

\* The catch block of a mount: a later mount leaves what others still need.
LEMMA MountFailsKeepsPolicy ==
    ASSUME PolicyInvariant, NEW c \in Caller, MountFails(c)
    PROVE  PolicyInvariant'
<1>1. req \in [Caller -> RequestRecord] /\ InFlight(req[c]) /\ req[c].had \in BOOLEAN
    BY DEF PolicyInvariant, PolicyTypes, RequestRecord, MountFails, InFlight
<1>2. /\ mounts' = mounts
      /\ \/ granted' = granted
         \/ granted' = {} /\ mounts = {} /\ \A d \in Caller : d # c => ~InFlight(req[d])
    BY DEF MountFails, StillGranted, MountsInFlight
<1>3. CASE ~req[c].had
    <2>1. LetGo(c)
        BY <1>3 DEF MountFails
    <2> QED BY <1>1, <1>2, <2>1, LetGoKeepsPolicy
<1>4. CASE req[c].had
    <2>1. req' = [req EXCEPT ![c] = Nobody] /\ UNCHANGED <<policy, mounts, negotiated>>
        BY <1>4 DEF MountFails
    <2>2. Nobody \in RequestRecord /\ ~InFlight(Nobody)
        BY DEF Nobody, RequestRecord, Operation, InFlight
    <2>3. /\ req' \in [Caller -> RequestRecord] /\ ~InFlight(req'[c])
          /\ \A d \in Caller : d # c => req'[d] = req[d]
        BY <1>1, <2>1, <2>2
    <2>4. CASE granted' = granted
        BY <1>4, <2>1, <2>3, <2>4, SameFlights
    <2>5. CASE granted' = {} /\ mounts = {} /\ \A d \in Caller : d # c => ~InFlight(req[d])
        <3>1. policy = DefaultPolicy
            BY <1>4, <2>5 DEF PolicyInvariant, DefaultsUnlessMounted
        <3>2. \A d \in Caller : ~InFlight(req'[d])
            BY <2>3, <2>5
        <3>3. PolicyTypes'
            BY <2>1, <2>3, <3>2 DEF PolicyInvariant, PolicyTypes
        <3> QED BY <2>1, <3>1, <3>2, <3>3, DefaultsStay
                DEF PolicyInvariant, DefaultsUnlessGranted, DefaultsUnlessMounted,
                    FirstMountHolds
    <2> QED BY <1>2, <2>4, <2>5
<1> QED BY <1>1, <1>3, <1>4

\* handleUnmount(): the last mount takes the policy with it.
LEMMA UnmountKeepsPolicy ==
    ASSUME PolicyInvariant, NEW c \in Caller, NEW i, Unmount(c, i)
    PROVE  PolicyInvariant'
<1>1. req[c] = Nobody /\ mounts' = mounts \ {i} /\ granted' = StillGranted(mounts', MountsInFlight)
    BY DEF Unmount, Starts
<1>2. CASE mounts' = {}
    <2>1. LetGo(c)
        BY <1>2 DEF Unmount
    <2>2. \/ granted' = granted
          \/ granted' = {} /\ \A d \in Caller : d # c => ~InFlight(req[d])
        BY <1>1 DEF StillGranted, MountsInFlight
    <2> QED BY <1>1, <2>1, <2>2, LetGoKeepsPolicy
<1>3. CASE mounts' # {}
    <2>1. UNCHANGED <<policy, negotiated, req, granted>>
        BY <1>1, <1>3 DEF Unmount, StillGranted
    <2>2. PolicyTypes' /\ DefaultsUnlessMounted'
        BY <1>3, <2>1 DEF PolicyInvariant, PolicyTypes, DefaultsUnlessMounted
    <2>3. DefaultsUnlessGranted' /\ FirstMountHolds'
        BY <2>1, DefaultsStay DEF PolicyInvariant, DefaultsUnlessGranted, FirstMountHolds
    <2> QED BY <2>2, <2>3 DEF PolicyInvariant
<1> QED BY <1>2, <1>3

LEMMA PolicyInvariantInit == ASSUME PolicyInit PROVE PolicyInvariant
<1>1. policy = DefaultPolicy /\ negotiated = FALSE /\ req = [c \in Caller |-> Nobody]
    BY DEF PolicyInit
<1>2. Nobody \in RequestRecord /\ ~InFlight(Nobody)
    BY DEF Nobody, RequestRecord, Operation, InFlight
<1>3. policy = [f \in Field |-> policy[f]]
    BY <1>1 DEF DefaultPolicy
<1>4. PolicyTypes
    BY <1>1, <1>2, <1>3 DEF PolicyTypes
<1> QED BY <1>1, <1>2, <1>4 DEF PolicyInvariant, DefaultsUnlessGranted,
                                DefaultsUnlessMounted, FirstMountHolds

LEMMA PolicyInvariantStep ==
    ASSUME PolicyInvariant, [PolicyNext]_allVars
    PROVE  PolicyInvariant'
<1>1. ASSUME NEW c \in Caller, Serve(c)
      PROVE  PolicyInvariant'
    BY <1>1, ProgressKeepsPolicy, DoneKeepsPolicy, FinishMountKeepsPolicy, MountFailsKeepsPolicy
       DEF Serve
<1>2. ASSUME NEW c \in Caller, NEW i \in Instance, NEW patch \in MountPatch,
             BeginMount(c, i, patch)
      PROVE  PolicyInvariant'
    BY <1>2, BeginMountKeepsPolicy
<1>3. ASSUME NEW c \in Caller, NEW i \in Instance, Unmount(c, i)
      PROVE  PolicyInvariant'
    BY <1>3, UnmountKeepsPolicy
<1>4. ASSUME NEW c \in Caller, NEW i \in Instance, NEW list \in RootList, SetRoots(c, i, list)
      PROVE  PolicyInvariant'
    BY <1>4, SetRootsKeepsPolicy
<1>5. ASSUME NEW c \in Caller, NEW i \in Instance, NEW patch \in Patch, Configure(c, i, patch)
      PROVE  PolicyInvariant'
    BY <1>5, ConfigureKeepsPolicy
<1>6. ASSUME UNCHANGED <<policy, mounts, negotiated, req, granted>>
      PROVE  PolicyInvariant'
    <2>1. req' \in [Caller -> RequestRecord]
        BY <1>6 DEF PolicyInvariant, PolicyTypes
    <2> QED BY <1>6, <2>1, SameFlights
<1>7. ASSUME NEW n \in Attempt, ReadsRoots(n) \/ Wire(n)
      PROVE  PolicyInvariant'
    BY <1>6, <1>7 DEF ReadsRoots, Wire, policyVars
<1>8. CASE UNCHANGED allVars
    BY <1>6, <1>8 DEF allVars, policyVars
<1> QED BY <1>1, <1>2, <1>3, <1>4, <1>5, <1>7, <1>8 DEF PolicyNext

LEMMA PolicyIsInvariant == PolicySpec => []PolicyInvariant
<1>1. PolicyInit => PolicyInvariant
    BY PolicyInvariantInit
<1>2. PolicyInvariant /\ [PolicyNext]_allVars => PolicyInvariant'
    BY PolicyInvariantStep
<1> QED BY <1>1, <1>2, PTL DEF PolicySpec

\* What the policy allows is what clients granted, for any policies and any
\* number of mounts, changes and connections.
THEOREM AllowedIsGranted == PolicySpec => []AnswersAreGranted
<1>1. ASSUME PolicyInvariant
      PROVE  AnswersAreGranted
    <2>1. \A f \in Field : f \notin granted => policy[f] = DefaultPolicy[f]
        BY <1>1 DEF PolicyInvariant, DefaultsUnlessGranted
    <2>2. /\ {"samplingEnabled", "requireHumanInTheLoop", "elicitationEnabled"} \subseteq Field
          /\ DefaultPolicy["samplingEnabled"] = FALSE
          /\ DefaultPolicy["requireHumanInTheLoop"] = TRUE
          /\ DefaultPolicy["elicitationEnabled"] = FALSE
        BY DEF Field, Flag, DefaultPolicy
    <2>3. \A q \in SamplingRequest : SamplingApproved(policy, q) =>
              {"samplingEnabled", "requireHumanInTheLoop"} \subseteq granted
        BY <2>1, <2>2 DEF SamplingApproved
    <2>4. \A q \in ElicitationRequest : ElicitationAccepted(policy, q) =>
              "elicitationEnabled" \in granted
        BY <2>1, <2>2 DEF ElicitationAccepted
    <2>5. /\ \A q \in SamplingRequest : q.kind = "sampling"
          /\ \A q \in ElicitationRequest : q.kind # "sampling"
        BY DEF SamplingRequest, ElicitationRequest
    <2> QED BY <2>3, <2>4, <2>5 DEF AnswersAreGranted, Allowed, Evaluated
<1> QED BY <1>1, PolicyIsInvariant, PTL

\* A mount that nobody disturbed finds its policy in force when it commits.
THEOREM MountsSetTheirPolicy == PolicySpec => MountPolicyHolds
<1>1. ASSUME PolicyInvariant, NEW c \in Caller, FinishMount(c), req[c].undisturbed
      PROVE  Merged(policy', req[c].patch) = policy'
    BY <1>1, FinishMountKeepsPolicy
<1>2. PolicyInvariant =>
          [\A c \in Caller : FinishMount(c) /\ req[c].undisturbed =>
              Merged(policy', req[c].patch) = policy']_allVars
    BY <1>1
<1> QED BY <1>2, PolicyIsInvariant, PTL DEF MountPolicyHolds

-----------------------------------------------------------------------------
(* Sessions: what each action of SessionFactory does to the connections.   *)

\* There is a first unused attempt as long as there is one.
LEMMA NextIsUnused ==
    ASSUME Unused # {}
    PROVE  NextAttempt \in Unused /\ \A m \in Unused : NextAttempt <= m
<1>1. IsWellFoundedOn(OpToRel(<, Nat), Nat)
    BY NatLessThanWellFounded
<1>2. Unused \subseteq Nat
    BY FactoryAssumption DEF Unused, Attempt
<1>3. PICK n \in Unused : \A m \in Unused : <<m, n>> \notin OpToRel(<, Nat)
    BY <1>1, <1>2, WFMin
<1>4. \A m \in Unused : ~(m < n)
    BY <1>2, <1>3 DEF OpToRel
<1>5. \A m \in Unused : n <= m
    BY <1>2, <1>4
<1> QED BY <1>5 DEF NextAttempt

\* Asking joins the connection in the map, or starts one.
LEMMA GetSessionDoes ==
    ASSUME SessionTypes, NEW c \in Caller, GetSession(c)
    PROVE  /\ SessionTypes' /\ call[c] = Idle
           /\ entry' # 0 /\ call'[c] = [op |-> "get", awaits |-> entry']
           /\ \A d \in Caller : d # c => call'[d] = call[d]
           /\ entry # 0 => entry' = entry /\ attempt' = attempt
           /\ entry = 0 => /\ attempt[entry'] = "unused" /\ attempt'[entry'] = "connecting"
                           /\ \A n \in Attempt : n # entry' => attempt'[n] = attempt[n]
<1>1. CASE entry # 0
    BY <1>1 DEF GetSession, SessionTypes, Call, Idle
<1>2. CASE entry = 0
    <2>1. NextAttempt \in Unused /\ entry' = NextAttempt
        BY <1>2, NextIsUnused DEF GetSession
    <2>2. entry' \in Attempt /\ attempt[entry'] = "unused" /\ entry' # 0
        BY <2>1, FactoryAssumption DEF Unused, Attempt
    <2>3. /\ attempt' = [attempt EXCEPT ![entry'] = "connecting"]
          /\ call' = [call EXCEPT ![c] = [op |-> "get", awaits |-> entry']]
          /\ call[c] = Idle
        BY <1>2, <2>1 DEF GetSession
    <2> QED BY <1>2, <2>2, <2>3 DEF SessionTypes, Call, Status
<1> QED BY <1>1, <1>2

LEMMA GetReturnsDoes ==
    ASSUME SessionTypes, NEW c \in Caller, GetReturns(c)
    PROVE  /\ SessionTypes' /\ UNCHANGED <<entry, attempt>>
           /\ \A d \in Caller : d # c => call'[d] = call[d]
BY DEF GetReturns, SessionTypes, Call, Idle

LEMMA ReleaseSessionDoes ==
    ASSUME SessionTypes, NEW c \in Caller, ReleaseSession(c)
    PROVE  /\ SessionTypes' /\ entry' = 0 /\ UNCHANGED attempt
           /\ \A d \in Caller : d # c => call'[d] = call[d]
BY DEF ReleaseSession, SessionTypes, Call

LEMMA ReleaseReturnsDoes ==
    ASSUME SessionTypes, NEW c \in Caller, ReleaseReturns(c)
    PROVE  /\ SessionTypes' /\ UNCHANGED entry
           /\ \A n \in Attempt : attempt'[n] = attempt[n] \/ attempt'[n] = "closed"
           /\ \A d \in Caller : d # c => call'[d] = call[d]
<1> DEFINE m == call[c].awaits
<1>1. attempt' = [attempt EXCEPT ![m] = IF attempt[m] \in {"open", "dead"} THEN "closed"
                                        ELSE attempt[m]]
    BY DEF ReleaseReturns, SessionTypes
<1>2. \A n \in Attempt : attempt'[n] = attempt[n] \/ attempt'[n] = "closed"
    BY <1>1 DEF SessionTypes
<1>3. attempt' \in [Attempt -> Status]
    BY <1>1, <1>2 DEF SessionTypes, Status
<1>4. call' = [call EXCEPT ![c] = Idle] /\ UNCHANGED entry
    BY DEF ReleaseReturns
<1> QED BY <1>2, <1>3, <1>4 DEF SessionTypes, Call, Idle

LEMMA WireDoes ==
    ASSUME SessionTypes, NEW n \in Attempt, Wire(n)
    PROVE  /\ SessionTypes' /\ UNCHANGED <<call, policyVars>>
           /\ entry' \in {entry, 0}
           /\ \A m \in Attempt : \/ attempt'[m] = attempt[m]
                                 \/ attempt[m] = "connecting" /\ attempt'[m] = "open"
                                 \/ attempt'[m] \in {"failed", "dead"}
BY DEF Wire, Connected, ConnectFails, Dies, Forget, SessionTypes, Status

-----------------------------------------------------------------------------
(* The roots that a server has read.                                       *)

\* Whoever is about to tell goes on being so, and a connection that is open
\* after the step was there before: then it needs the roots to stay, or to be
\* told of.
LEMMA RootsKept ==
    ASSUME RootsInvariant, SessionTypes', unannounced' \in BOOLEAN,
           UNCHANGED <<known, news>>,
           \A n \in Attempt : attempt'[n] \in {"unused", "connecting"} =>
               attempt[n] \in {"unused", "connecting"},
           \A c \in Caller : req[c].op = "telling" =>
               req'[c].op = "telling" /\ call'[c] = call[c],
           \A n \in Attempt : attempt'[n] = "open" /\ entry' = n /\ ~unannounced' =>
               /\ entry = n /\ ~unannounced /\ attempt[n] \in {"connecting", "open"}
               /\ \/ policy'.roots = policy.roots
                  \/ \E c \in Caller :
                         req'[c].op = "telling" /\ call'[c] = [op |-> "get", awaits |-> n]
    PROVE  RootsInvariant'
<1>1. NothingReadYet'
    BY DEF RootsInvariant, NothingReadYet
<1>2. ASSUME NEW n \in Attempt, attempt'[n] = "open", entry' = n, known'[n] # Unread,
             ~unannounced'
      PROVE  \/ known'[n] = policy'.roots
             \/ news'[n]
             \/ \E c \in Caller :
                    req'[c].op = "telling" /\ call'[c] = [op |-> "get", awaits |-> n]
    <2>1. attempt[n] = "open" /\ entry = n /\ known[n] # Unread /\ ~unannounced
        BY <1>2 DEF RootsInvariant, NothingReadYet
    <2>2. \/ known[n] = policy.roots
          \/ news[n]
          \/ \E c \in Caller : req[c].op = "telling" /\ call[c] = [op |-> "get", awaits |-> n]
        BY <2>1 DEF RootsInvariant, ReadOrBeingTold
    <2> QED BY <1>2, <2>2
<1>3. ReadOrBeingTold'
    BY <1>2 DEF ReadOrBeingTold
<1> QED BY <1>1, <1>3 DEF RootsInvariant

\* A request that asks for the session, with or without a change of the roots.
LEMMA AskKeepsRoots ==
    ASSUME RootsInvariant, NEW c \in Caller, GetSession(c),
           unannounced' \in BOOLEAN, UNCHANGED <<known, news>>,
           req[c].op # "telling",
           \A d \in Caller : d # c => req'[d].op = req[d].op,
           \/ policy'.roots = policy.roots /\ unannounced' = unannounced
           \/ entry # 0 => unannounced'
           \/ req'[c].op = "telling" /\ unannounced' = unannounced
    PROVE  RootsInvariant'
<1>1. SessionTypes
    BY DEF RootsInvariant
<1>2. /\ SessionTypes'
      /\ entry' # 0 /\ call'[c] = [op |-> "get", awaits |-> entry']
      /\ \A d \in Caller : d # c => call'[d] = call[d]
      /\ entry # 0 => entry' = entry /\ attempt' = attempt
      /\ entry = 0 => /\ attempt[entry'] = "unused" /\ attempt'[entry'] = "connecting"
                      /\ \A n \in Attempt : n # entry' => attempt'[n] = attempt[n]
    BY <1>1, GetSessionDoes
<1>3. \A n \in Attempt : attempt'[n] \in {"unused", "connecting"} =>
          attempt[n] \in {"unused", "connecting"}
    BY <1>2
<1>4. \A d \in Caller : req[d].op = "telling" =>
          req'[d].op = "telling" /\ call'[d] = call[d]
    BY <1>2
<1>5. \A n \in Attempt : attempt'[n] = "open" /\ entry' = n /\ ~unannounced' =>
          /\ entry = n /\ ~unannounced /\ attempt[n] \in {"connecting", "open"}
          /\ \/ policy'.roots = policy.roots
             \/ \E d \in Caller :
                    req'[d].op = "telling" /\ call'[d] = [op |-> "get", awaits |-> n]
    <2>1. CASE entry = 0
        BY <1>2, <2>1
    <2>2. CASE entry # 0
        BY <1>2, <2>2
    <2> QED BY <2>1, <2>2
<1> QED BY <1>2, <1>3, <1>4, <1>5, RootsKept

\* A step that leaves the connections and the roots alone.
LEMMA QuietKeepsRoots ==
    ASSUME RootsInvariant, SessionTypes', unannounced' \in BOOLEAN,
           UNCHANGED <<known, news>>,
           entry' \in {entry, 0},
           \A n \in Attempt : \/ attempt'[n] = attempt[n]
                              \/ attempt[n] = "connecting" /\ attempt'[n] = "open"
                              \/ attempt'[n] \in {"failed", "dead", "closed"},
           \A c \in Caller : req[c].op = "telling" =>
               req'[c].op = "telling" /\ call'[c] = call[c],
           entry' = 0 \/ unannounced' \/ (policy'.roots = policy.roots /\ unannounced' = unannounced)
    PROVE  RootsInvariant'
<1>1. \A n \in Attempt : attempt'[n] \in {"unused", "connecting"} =>
          attempt[n] \in {"unused", "connecting"}
    OBVIOUS
<1>2. \A n \in Attempt : attempt'[n] = "open" /\ entry' = n /\ ~unannounced' =>
          /\ entry = n /\ ~unannounced /\ attempt[n] \in {"connecting", "open"}
          /\ policy'.roots = policy.roots
    BY FactoryAssumption DEF Attempt
<1> QED BY <1>1, <1>2, RootsKept

\* The steps of a mount.
LEMMA MountStepsKeepRoots ==
    ASSUME RootsInvariant, PolicyTypes, NEW c \in Caller,
           \/ \E i \in Instance, patch \in MountPatch : BeginMount(c, i, patch)
           \/ SessionComes(c) \/ Inspected(c) \/ InspectionFails(c) \/ FinishMount(c)
    PROVE  RootsInvariant'
<1>1. SessionTypes /\ req \in [Caller -> RequestRecord]
    BY DEF RootsInvariant, PolicyTypes
<1>2. ASSUME NEW i \in Instance, NEW patch \in MountPatch, BeginMount(c, i, patch)
      PROVE  RootsInvariant'
    <2>1. \A d \in Caller : d # c => req'[d].op = req[d].op
        BY <1>1, <1>2, DisturbedMarks DEF BeginMount
    <2>2. GetSession(c) /\ UNCHANGED <<known, news>> /\ req[c].op # "telling"
        BY <1>2 DEF BeginMount, Starts, Asks, Nobody
    <2>3. /\ unannounced' \in BOOLEAN
          /\ \/ policy'.roots = policy.roots /\ unannounced' = unannounced
             \/ entry # 0 => unannounced'
        BY <1>2 DEF BeginMount, RootsInvariant
    <2> QED BY <2>1, <2>2, <2>3, AskKeepsRoots
<1>3. CASE Inspected(c)
    <2>1. \A d \in Caller : d # c => req'[d].op = req[d].op
        BY <1>1, <1>3 DEF Inspected
    <2>2. /\ GetSession(c) /\ UNCHANGED <<known, news, policy, unannounced>>
          /\ req[c].op # "telling" /\ unannounced \in BOOLEAN
        BY <1>3 DEF Inspected, Asks, RootsInvariant
    <2> QED BY <2>1, <2>2, AskKeepsRoots
<1>4. ASSUME GetReturns(c) \/ UNCHANGED vars, UNCHANGED <<known, news>>,
             unannounced' \in BOOLEAN, req[c].op # "telling",
             \A d \in Caller : d # c => req'[d].op = req[d].op,
             \/ unannounced'
             \/ policy'.roots = policy.roots /\ unannounced' = unannounced
      PROVE  RootsInvariant'
    <2>1. /\ SessionTypes' /\ UNCHANGED <<entry, attempt>>
          /\ \A d \in Caller : d # c => call'[d] = call[d]
        BY <1>1, <1>4, GetReturnsDoes DEF vars, SessionTypes
    <2> QED BY <1>4, <2>1, QuietKeepsRoots
<1>5. CASE SessionComes(c) \/ InspectionFails(c)
    <2>1. \A d \in Caller : d # c => req'[d].op = req[d].op
        BY <1>1, <1>5 DEF SessionComes, InspectionFails
    <2>2. /\ GetReturns(c) \/ UNCHANGED vars
          /\ UNCHANGED <<known, news, policy, unannounced>> /\ req[c].op # "telling"
          /\ unannounced \in BOOLEAN
        BY <1>5 DEF SessionComes, InspectionFails, RootsInvariant
    <2> QED BY <1>4, <2>1, <2>2
<1>6. CASE FinishMount(c)
    <2>1. \A d \in Caller : d # c => req'[d].op = req[d].op
        BY <1>1, <1>6, DisturbedMarks DEF FinishMount
    <2>2. GetReturns(c) /\ UNCHANGED <<known, news>> /\ req[c].op # "telling"
        BY <1>6 DEF FinishMount
    <2>3. /\ unannounced' \in BOOLEAN
          /\ \/ unannounced'
             \/ policy'.roots = policy.roots /\ unannounced' = unannounced
        BY <1>6 DEF FinishMount, RootsInvariant
    <2> QED BY <1>4, <2>1, <2>2, <2>3
<1> QED BY <1>2, <1>3, <1>5, <1>6

\* A failed mount or the last unmount takes the session with it.
LEMMA LetGoKeepsRoots ==
    ASSUME RootsInvariant, PolicyTypes, NEW c \in Caller, LetGo(c),
           req[c].op # "telling", UNCHANGED <<known, news>>
    PROVE  RootsInvariant'
<1> DEFINE over == [req EXCEPT ![c] = Nobody]
           releasing == [req EXCEPT ![c] = [Nobody EXCEPT !.op = "releasing"]]
<1>1. SessionTypes /\ req \in [Caller -> RequestRecord] /\ unannounced' \in BOOLEAN
    BY DEF RootsInvariant, PolicyTypes, LetGo
<1>2. PICK r \in {over, releasing} : req' = Disturbed(r)
    BY DEF LetGo
<1>3. /\ Nobody \in RequestRecord
      /\ [Nobody EXCEPT !.op = "releasing"] \in RequestRecord
    BY DEF Nobody, RequestRecord, Operation
<1>4. r \in [Caller -> RequestRecord] /\ \A d \in Caller : d # c => r[d] = req[d]
    BY <1>1, <1>3
<1>5. \A d \in Caller : d # c => req'[d].op = req[d].op
    BY <1>2, <1>4, DisturbedMarks
<1>6. /\ SessionTypes' /\ entry' = 0 /\ UNCHANGED attempt
      /\ \A d \in Caller : d # c => call'[d] = call[d]
    <2>1. CASE entry = 0
        BY <1>1, <2>1 DEF LetGo, vars, SessionTypes
    <2>2. CASE entry # 0
        BY <1>1, <2>2, ReleaseSessionDoes DEF LetGo
    <2> QED BY <2>1, <2>2
<1> QED BY <1>1, <1>5, <1>6, QuietKeepsRoots

LEMMA EndsKeepRoots ==
    ASSUME RootsInvariant, PolicyTypes, NEW c \in Caller,
           MountFails(c) \/ Releases(c) \/ \E i \in Instance : Unmount(c, i)
    PROVE  RootsInvariant'
<1>1. SessionTypes /\ req \in [Caller -> RequestRecord] /\ unannounced \in BOOLEAN
    BY DEF RootsInvariant, PolicyTypes
<1>2. UNCHANGED <<known, news>> /\ req[c].op # "telling"
    BY DEF MountFails, Releases, Unmount, Starts, Nobody
<1>3. CASE LetGo(c)
    BY <1>2, <1>3, LetGoKeepsRoots
<1>4. CASE Releases(c)
    <2>1. \A d \in Caller : d # c => req'[d].op = req[d].op
        BY <1>1, <1>4 DEF Releases
    <2>2. ReleaseReturns(c) /\ UNCHANGED <<policy, unannounced>>
        BY <1>4 DEF Releases
    <2>3. /\ SessionTypes' /\ UNCHANGED entry
          /\ \A n \in Attempt : attempt'[n] = attempt[n] \/ attempt'[n] = "closed"
          /\ \A d \in Caller : d # c => call'[d] = call[d]
        BY <1>1, <2>2, ReleaseReturnsDoes
    <2> QED BY <1>1, <1>2, <2>1, <2>2, <2>3, QuietKeepsRoots
<1>5. ASSUME UNCHANGED <<vars, policy, unannounced>>,
             \A d \in Caller : d # c => req'[d].op = req[d].op
      PROVE  RootsInvariant'
    BY <1>1, <1>2, <1>5, QuietKeepsRoots DEF vars, SessionTypes
<1>6. CASE MountFails(c) /\ ~LetGo(c)
    BY <1>1, <1>5, <1>6 DEF MountFails
<1>7. CASE (\E i \in Instance : Unmount(c, i)) /\ ~LetGo(c)
    BY <1>5, <1>7 DEF Unmount
<1> QED BY <1>3, <1>4, <1>6, <1>7

\* PUT .../roots either is about to tell, or owes nobody a notification.
LEMMA SetRootsKeepsRoots ==
    ASSUME RootsInvariant, PolicyTypes, NEW c \in Caller, NEW i, NEW list, SetRoots(c, i, list)
    PROVE  RootsInvariant'
<1> DEFINE told == [req EXCEPT ![c] = [Nobody EXCEPT !.op = "telling"]]
<1>1. SessionTypes /\ req \in [Caller -> RequestRecord] /\ unannounced \in BOOLEAN
    BY DEF RootsInvariant, PolicyTypes
<1>2. UNCHANGED <<known, news>> /\ req[c].op # "telling"
    BY DEF SetRoots, Patched, Starts, Nobody
<1>3. CASE policy.rootsEnabled /\ policy.listChanged
    <2>1. GetSession(c) /\ req' = Disturbed(told) /\ UNCHANGED unannounced
        BY <1>3 DEF SetRoots, Patched, Asks
    <2>2. [Nobody EXCEPT !.op = "telling"] \in RequestRecord
          /\ [Nobody EXCEPT !.op = "telling"].op = "telling"
        BY DEF Nobody, RequestRecord, Operation
    <2>3. /\ told \in [Caller -> RequestRecord] /\ told[c].op = "telling"
          /\ \A d \in Caller : d # c => told[d] = req[d]
        BY <1>1, <2>2
    <2>4. req'[c].op = "telling" /\ \A d \in Caller : d # c => req'[d].op = req[d].op
        BY <2>1, <2>3, DisturbedMarks
    <2> QED BY <1>1, <1>2, <2>1, <2>4, AskKeepsRoots
<1>4. CASE ~(policy.rootsEnabled /\ policy.listChanged)
    <2>1. UNCHANGED vars /\ unannounced' = TRUE /\ req' = Disturbed(req)
        BY <1>4 DEF SetRoots, Patched
    <2>2. \A d \in Caller : req'[d].op = req[d].op
        BY <1>1, <2>1, DisturbedMarks
    <2> QED BY <1>1, <1>2, <2>1, <2>2, QuietKeepsRoots DEF vars, SessionTypes
<1> QED BY <1>3, <1>4

\* PATCH leaves the roots alone.
LEMMA ConfigureKeepsRoots ==
    ASSUME RootsInvariant, PolicyTypes, NEW c \in Caller, NEW i, NEW patch \in Patch,
           Configure(c, i, patch)
    PROVE  RootsInvariant'
<1>1. SessionTypes /\ req \in [Caller -> RequestRecord] /\ unannounced \in BOOLEAN
    BY DEF RootsInvariant, PolicyTypes
<1>2. UNCHANGED <<vars, known, news, unannounced>> /\ req' = Disturbed(req)
    BY DEF Configure, Patched
<1>3. policy'["roots"] = policy["roots"]
    <2>1. "roots" \notin DOMAIN patch /\ "roots" \in Field
        BY PolicyAssumption DEF Field
    <2> QED BY <2>1, MergedKeeps DEF Configure, Patched
<1>4. \A d \in Caller : req'[d].op = req[d].op
    BY <1>1, <1>2, DisturbedMarks
<1> QED BY <1>1, <1>2, <1>3, <1>4, QuietKeepsRoots DEF vars, SessionTypes

\* A notification goes out over the connection that it was asked for, or the
\* client learns that it does not.
LEMMA TellKeepsRoots ==
    ASSUME RootsInvariant, PolicyTypes, NEW c \in Caller, Tell(c)
    PROVE  RootsInvariant'
<1> DEFINE n == call[c].awaits
<1>1. /\ SessionTypes /\ req \in [Caller -> RequestRecord] /\ unannounced \in BOOLEAN
      /\ DOMAIN news = Attempt
    BY DEF RootsInvariant, PolicyTypes
<1>2. /\ SessionTypes' /\ UNCHANGED <<entry, attempt>>
      /\ \A d \in Caller : d # c => call'[d] = call[d]
    BY <1>1, GetReturnsDoes DEF Tell
<1>3. /\ req' = [req EXCEPT ![c] = Nobody] /\ UNCHANGED <<policy, known>>
      /\ \/ attempt[n] = "open" /\ news' = [news EXCEPT ![n] = TRUE]
            /\ UNCHANGED unannounced
         \/ unannounced' = TRUE /\ UNCHANGED news
    BY DEF Tell
<1>4. \A d \in Caller : d # c => req'[d] = req[d]
    BY <1>1, <1>3
<1>5. ASSUME NEW m \in Attempt, attempt'[m] = "open", entry' = m, known'[m] # Unread,
             ~unannounced'
      PROVE  \/ known'[m] = policy'.roots
             \/ news'[m]
             \/ \E d \in Caller :
                    req'[d].op = "telling" /\ call'[d] = [op |-> "get", awaits |-> m]
    <2>1. news' = [news EXCEPT ![n] = TRUE] /\ unannounced' = unannounced
        BY <1>3, <1>5
    <2>2. \/ known[m] = policy.roots
          \/ news[m]
          \/ \E d \in Caller : req[d].op = "telling" /\ call[d] = [op |-> "get", awaits |-> m]
        BY <1>2, <1>3, <1>5, <2>1 DEF RootsInvariant, ReadOrBeingTold
    <2>3. CASE known[m] = policy.roots
        BY <1>3, <2>3
    <2>4. CASE news[m]
        BY <1>1, <2>1, <2>4
    <2>5. ASSUME NEW d \in Caller, req[d].op = "telling",
                 call[d] = [op |-> "get", awaits |-> m]
          PROVE  \/ news'[m]
                 \/ req'[d].op = "telling" /\ call'[d] = [op |-> "get", awaits |-> m]
        BY <1>1, <1>2, <1>4, <2>1, <2>5
    <2> QED BY <2>2, <2>3, <2>4, <2>5
<1>6. DOMAIN known' = Attempt /\ DOMAIN news' = Attempt /\ unannounced' \in BOOLEAN
    BY <1>1, <1>3 DEF RootsInvariant
<1>7. NothingReadYet'
    BY <1>2, <1>3 DEF RootsInvariant, NothingReadYet
<1>8. ReadOrBeingTold'
    BY <1>5 DEF ReadOrBeingTold
<1> QED BY <1>2, <1>6, <1>7, <1>8 DEF RootsInvariant

\* A server that reads the roots has those of the moment.
LEMMA ReadKeepsRoots ==
    ASSUME RootsInvariant, NEW n \in Attempt, ReadsRoots(n)
    PROVE  RootsInvariant'
<1>1. /\ attempt[n] = "open" /\ known' = [known EXCEPT ![n] = policy.roots]
      /\ news' = [news EXCEPT ![n] = FALSE]
      /\ UNCHANGED <<entry, attempt, call, policy, req, unannounced>>
    BY DEF ReadsRoots, RootsListed, vars
<1>2. /\ DOMAIN known = Attempt /\ DOMAIN news = Attempt
      /\ known'[n] = policy.roots
      /\ \A m \in Attempt : m # n => known'[m] = known[m] /\ news'[m] = news[m]
    BY <1>1 DEF RootsInvariant
<1>3. NothingReadYet'
    BY <1>1, <1>2 DEF RootsInvariant, NothingReadYet
<1>4. ReadOrBeingTold'
    BY <1>1, <1>2 DEF RootsInvariant, ReadOrBeingTold
<1> QED BY <1>1, <1>3, <1>4 DEF RootsInvariant, SessionTypes

LEMMA RootsInvariantInit == ASSUME PolicyInit PROVE RootsInvariant
BY DEF PolicyInit, Init, RootsInvariant, SessionTypes, Status, Call, Idle,
       NothingReadYet, ReadOrBeingTold

LEMMA RootsInvariantStep ==
    ASSUME RootsInvariant, PolicyTypes, [PolicyNext]_allVars
    PROVE  RootsInvariant'
<1>1. ASSUME NEW c \in Caller, Serve(c)
      PROVE  RootsInvariant'
    BY <1>1, MountStepsKeepRoots, EndsKeepRoots, TellKeepsRoots DEF Serve
<1>2. ASSUME NEW c \in Caller, NEW i \in Instance, NEW patch \in MountPatch,
             BeginMount(c, i, patch)
      PROVE  RootsInvariant'
    BY <1>2, MountStepsKeepRoots
<1>3. ASSUME NEW c \in Caller, NEW i \in Instance, Unmount(c, i)
      PROVE  RootsInvariant'
    BY <1>3, EndsKeepRoots
<1>4. ASSUME NEW c \in Caller, NEW i \in Instance, NEW list \in RootList, SetRoots(c, i, list)
      PROVE  RootsInvariant'
    BY <1>4, SetRootsKeepsRoots
<1>5. ASSUME NEW c \in Caller, NEW i \in Instance, NEW patch \in Patch, Configure(c, i, patch)
      PROVE  RootsInvariant'
    BY <1>5, ConfigureKeepsRoots
<1>6. ASSUME NEW n \in Attempt, ReadsRoots(n)
      PROVE  RootsInvariant'
    BY <1>6, ReadKeepsRoots
<1>7. ASSUME NEW n \in Attempt, Wire(n)
      PROVE  RootsInvariant'
    <2>1. SessionTypes /\ unannounced \in BOOLEAN
        BY DEF RootsInvariant
    <2>2. /\ SessionTypes' /\ UNCHANGED <<call, policyVars>>
          /\ entry' \in {entry, 0}
          /\ \A m \in Attempt : \/ attempt'[m] = attempt[m]
                                \/ attempt[m] = "connecting" /\ attempt'[m] = "open"
                                \/ attempt'[m] \in {"failed", "dead"}
        BY <1>7, <2>1, WireDoes
    <2> QED BY <2>1, <2>2, QuietKeepsRoots DEF policyVars
<1>8. CASE UNCHANGED allVars
    BY <1>8 DEF allVars, vars, policyVars, RootsInvariant, SessionTypes, NothingReadYet,
                ReadOrBeingTold
<1> QED BY <1>1, <1>2, <1>3, <1>4, <1>5, <1>6, <1>7, <1>8 DEF PolicyNext

\* A server that has read the roots knows those of the moment or is being told,
\* for any number of clients, changes and connections, made and lost.
THEOREM RootsAreKnown == PolicySpec => []RootsReachServer
<1>1. PolicyInit => RootsInvariant
    BY RootsInvariantInit
<1>2. PolicyInvariant => PolicyTypes
    BY DEF PolicyInvariant
<1>3. RootsInvariant /\ PolicyTypes /\ [PolicyNext]_allVars => RootsInvariant'
    BY RootsInvariantStep
<1>4. RootsInvariant => RootsReachServer
    BY DEF RootsInvariant, ReadOrBeingTold, RootsReachServer
<1> QED BY <1>1, <1>2, <1>3, <1>4, PolicyIsInvariant, PTL DEF PolicySpec
-----------------------------------------------------------------------------
(* Inspections: the sessions they share.                                   *)

\* What an inspection does to the connections is a step of the factory's.
FactoryStep ==
    \/ \E c \in Caller :
           GetSession(c) \/ GetReturns(c) \/ ReleaseSession(c) \/ ReleaseReturns(c)
    \/ \E n \in Attempt : Connected(n) \/ ConnectFails(n) \/ Dies(n)

LEMMA InspectionsUseTheFactory ==
    ASSUME [InspNext]_inspAllVars
    PROVE  [FactoryStep]_vars
BY DEF InspNext, InspStep, Begins, Opened, ToolsPage, ToolsFail, ResourcesPage, ResourcesFail,
       Closes, Closed, Opens, SpawnFails, Refuses, ServerDies, TransportFails, FactoryStep,
       inspAllVars, vars

\* Who releases an attempt has taken it out of the map, and it does not come back.
EntryIsNotReleased ==
    \A c \in Caller : call[c].op = "release" => call[c].awaits # entry

LEMMA FactoryTypesKept ==
    ASSUME TypeOK, EntryIsNotReleased, [FactoryStep]_vars
    PROVE  TypeOK' /\ EntryIsNotReleased'
<1>1. SessionTypes
    BY DEF TypeOK, SessionTypes
<1>2. ASSUME NEW c \in Caller, GetSession(c)
      PROVE  TypeOK' /\ EntryIsNotReleased'
  <2>1. /\ SessionTypes' /\ call[c] = Idle
        /\ entry' # 0 /\ call'[c] = [op |-> "get", awaits |-> entry']
        /\ \A d \in Caller : d # c => call'[d] = call[d]
        /\ entry # 0 => entry' = entry /\ attempt' = attempt
        /\ entry = 0 => /\ attempt[entry'] = "unused" /\ attempt'[entry'] = "connecting"
                        /\ \A n \in Attempt : n # entry' => attempt'[n] = attempt[n]
      BY <1>1, <1>2, GetSessionDoes
  <2>2. entry' \in Attempt
      BY <2>1 DEF SessionTypes
  <2>3. \A n \in Attempt : attempt[n] # "unused" => attempt'[n] = attempt[n]
      BY <2>1
  <2>4. \A d \in Caller : call[d].op # "idle" =>
            call[d].awaits \in Attempt /\ attempt[call[d].awaits] # "unused"
      BY DEF TypeOK, Call
  <2>5. attempt'[entry'] \in {"connecting", "open", "dead"}
      BY <2>1 DEF TypeOK
  <2>6. \A d \in Caller : call'[d].op # "idle" =>
            call'[d].awaits # 0 /\ attempt'[call'[d].awaits] # "unused"
      BY <2>1, <2>3, <2>4, <2>5 DEF TypeOK
  <2>7. ASSUME NEW d \in Caller, call'[d].op = "release" PROVE call'[d].awaits # entry'
    <3>1. d # c /\ call'[d] = call[d]
        BY <2>1, <2>7
    <3>2. call[d].awaits # entry /\ attempt[call[d].awaits] # "unused"
        BY <2>4, <2>7, <3>1 DEF EntryIsNotReleased
    <3> QED BY <2>1, <3>1, <3>2
  <2> QED BY <2>1, <2>5, <2>6, <2>7 DEF TypeOK, SessionTypes, EntryIsNotReleased
<1>3. ASSUME NEW c \in Caller, GetReturns(c)
      PROVE  TypeOK' /\ EntryIsNotReleased'
    BY <1>3 DEF GetReturns, TypeOK, Call, Idle, EntryIsNotReleased
<1>4. ASSUME NEW c \in Caller, ReleaseSession(c)
      PROVE  TypeOK' /\ EntryIsNotReleased'
  <2>1. /\ entry' = 0 /\ UNCHANGED attempt /\ entry \in Attempt
        /\ call' = [call EXCEPT ![c] = [op |-> "release", awaits |-> entry]]
      BY <1>4 DEF ReleaseSession, TypeOK
  <2>2. call' \in [Caller -> Call]
      BY <2>1 DEF TypeOK, Call
  <2>3. \A d \in Caller : call'[d].op # "idle" =>
            call'[d].awaits # 0 /\ attempt[call'[d].awaits] # "unused"
      BY <2>1, FactoryAssumption DEF TypeOK, Attempt
  <2> QED BY <2>1, <2>2, <2>3 DEF TypeOK, EntryIsNotReleased
<1>5. ASSUME NEW c \in Caller, ReleaseReturns(c)
      PROVE  TypeOK' /\ EntryIsNotReleased'
  <2> DEFINE n == call[c].awaits
  <2>1. n # entry /\ n \in Attempt
      BY <1>5 DEF ReleaseReturns, EntryIsNotReleased, TypeOK, Call
  <2>2. /\ \A m \in Attempt : m # n => attempt'[m] = attempt[m]
        /\ attempt' \in [Attempt -> Status]
        /\ \A m \in Attempt : attempt[m] # "unused" => attempt'[m] # "unused"
      BY <1>5, <2>1 DEF ReleaseReturns, TypeOK, Status
  <2>3. call' = [call EXCEPT ![c] = Idle] /\ entry' = entry
      BY <1>5 DEF ReleaseReturns
  <2> QED BY <2>1, <2>2, <2>3 DEF TypeOK, EntryIsNotReleased, Call, Idle
<1>6. ASSUME NEW n \in Attempt, Connected(n) \/ ConnectFails(n) \/ Dies(n)
      PROVE  TypeOK' /\ EntryIsNotReleased'
  <2>1. /\ call' = call /\ entry' \in {0, entry}
        /\ attempt' \in [Attempt -> Status]
        /\ \A m \in Attempt : attempt[m] # "unused" => attempt'[m] # "unused"
      BY <1>6 DEF Connected, ConnectFails, Dies, Forget, TypeOK, Status
  <2>2. entry' # 0 => attempt'[entry'] \in {"connecting", "open", "dead"}
      BY <1>6 DEF Connected, ConnectFails, Dies, Forget, TypeOK
  <2>3. \A c \in Caller : call[c].op # "idle" => call[c].awaits \in Attempt
      BY DEF TypeOK, Call
  <2>4. \A c \in Caller : call[c].op = "release" => call[c].awaits # 0
      BY DEF TypeOK
  <2>5. TypeOK'
      BY <2>1, <2>2, <2>3 DEF TypeOK
  <2> QED BY <2>1, <2>4, <2>5 DEF EntryIsNotReleased
<1>7. CASE UNCHANGED vars
    BY <1>7 DEF vars, TypeOK, EntryIsNotReleased
<1> QED BY <1>2, <1>3, <1>4, <1>5, <1>6, <1>7 DEF FactoryStep

-----------------------------------------------------------------------------
(* Inspections: two at a time.                                             *)

\* As many inspections as cannot get into each other's way.
TwoAtMost == \E a, b : Caller \subseteq {a, b}

\* Whoever started an attempt waits for it.
ConnectingIsAwaited ==
    \A n \in Attempt : attempt[n] = "connecting" =>
        \E c \in Caller : call[c].op = "get" /\ call[c].awaits = n

\* A connection is in the map or being released.
ConnectionsAreOwned ==
    \A n \in Attempt : attempt[n] \in {"connecting", "open", "dead"} =>
        entry = n \/ \E c \in Caller : call[c].op = "release" /\ call[c].awaits = n

\* No attempt can fail while the map holds another: it would delete its entry.
NobodyElseConnects ==
    \A n \in Attempt : attempt[n] = "connecting" => entry \in {0, n}

\* Attempts are used in turn, and the map holds the newest.
NewestIsHeld ==
    /\ \A m, n \in Attempt : m < n /\ attempt[m] = "unused" => attempt[n] = "unused"
    /\ entry # 0 => \A n \in Attempt : entry < n => attempt[n] = "unused"

SessionsInvariant ==
    /\ TypeOK /\ EntryIsNotReleased
    /\ ConnectingIsAwaited /\ ConnectionsAreOwned /\ NobodyElseConnects /\ NewestIsHeld

\* A caller who finds the map empty finds nobody connecting: the one who started
\* it and the one who took it out of the map would be two others.
LEMMA AskersFindNobodyConnecting ==
    ASSUME TwoAtMost, SessionsInvariant, entry = 0, NEW c \in Caller, call[c] = Idle,
           NEW n \in Attempt
    PROVE  attempt[n] # "connecting"
<1> SUFFICES ASSUME attempt[n] = "connecting" PROVE FALSE
    OBVIOUS
<1>1. PICK d \in Caller : call[d].op = "get"
    BY DEF SessionsInvariant, ConnectingIsAwaited
<1>2. n # entry
    BY FactoryAssumption DEF Attempt
<1>3. PICK e \in Caller : call[e].op = "release"
    BY <1>2 DEF SessionsInvariant, ConnectionsAreOwned
<1>4. c # d /\ c # e /\ d # e
    BY <1>1, <1>3 DEF Idle
<1> QED BY <1>1, <1>3, <1>4 DEF TwoAtMost

LEMMA SessionsInvariantInit == ASSUME Init PROVE SessionsInvariant
BY FactoryAssumption DEF Init, SessionsInvariant, TypeOK, Status, Call, Idle, EntryIsNotReleased,
   ConnectingIsAwaited, ConnectionsAreOwned, NobodyElseConnects, NewestIsHeld

\* Asking, with the map empty or not.
LEMMA AskingKeepsSessions ==
    ASSUME TwoAtMost, SessionsInvariant, NEW c \in Caller, GetSession(c)
    PROVE  SessionsInvariant'
<1>1. SessionTypes /\ TypeOK /\ EntryIsNotReleased
    BY DEF SessionsInvariant, TypeOK, SessionTypes
<1>2. /\ SessionTypes' /\ call[c] = Idle
      /\ entry' # 0 /\ call'[c] = [op |-> "get", awaits |-> entry']
      /\ \A d \in Caller : d # c => call'[d] = call[d]
      /\ entry # 0 => entry' = entry /\ attempt' = attempt
      /\ entry = 0 => /\ attempt[entry'] = "unused" /\ attempt'[entry'] = "connecting"
                      /\ \A n \in Attempt : n # entry' => attempt'[n] = attempt[n]
    BY <1>1, GetSessionDoes
<1>3. TypeOK' /\ EntryIsNotReleased'
    BY <1>1, FactoryTypesKept DEF FactoryStep
<1>4. entry' \in Attempt
    BY <1>2 DEF SessionTypes
<1>5. \A d \in Caller : call[d].op # "idle" => call'[d] = call[d]
    BY <1>2 DEF Idle
<1>6. CASE entry # 0
  <2>1. entry' = entry /\ attempt' = attempt
      BY <1>2, <1>6
  <2> QED BY <1>3, <1>5, <2>1 DEF SessionsInvariant, ConnectingIsAwaited, ConnectionsAreOwned,
                                  NobodyElseConnects, NewestIsHeld
<1>7. CASE entry = 0
  <2>1. /\ attempt[entry'] = "unused" /\ attempt'[entry'] = "connecting"
        /\ \A n \in Attempt : n # entry' => attempt'[n] = attempt[n]
      BY <1>2, <1>7
  <2>2. \A n \in Attempt : attempt[n] # "connecting"
      BY <1>2, <1>7, AskersFindNobodyConnecting
  <2>3. ConnectingIsAwaited' /\ NobodyElseConnects'
      BY <1>2, <2>1, <2>2 DEF ConnectingIsAwaited, NobodyElseConnects
  <2>4. ConnectionsAreOwned'
    <3>1. ASSUME NEW n \in Attempt, n # entry', attempt'[n] \in {"connecting", "open", "dead"}
          PROVE  \E d \in Caller : call'[d].op = "release" /\ call'[d].awaits = n
      <4>1. n # entry /\ attempt[n] \in {"connecting", "open", "dead"}
          BY <1>7, <2>1, <3>1, FactoryAssumption DEF Attempt
      <4> QED BY <1>5, <4>1 DEF SessionsInvariant, ConnectionsAreOwned
    <3> QED BY <3>1 DEF ConnectionsAreOwned
  <2>5. NewestIsHeld'
    <3>1. entry' \in Unused /\ \A m \in Unused : entry' <= m
      <4>1. Unused # {} /\ entry' = NextAttempt
          BY <1>7 DEF GetSession
      <4> QED BY <4>1, NextIsUnused
    <3>2. ASSUME NEW n \in Attempt, entry' < n PROVE attempt'[n] = "unused"
      <4>1. attempt[n] = "unused"
          BY <1>4, <2>1, <3>2 DEF SessionsInvariant, NewestIsHeld
      <4> QED BY <1>4, <2>1, <3>2, <4>1, FactoryAssumption DEF Attempt
    <3>3. ASSUME NEW m \in Attempt, NEW n \in Attempt, m < n, attempt'[m] = "unused"
          PROVE  attempt'[n] = "unused"
      <4>1. attempt[m] = "unused" /\ m # entry'
          BY <2>1, <3>3
      <4>2. entry' < n
          BY <1>4, <3>1, <3>3, <4>1, FactoryAssumption DEF Unused, Attempt
      <4> QED BY <3>2, <4>2
    <3> QED BY <3>2, <3>3 DEF NewestIsHeld
  <2> QED BY <1>3, <2>3, <2>4, <2>5 DEF SessionsInvariant
<1> QED BY <1>6, <1>7

\* Every other step of the factory, for any number of callers.
LEMMA UsingKeepsSessions ==
    ASSUME SessionsInvariant,
           \/ \E c \in Caller : GetReturns(c) \/ ReleaseSession(c) \/ ReleaseReturns(c)
           \/ \E n \in Attempt : Connected(n) \/ ConnectFails(n) \/ Dies(n)
           \/ UNCHANGED vars
    PROVE  SessionsInvariant'
<1>1. TypeOK /\ EntryIsNotReleased
    BY DEF SessionsInvariant
<1>2. TypeOK' /\ EntryIsNotReleased'
    BY <1>1, FactoryTypesKept DEF FactoryStep
<1>3. ASSUME NEW c \in Caller, GetReturns(c)
      PROVE  SessionsInvariant'
  <2>1. /\ entry' = entry /\ attempt' = attempt
        /\ call[c].op = "get" /\ attempt[call[c].awaits] # "connecting"
        /\ \A d \in Caller : d # c => call'[d] = call[d]
      BY <1>1, <1>3 DEF GetReturns, TypeOK
  <2>2. ConnectingIsAwaited'
      BY <2>1 DEF SessionsInvariant, ConnectingIsAwaited
  <2>3. ConnectionsAreOwned'
      BY <2>1 DEF SessionsInvariant, ConnectionsAreOwned
  <2> QED BY <1>2, <2>1, <2>2, <2>3 DEF SessionsInvariant, NobodyElseConnects, NewestIsHeld
<1>4. ASSUME NEW c \in Caller, ReleaseSession(c)
      PROVE  SessionsInvariant'
  <2>1. /\ entry' = 0 /\ attempt' = attempt /\ call[c].op = "idle"
        /\ call'[c] = [op |-> "release", awaits |-> entry]
        /\ \A d \in Caller : d # c => call'[d] = call[d]
      BY <1>1, <1>4 DEF ReleaseSession, TypeOK, Idle
  <2>2. ConnectingIsAwaited'
      BY <2>1 DEF SessionsInvariant, ConnectingIsAwaited
  <2>3. ConnectionsAreOwned'
    <3>1. ASSUME NEW n \in Attempt, attempt[n] \in {"connecting", "open", "dead"}
          PROVE  \E d \in Caller : call'[d].op = "release" /\ call'[d].awaits = n
      <4>1. CASE entry = n
          BY <2>1, <4>1
      <4>2. CASE entry # n
        <5>1. PICK d \in Caller : call[d].op = "release" /\ call[d].awaits = n
            BY <3>1, <4>2 DEF SessionsInvariant, ConnectionsAreOwned
        <5> QED BY <2>1, <5>1
      <4> QED BY <4>1, <4>2
    <3> QED BY <2>1, <3>1 DEF ConnectionsAreOwned
  <2> QED BY <1>2, <2>1, <2>2, <2>3 DEF SessionsInvariant, NobodyElseConnects, NewestIsHeld
<1>5. ASSUME NEW c \in Caller, ReleaseReturns(c)
      PROVE  SessionsInvariant'
  <2> DEFINE n == call[c].awaits
  <2>1. /\ n \in Attempt /\ attempt[n] # "connecting" /\ attempt[n] # "unused"
        /\ call[c].op = "release" /\ entry' = entry
        /\ \A d \in Caller : d # c => call'[d] = call[d]
      BY <1>1, <1>5 DEF ReleaseReturns, TypeOK, Call
  <2>2. /\ attempt'[n] \in {"closed", "failed"}
        /\ \A m \in Attempt : m # n => attempt'[m] = attempt[m]
      BY <1>1, <1>5, <2>1 DEF ReleaseReturns, TypeOK, Status
  <2>3. ConnectingIsAwaited'
      BY <2>1, <2>2 DEF SessionsInvariant, ConnectingIsAwaited
  <2>4. ConnectionsAreOwned'
      BY <2>1, <2>2 DEF SessionsInvariant, ConnectionsAreOwned
  <2>5. NobodyElseConnects' /\ NewestIsHeld'
      BY <2>1, <2>2 DEF SessionsInvariant, NobodyElseConnects, NewestIsHeld
  <2> QED BY <1>2, <2>3, <2>4, <2>5 DEF SessionsInvariant
<1>6. ASSUME NEW n \in Attempt, Connected(n) \/ Dies(n)
      PROVE  SessionsInvariant'
  <2>1. /\ entry' = entry /\ call' = call
        /\ attempt[n] \in {"connecting", "open"} /\ attempt'[n] \in {"open", "dead"}
        /\ \A m \in Attempt : m # n => attempt'[m] = attempt[m]
      BY <1>1, <1>6 DEF Connected, Dies, TypeOK
  <2> QED BY <1>2, <2>1 DEF SessionsInvariant, ConnectingIsAwaited, ConnectionsAreOwned,
                           NobodyElseConnects, NewestIsHeld
<1>7. ASSUME NEW n \in Attempt, ConnectFails(n)
      PROVE  SessionsInvariant'
  <2>1. /\ entry' = 0 /\ call' = call
        /\ attempt[n] = "connecting" /\ attempt'[n] = "failed"
        /\ \A m \in Attempt : m # n => attempt'[m] = attempt[m]
      BY <1>1, <1>7 DEF ConnectFails, Forget, TypeOK
  <2>2. entry \in {0, n}
      BY <2>1 DEF SessionsInvariant, NobodyElseConnects
  <2>3. ConnectionsAreOwned'
    <3>1. ASSUME NEW m \in Attempt, attempt'[m] \in {"connecting", "open", "dead"}
          PROVE  \E d \in Caller : call'[d].op = "release" /\ call'[d].awaits = m
      <4>1. m # n /\ m # entry
          BY <2>1, <2>2, <3>1, FactoryAssumption DEF Attempt
      <4> QED BY <2>1, <3>1, <4>1 DEF SessionsInvariant, ConnectionsAreOwned
    <3> QED BY <3>1 DEF ConnectionsAreOwned
  <2> QED BY <1>2, <2>1, <2>3 DEF SessionsInvariant, ConnectingIsAwaited, NobodyElseConnects,
                                  NewestIsHeld
<1>8. CASE UNCHANGED vars
    BY <1>2, <1>8 DEF vars, SessionsInvariant, ConnectingIsAwaited, ConnectionsAreOwned,
                      NobodyElseConnects, NewestIsHeld
<1> QED BY <1>3, <1>4, <1>5, <1>6, <1>7, <1>8

LEMMA SessionsAreInvariant == TwoAtMost => (InspSpec => []SessionsInvariant)
<1> SUFFICES ASSUME TwoAtMost PROVE InspSpec => []SessionsInvariant
    OBVIOUS
<1>1. InspInit => SessionsInvariant
    BY SessionsInvariantInit DEF InspInit
<1>2. ASSUME SessionsInvariant, [InspNext]_inspAllVars PROVE SessionsInvariant'
  <2>1. [FactoryStep]_vars
      BY <1>2, InspectionsUseTheFactory
  <2> QED BY <1>2, <2>1, AskingKeepsSessions, UsingKeepsSessions DEF FactoryStep
<1> QED BY <1>1, <1>2, PTL DEF InspSpec

\* With at most two inspections at a time, a server is connected to once, however
\* often: of two connections, the older one is being released.
THEOREM TwoConnectOnce == TwoAtMost => (InspSpec => []OneConnection)
<1> SUFFICES ASSUME TwoAtMost PROVE InspSpec => []OneConnection
    OBVIOUS
<1>1. ASSUME SessionsInvariant PROVE OneConnection
  <2>1. ASSUME NEW m \in Attempt, NEW n \in Attempt, m < n,
               attempt[m] \in {"connecting", "open"}, attempt[n] \in {"connecting", "open"}
        PROVE  \E c \in Caller : call[c].op = "release" /\ call[c].awaits = m
    <3>1. m # entry
        BY <1>1, <2>1, FactoryAssumption DEF SessionsInvariant, NewestIsHeld, Attempt
    <3> QED BY <1>1, <2>1, <3>1 DEF SessionsInvariant, ConnectionsAreOwned
  <2> QED BY <2>1 DEF OneConnection
<1> QED BY <1>1, SessionsAreInvariant, PTL

-----------------------------------------------------------------------------
(* Inspections: what they leave, and what they have read.                  *)

\* An inspection that reads or has ended awaits nothing of the factory, and the
\* map holds a session for as long as somebody inspects.
SessionsAreUsed ==
    /\ \A c \in Caller : insp[c].at \notin {"opening", "releasing"} => call[c] = Idle
    /\ entry # 0 => \E c \in Caller : insp[c].at \notin {"idle", "releasing"}

\* What an inspection has read is all that it has met but its cursor, and when it
\* is through with the tools, everything that they lead to.
Tracked(i) ==
    LET met == i.visited \cup {0} IN
    /\ i.at = "opening" => i.cursor = 0 /\ i.visited = {} /\ i.tools = {}
    /\ i.at = "tools" => /\ i.cursor \in met /\ i.tools = met \ {i.cursor}
                         /\ \A p \in i.tools : After[p] \in met
    /\ i.at \in {"resources", "closing", "releasing"} /\ i.code = "none" =>
           0 \in i.tools /\ \A p \in i.tools : After[p] \in i.tools

\* An attempt that has not ended has a transport left to try.
TransportsRemain ==
    \A n \in Attempt : attempt[n] \in {"unused", "connecting"} => tries[n] \in 0..1

InspInvariant ==
    /\ InspTypeOK /\ EntryIsNotReleased /\ TransportsRemain /\ SessionsAreUsed
    /\ \A c \in Caller : Tracked(insp[c])

\* One more page of the tools, the last or not.
LEMMA ToolsPageTracked ==
    ASSUME NEW i \in InspectionRecord, i.at = "tools", Tracked(i)
    PROVE  LET j == [i EXCEPT !.tools = @ \cup {i.cursor}]
               k == IF LastPage(j)
                    THEN [j EXCEPT !.at = "resources", !.cursor = 0, !.visited = {}]
                    ELSE NextPage(j) IN
           k \in InspectionRecord /\ Tracked(k)
<1> DEFINE j == [i EXCEPT !.tools = @ \cup {i.cursor}]
           over == [j EXCEPT !.at = "resources", !.cursor = 0, !.visited = {}]
           next == [j EXCEPT !.cursor = After[j.cursor], !.visited = @ \cup {After[j.cursor]}]
           met == i.visited \cup {0}
           q == After[i.cursor]
<1>1. /\ i.cursor \in Page /\ i.visited \in SUBSET Page /\ i.tools \in SUBSET Page
      /\ 0 \in Page /\ q \in Page
    BY InspectionAssumption DEF InspectionRecord, Page
<1>2. i.cursor \in met /\ i.tools = met \ {i.cursor} /\ \A p \in i.tools : After[p] \in met
    BY DEF Tracked
<1>3. /\ j \in InspectionRecord
      /\ j.at = "tools" /\ j.cursor = i.cursor /\ j.visited = i.visited /\ j.tools = met
    BY <1>1, <1>2 DEF InspectionRecord
<1>4. /\ over \in InspectionRecord /\ over.at = "resources" /\ over.tools = met
      /\ next \in InspectionRecord /\ next.at = "tools" /\ next.cursor = q
      /\ next.visited = i.visited \cup {q} /\ next.tools = met
    BY <1>1, <1>3 DEF InspectionRecord
<1> HIDE DEF j, over, next
<1>5. CASE q \in met
  <2>1. LastPage(j)
      BY <1>3, <1>5 DEF LastPage
  <2>2. Tracked(over)
      BY <1>2, <1>4, <1>5 DEF Tracked
  <2> QED BY <1>4, <2>1, <2>2 DEF j, over
<1>6. CASE q \notin met
  <2>1. ~LastPage(j)
      BY <1>3, <1>6 DEF LastPage
  <2>2. Tracked(next)
      BY <1>2, <1>4, <1>6 DEF Tracked
  <2>3. NextPage(j) = next
      BY DEF NextPage, next
  <2> QED BY <1>4, <2>1, <2>2, <2>3 DEF j
<1> QED BY <1>5, <1>6

\* A step of an inspection changes its own record only, which stays one of an
\* inspection that tracks its pages.
LEMMA InspectionGoesOn ==
    ASSUME TypeOK, NEW c \in Caller, insp \in [Caller -> InspectionRecord],
           Tracked(insp[c]), Begins(c) \/ InspStep(c)
    PROVE  \E i \in InspectionRecord : insp' = [insp EXCEPT ![c] = i] /\ Tracked(i)
<1> DEFINE old == insp[c]
<1>1. old \in InspectionRecord /\ call[c].awaits \in {0} \cup Attempt
    BY DEF TypeOK, Call
<1>2. 0 \in Page
    BY InspectionAssumption DEF Page
<1>3. CASE Begins(c)
  <2> DEFINE new == [NoInspection EXCEPT !.at = "opening"]
  <2>1. new \in InspectionRecord /\ Tracked(new)
      BY <1>2 DEF NoInspection, InspectionRecord, Code, Tracked
  <2> QED BY <1>3, <2>1 DEF Begins
<1>4. CASE Opened(c)
  <2> DEFINE n == call[c].awaits
             code == ConnectCode(errors[n])
             failed == [old EXCEPT !.at = "closing", !.code = code]
             reads == [old EXCEPT !.at = "tools", !.session = n]
  <2>1. old.at = "opening"
      BY <1>4 DEF Opened
  <2>2. code \in Code \ {"none"}
      BY DEF ConnectCode, Code
  <2> HIDE DEF code
  <2>3. failed \in InspectionRecord /\ Tracked(failed)
      BY <1>1, <2>2 DEF InspectionRecord, Tracked
  <2>4. reads \in InspectionRecord /\ Tracked(reads)
      BY <1>1, <2>1 DEF InspectionRecord, Tracked
  <2> QED BY <1>4, <2>3, <2>4 DEF Opened, code
<1>5. CASE ToolsPage(c)
  <2>1. old.at = "tools"
      BY <1>5 DEF ToolsPage
  <2> QED BY <1>1, <1>5, <2>1, ToolsPageTracked DEF ToolsPage
<1>6. CASE ToolsFail(c)
  <2> DEFINE new == [old EXCEPT !.at = "closing", !.code = "UPSTREAM_TRANSPORT_ERROR"]
  <2>1. new \in InspectionRecord /\ Tracked(new)
      BY <1>1 DEF InspectionRecord, Tracked, Code
  <2> QED BY <1>6, <2>1 DEF ToolsFail
<1>7. CASE ResourcesPage(c)
  <2> DEFINE page == [old EXCEPT !.resources = @ \cup {old.cursor}]
             over == [page EXCEPT !.at = "closing"]
  <2>1. /\ old.at = "resources" /\ old.cursor \in Page /\ After[old.cursor] \in Page
      BY <1>1, <1>7, InspectionAssumption DEF ResourcesPage, InspectionRecord, Page
  <2>2. /\ page \in InspectionRecord
        /\ page.at = "resources" /\ page.tools = old.tools /\ page.code = old.code
        /\ page.cursor = old.cursor
      BY <1>1, <2>1 DEF InspectionRecord
  <2>3. over \in InspectionRecord /\ Tracked(over)
      BY <2>1, <2>2 DEF InspectionRecord, Tracked
  <2>4. NextPage(page) \in InspectionRecord /\ Tracked(NextPage(page))
      BY <2>1, <2>2 DEF InspectionRecord, Tracked, NextPage
  <2> QED BY <1>7, <2>3, <2>4 DEF ResourcesPage
<1>8. CASE ResourcesFail(c)
  <2> DEFINE new == [old EXCEPT !.at = "closing", !.resources = {}]
  <2>1. new \in InspectionRecord /\ Tracked(new)
      BY <1>1, <1>8 DEF InspectionRecord, Tracked, ResourcesFail
  <2> QED BY <1>8, <2>1 DEF ResourcesFail
<1>9. CASE Closes(c) \/ Closed(c)
  <2> DEFINE idle == [old EXCEPT !.at = "idle"]
             releasing == [old EXCEPT !.at = "releasing"]
  <2>1. idle \in InspectionRecord /\ Tracked(idle)
      BY <1>1 DEF InspectionRecord, Tracked
  <2>2. releasing \in InspectionRecord
      BY <1>1 DEF InspectionRecord
  <2>3. old.at = "closing" => Tracked(releasing)
      BY <1>1 DEF InspectionRecord, Tracked
  <2> QED BY <1>9, <2>1, <2>2, <2>3 DEF Closes, Closed
<1> QED BY <1>3, <1>4, <1>5, <1>6, <1>7, <1>8, <1>9 DEF InspStep

\* The types, the tries of each connection included.
LEMMA InspTypesKept ==
    ASSUME InspInvariant, [InspNext]_inspAllVars
    PROVE  /\ InspTypeOK' /\ EntryIsNotReleased' /\ TransportsRemain'
           /\ \A c \in Caller : Tracked(insp'[c])
<1>1. /\ TypeOK /\ EntryIsNotReleased /\ insp \in [Caller -> InspectionRecord]
      /\ \A c \in Caller : Tracked(insp[c])
    BY DEF InspInvariant, InspTypeOK
<1>2. TypeOK' /\ EntryIsNotReleased'
    BY <1>1, FactoryTypesKept, InspectionsUseTheFactory
<1>3. /\ strategy \in Strategies /\ inspections \in 0..MaxInspections
      /\ tries \in [Attempt -> 0..2] /\ errors \in [Attempt -> SUBSET Failure]
      /\ attempt \in [Attempt -> Status] /\ MaxInspections \in Nat
    BY InspectionAssumption DEF InspInvariant, InspTypeOK, TypeOK
<1>4. ASSUME NEW c \in Caller, Begins(c) \/ InspStep(c)
      PROVE  /\ InspTypeOK' /\ TransportsRemain' /\ \A d \in Caller : Tracked(insp'[d])
  <2>1. PICK i \in InspectionRecord : insp' = [insp EXCEPT ![c] = i] /\ Tracked(i)
      BY <1>1, <1>4, InspectionGoesOn
  <2>2. insp' \in [Caller -> InspectionRecord] /\ \A d \in Caller : Tracked(insp'[d])
      BY <1>1, <2>1
  <2>3. /\ UNCHANGED <<strategy, tries, errors>>
        /\ \/ inspections' = inspections
           \/ inspections < MaxInspections /\ inspections' = inspections + 1
    <3>1. CASE Begins(c)
        BY <3>1 DEF Begins
    <3>2. CASE InspStep(c)
        BY <3>2, Zenon DEF InspStep, Opened, ToolsPage, ToolsFail, ResourcesPage, ResourcesFail,
                    Closes, Closed
    <3> QED BY <1>4, <3>1, <3>2
  <2>4. inspections' \in 0..MaxInspections
      BY <1>3, <2>3
  <2>5. TransportsRemain'
    <3>1. ASSUME NEW n \in Attempt, attempt'[n] \in {"unused", "connecting"}
          PROVE  attempt[n] \in {"unused", "connecting"}
      <4>1. \/ attempt' = attempt \/ GetSession(c) \/ ReleaseReturns(c)
          BY <1>4 DEF Begins, InspStep, Opened, ToolsPage, ToolsFail, ResourcesPage,
                      ResourcesFail, Closes, Closed, GetReturns, ReleaseSession, vars
      <4>2. SessionTypes
          BY <1>1 DEF TypeOK, SessionTypes
      <4>3. CASE GetSession(c)
          BY <3>1, <4>2, <4>3, GetSessionDoes
      <4>4. CASE ReleaseReturns(c)
          BY <3>1, <4>2, <4>4, ReleaseReturnsDoes
      <4> QED BY <3>1, <4>1, <4>3, <4>4
    <3> QED BY <2>3, <3>1 DEF InspInvariant, TransportsRemain
  <2> QED BY <1>2, <1>3, <2>2, <2>3, <2>4, <2>5 DEF InspTypeOK
<1>5. ASSUME NEW n \in Attempt,
             \/ Opens(n) \/ SpawnFails(n) \/ Refuses(n) \/ ServerDies(n)
             \/ \E error \in Failure : TransportFails(n, error)
      PROVE  /\ InspTypeOK' /\ TransportsRemain' /\ \A d \in Caller : Tracked(insp'[d])
  <2>1. UNCHANGED <<strategy, insp, inspections>>
      BY <1>5 DEF Opens, SpawnFails, Refuses, ServerDies, TransportFails, inspVars
  <2>2. \/ Opens(n) \/ SpawnFails(n)
        \/ /\ UNCHANGED <<tries, errors>>
           /\ \A m \in Attempt : attempt'[m] \in {"unused", "connecting"} =>
                  attempt[m] \in {"unused", "connecting"}
        \/ \E error \in Failure : TransportFails(n, error)
      BY <1>3, <1>5 DEF Refuses, ServerDies, inspVars, ConnectFails, Dies
  <2>3. /\ tries' \in [Attempt -> 0..2] /\ errors' \in [Attempt -> SUBSET Failure]
        /\ TransportsRemain'
    <3>1. CASE Opens(n) \/ SpawnFails(n)
      <4>1. /\ tries[n] \in 0..1 /\ tries' = [tries EXCEPT ![n] = tries[n] + 1]
            /\ attempt[n] = "connecting" /\ attempt'[n] \in {"open", "failed"}
            /\ \A m \in Attempt : m # n => attempt'[m] = attempt[m]
          BY <1>3, <3>1 DEF Opens, SpawnFails, Connected, ConnectFails, InspInvariant,
                            TransportsRemain
      <4>2. errors' = errors \/ errors' = [errors EXCEPT ![n] = {"other"}]
          BY <3>1 DEF Opens, SpawnFails
      <4>3. errors' \in [Attempt -> SUBSET Failure]
          BY <1>3, <4>2 DEF Failure
      <4>4. tries' \in [Attempt -> 0..2]
          BY <1>3, <4>1
      <4>5. TransportsRemain'
          BY <1>3, <4>1 DEF InspInvariant, TransportsRemain
      <4> QED BY <4>3, <4>4, <4>5
    <3>2. ASSUME NEW error \in Failure, TransportFails(n, error)
          PROVE  /\ tries' \in [Attempt -> 0..2] /\ errors' \in [Attempt -> SUBSET Failure]
                 /\ TransportsRemain'
      <4>1. /\ tries[n] \in 0..1 /\ tries' = [tries EXCEPT ![n] = tries[n] + 1]
            /\ errors' = [errors EXCEPT ![n] = errors[n] \cup {error}]
            /\ \/ tries[n] + 1 = 2 /\ attempt'[n] = "failed"
               \/ tries[n] + 1 # 2
            /\ \A m \in Attempt : m # n => attempt'[m] = attempt[m]
          BY <1>3, <3>2 DEF TransportFails, Transports, ConnectFails, InspInvariant,
                            TransportsRemain, vars
      <4>2. tries' \in [Attempt -> 0..2] /\ errors' \in [Attempt -> SUBSET Failure]
          BY <1>3, <4>1
      <4> QED BY <1>3, <4>1, <4>2 DEF InspInvariant, TransportsRemain
    <3> QED BY <1>3, <2>2, <3>1, <3>2 DEF InspInvariant, TransportsRemain
  <2> QED BY <1>1, <1>2, <1>3, <2>1, <2>3 DEF InspTypeOK
<1>6. CASE UNCHANGED inspAllVars
    BY <1>1, <1>2, <1>3, <1>6 DEF inspAllVars, inspVars, vars, InspTypeOK, InspInvariant,
                                  TransportsRemain
<1> QED BY <1>2, <1>4, <1>5, <1>6 DEF InspNext

\* Whoever takes a session is in an inspection, and lets go of it at the end.
LEMMA SessionsUsedKept ==
    ASSUME TypeOK, insp \in [Caller -> InspectionRecord], SessionsAreUsed,
           [InspNext]_inspAllVars
    PROVE  SessionsAreUsed'
<1> USE DEF SessionsAreUsed
<1>1. call \in [Caller -> Call]
    BY DEF TypeOK
<1>2. ASSUME NEW c \in Caller, Begins(c)
      PROVE  SessionsAreUsed'
  <2>1. insp'[c].at = "opening" /\ \A d \in Caller : d # c => insp'[d] = insp[d]
      BY <1>2 DEF Begins, NoInspection
  <2>2. \A d \in Caller : d # c => call'[d] = call[d]
      BY <1>1, <1>2 DEF Begins, GetSession
  <2> QED BY <2>1, <2>2
<1>3. ASSUME NEW c \in Caller, InspStep(c)
      PROVE  SessionsAreUsed'
  <2>1. \A d \in Caller : d # c => insp'[d] = insp[d] /\ call'[d] = call[d]
      BY <1>1, <1>3 DEF InspStep, Opened, ToolsPage, ToolsFail, ResourcesPage, ResourcesFail,
                        Closes, Closed, GetReturns, ReleaseReturns, ReleaseSession, vars
  <2>2. entry' = entry \/ entry' = 0
      BY <1>3 DEF InspStep, Opened, ToolsPage, ToolsFail, ResourcesPage, ResourcesFail,
                  Closes, Closed, GetReturns, ReleaseReturns, ReleaseSession, vars
  <2>3. CASE Opened(c)
    <3>1. insp'[c].at \in {"tools", "closing"} /\ call'[c] = Idle
        BY <1>1, <2>3 DEF Opened, GetReturns, InspectionRecord
    <3> QED BY <2>1, <2>2, <3>1
  <2>4. CASE ToolsPage(c) \/ ToolsFail(c) \/ ResourcesPage(c) \/ ResourcesFail(c)
    <3>1. /\ insp[c].at \in {"tools", "resources"} /\ call' = call
          /\ insp'[c].at \in {"tools", "resources", "closing"}
      <4> DEFINE tools == [insp[c] EXCEPT !.tools = @ \cup {insp[c].cursor}]
                 resources == [insp[c] EXCEPT !.resources = @ \cup {insp[c].cursor}]
                 first == [tools EXCEPT !.at = "resources", !.cursor = 0, !.visited = {}]
                 over == [resources EXCEPT !.at = "closing"]
      <4>1. insp[c].at \in {"tools", "resources"} /\ call' = call
          BY <2>4, Zenon DEF ToolsPage, ToolsFail, ResourcesPage, ResourcesFail, vars
      <4>2. /\ NextPage(tools).at = insp[c].at /\ NextPage(resources).at = insp[c].at
            /\ first.at = "resources" /\ over.at = "closing"
          BY DEF NextPage, InspectionRecord
      <4>3. CASE ToolsPage(c)
        <5>1. insp'[c] \in {first, NextPage(tools)}
            BY <4>3 DEF ToolsPage
        <5> QED BY <4>1, <4>2, <5>1
      <4>4. CASE ResourcesPage(c)
        <5>1. insp'[c] \in {over, NextPage(resources)}
            BY <4>4 DEF ResourcesPage
        <5> QED BY <4>1, <4>2, <5>1
      <4>5. CASE ToolsFail(c) \/ ResourcesFail(c)
          BY <4>1, <4>5 DEF ToolsFail, ResourcesFail, InspectionRecord
      <4> QED BY <2>4, <4>3, <4>4, <4>5
    <3> QED BY <2>1, <2>2, <3>1
  <2>5. CASE Closes(c)
    <3>1. /\ entry' = 0 /\ insp[c].at = "closing"
          /\ \/ insp'[c].at = "idle" /\ call' = call
             \/ insp'[c].at = "releasing"
        BY <2>5 DEF Closes, Released, ReleaseSession, vars, InspectionRecord
    <3> QED BY <2>1, <3>1
  <2>6. CASE Closed(c)
    <3>1. /\ insp[c].at = "releasing" /\ insp'[c].at = "idle" /\ call'[c] = Idle
        BY <1>1, <2>6 DEF Closed, ReleaseReturns, InspectionRecord
    <3> QED BY <2>1, <2>2, <3>1
  <2> QED BY <1>3, <2>3, <2>4, <2>5, <2>6 DEF InspStep
<1>4. CASE UNCHANGED <<insp, call>> /\ entry' \in {entry, 0}
    BY <1>4
<1>5. ASSUME NEW n \in Attempt,
             \/ Opens(n) \/ SpawnFails(n) \/ Refuses(n) \/ ServerDies(n)
             \/ \E error \in Failure : TransportFails(n, error)
      PROVE  UNCHANGED <<insp, call>> /\ entry' \in {entry, 0}
    BY <1>5 DEF Opens, SpawnFails, Refuses, ServerDies, TransportFails, inspVars, vars,
                Connected, ConnectFails, Dies, Forget
<1>6. CASE UNCHANGED inspAllVars
    BY <1>6 DEF inspAllVars, inspVars, vars
<1> QED BY <1>2, <1>3, <1>4, <1>5, <1>6 DEF InspNext

LEMMA InspInvariantInit == ASSUME InspInit PROVE InspInvariant
<1>1. TypeOK /\ EntryIsNotReleased
    BY SessionsInvariantInit DEF InspInit, SessionsInvariant
<1>2. NoInspection \in InspectionRecord /\ Tracked(NoInspection)
    BY InspectionAssumption DEF NoInspection, InspectionRecord, Page, Code, Tracked
<1>3. InspTypeOK
    BY <1>1, <1>2, InspectionAssumption DEF InspInit, InspTypeOK
<1>4. SessionsAreUsed /\ TransportsRemain
    BY DEF InspInit, Init, SessionsAreUsed, TransportsRemain
<1> QED BY <1>1, <1>2, <1>3, <1>4 DEF InspInvariant, InspInit

LEMMA InspInvariantHolds == InspSpec => []InspInvariant
<1>1. ASSUME InspInvariant, [InspNext]_inspAllVars PROVE InspInvariant'
  <2>1. SessionsAreUsed'
      BY <1>1, SessionsUsedKept DEF InspInvariant, InspTypeOK
  <2> QED BY <1>1, <2>1, InspTypesKept DEF InspInvariant
<1> QED BY <1>1, InspInvariantInit, PTL DEF InspSpec

\* Inspections are typed, and nobody waits for an attempt that was never started,
\* with any number of callers, connections and pages.
THEOREM InspectionTypes == InspSpec => []InspTypeOK
<1>1. InspInvariant => InspTypeOK
    BY DEF InspInvariant
<1> QED BY <1>1, InspInvariantHolds, PTL

\* When the last of at most two inspections at a time has ended, it has left
\* nothing in the map and no connection.
THEOREM TwoLeaveNothing == TwoAtMost => (InspSpec => []NothingLeft)
<1> SUFFICES ASSUME TwoAtMost PROVE InspSpec => []NothingLeft
    OBVIOUS
<1>1. ASSUME SessionsInvariant, InspInvariant, \A c \in Caller : insp[c].at = "idle"
      PROVE  entry = 0 /\ \A n \in Attempt : attempt[n] \in {"unused", "failed", "closed"}
  <2>1. entry = 0 /\ \A c \in Caller : call[c].op = "idle"
      BY <1>1 DEF InspInvariant, SessionsAreUsed, Idle
  <2>2. ASSUME NEW n \in Attempt PROVE attempt[n] \notin {"connecting", "open", "dead"}
      BY <1>1, <2>1, FactoryAssumption DEF SessionsInvariant, ConnectionsAreOwned, Attempt
  <2>3. attempt \in [Attempt -> Status]
      BY <1>1 DEF SessionsInvariant, TypeOK
  <2> QED BY <2>1, <2>2, <2>3 DEF Status
<1>2. SessionsInvariant /\ InspInvariant => NothingLeft
    BY <1>1 DEF NothingLeft
<1> QED BY <1>2, SessionsAreInvariant, InspInvariantHolds, PTL

-----------------------------------------------------------------------------
(* Inspections: the pages that can be reached.                             *)

\* The function that Reached is.
IsReached(r) ==
    r = [n \in Page |->
            IF n = 0 THEN {0} ELSE r[n - 1] \cup {After[p] : p \in r[n - 1]}]

LEMMA ReachedExists == IsReached(Reached)
<1> DEFINE S == SUBSET Page
           step == [a \in (1..MaxCursor) \X S |-> a[2] \cup {After[p] : p \in a[2]}]
<1>1. MaxCursor \in Nat /\ {0} \in S
    BY InspectionAssumption DEF Page
<1>2. ASSUME NEW q \in S PROVE q \cup {After[p] : p \in q} \in S
    BY InspectionAssumption DEF Page
<1>3. /\ step \in [(1..MaxCursor) \X S -> S]
      /\ \A n \in 1..MaxCursor, q \in S : step[<<n, q>>] = q \cup {After[p] : p \in q}
    BY <1>2
<1> HIDE DEF S, step
<1>4. PICK r \in [0..MaxCursor -> S] : IsRecursion(r, MaxCursor, {0}, step)
    BY <1>1, <1>3, RecursionExists
<1> DEFINE e(n) == IF n = 0 THEN {0} ELSE r[n - 1] \cup {After[p] : p \in r[n - 1]}
<1>5. ASSUME NEW n \in 0..MaxCursor PROVE r[n] = e(n)
  <2>1. CASE n = 0
      BY <1>4, <2>1 DEF IsRecursion
  <2>2. CASE n # 0
    <3>1. n \in 1..MaxCursor /\ n - 1 \in 0..MaxCursor /\ r[n - 1] \in S
        BY <1>1, <1>4, <2>2
    <3>2. r[n] = step[<<n, r[n - 1]>>]
        BY <1>4, <2>2 DEF IsRecursion
    <3> QED BY <1>3, <2>2, <3>1, <3>2
  <2> QED BY <2>1, <2>2
<1>6. r = [n \in 0..MaxCursor |-> e(n)]
    BY <1>5
<1>7. IsReached(r)
    BY <1>6 DEF IsReached, Page
<1>8. Reached = CHOOSE f : IsReached(f)
    BY DEF Reached, IsReached
<1> QED BY <1>7, <1>8

\* Pages that lead to each other, the first among them, are all that it leads to.
LEMMA ReachedIsWithin ==
    ASSUME NEW T, 0 \in T, \A p \in T : After[p] \in T
    PROVE  Reached[MaxCursor] \subseteq T
<1> DEFINE r == Reached
<1>1. MaxCursor \in Nat /\ IsReached(r)
    BY InspectionAssumption, ReachedExists
<1> HIDE DEF r
<1>2. r[0] = {0} /\ \A n \in 1..MaxCursor : r[n] = r[n - 1] \cup {After[p] : p \in r[n - 1]}
    BY <1>1 DEF IsReached, Page
<1>3. r[0] \in SUBSET T
    BY <1>2
<1>4. ASSUME NEW n \in 1..MaxCursor, r[n - 1] \in SUBSET T
      PROVE  r[n] \in SUBSET T
  <2>1. r[n] = r[n - 1] \cup {After[p] : p \in r[n - 1]}
      BY <1>2
  <2> QED BY <1>4, <2>1
<1>5. \A n \in 0..MaxCursor : r[n] \in SUBSET T
    BY <1>1, <1>3, <1>4, StepsStay
<1>6. r[MaxCursor] \in SUBSET T
    BY <1>1, <1>5
<1> QED BY <1>6 DEF r

\* An inspection that succeeds has every tool that the cursors lead to, whatever
\* they are, with any number of inspections that release each other's session.
THEOREM SuccessSeesEveryTool == InspSpec => []ToolsComplete
<1>1. ASSUME InspInvariant, NEW c \in Caller, insp[c].code = "none",
             insp[c].at \in {"resources", "closing", "releasing"}
      PROVE  Reached[MaxCursor] \subseteq insp[c].tools
  <2>1. 0 \in insp[c].tools /\ \A p \in insp[c].tools : After[p] \in insp[c].tools
      BY <1>1 DEF InspInvariant, Tracked
  <2> QED BY <2>1, ReachedIsWithin
<1>2. InspInvariant => ToolsComplete
    BY <1>1 DEF ToolsComplete
<1> QED BY <1>2, InspInvariantHolds, PTL
=============================================================================
