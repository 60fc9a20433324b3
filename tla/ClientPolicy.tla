---------------------------- MODULE ClientPolicy ----------------------------
(***************************************************************************)
(* What roomd lets a server do as its client: the registry of              *)
(* services/roomd/src/client-capabilities/, which keeps one policy for a   *)
(* server of a room, and the operations of RoomStore that change it, over  *)
(* the connections of SessionFactory.                                      *)
(*                                                                         *)
(* A connection announces the policy it finds when it starts and never     *)
(* again; the server's requests are answered by the policy of the moment.  *)
(* The policy outlives neither the last mount nor a failed first one.      *)
(***************************************************************************)
EXTENDS SessionFactory, Sequences, TLC

CONSTANTS
    Instance,
    MountSlot,          \* the callers that may mount
    MountPatch,         \* clientCapabilities of a mount: functions on fields
    Patch,              \* bodies of PATCH .../sampling and .../elicitation
    RootList,           \* bodies of PUT .../roots: sequences of URI and name
    Unread,             \* a server that has not asked for the roots
    MaxRequests         \* bound: mounts, unmounts and changes of the policy

Flag == {"rootsEnabled", "listChanged", "samplingEnabled", "requireHumanInTheLoop",
         "allowToolUse", "elicitationEnabled", "allowFormMode", "allowUrlMode",
         "requireUrlForSensitive"}
Field == Flag \cup {"roots", "maxOutputTokens"}

ASSUME PolicyAssumption ==
    /\ MountSlot \subseteq Caller /\ MaxRequests \in Nat
    /\ \A patch \in MountPatch \cup Patch : DOMAIN patch \subseteq Field
    /\ \A patch \in Patch :
           DOMAIN patch \cap {"roots", "rootsEnabled", "listChanged"} = {}

VARIABLES
    policy,     \* the registry's runtime for the server
    mounts,     \* instances of the server
    negotiated, \* room.sessions has the server
    advertised, \* the policy each connection announced
    known,      \* the roots that the server last read over each connection
    news,       \* connections with a roots/list_changed on its way
    req,        \* what each caller is doing
    granted,    \* history: what clients allowed since the server had no mount
    unannounced, \* history: roots changed with no notification owed
    requests

policyVars == <<policy, mounts, negotiated, advertised, known, news, req, granted,
                unannounced, requests>>
allVars == <<vars, policyVars>>

-----------------------------------------------------------------------------
(* roots.ts, sampling.ts, elicitation.ts.                                  *)

Nobody == [op |-> "none", instance |-> "none", patch |-> <<>>, had |-> FALSE,
           undisturbed |-> TRUE]

\* normalizeRoots(): one root per URI, the last one named.
NormalizedRoots(list) ==
    [uri \in {list[k].uri : k \in DOMAIN list} |->
        list[CHOOSE k \in DOMAIN list :
                /\ list[k].uri = uri
                /\ \A j \in DOMAIN list : list[j].uri = uri => j <= k].name]

SanitizedTokens(n) == IF n < 1 THEN 1 ELSE IF n > 32768 THEN 32768 ELSE n

DefaultPolicy ==
    [f \in Field |->
        CASE f \in {"rootsEnabled", "listChanged", "requireHumanInTheLoop",
                    "allowFormMode", "allowUrlMode", "requireUrlForSensitive"} -> TRUE
          [] f = "roots" -> NormalizedRoots(<<>>)
          [] f = "maxOutputTokens" -> 2048
          [] OTHER -> FALSE]

\* mergeRootsConfig() and mergeSamplingConfig(), for the fields that a patch has;
\* mergeElicitationConfig() takes them as they are.
RootsField(patch, f) == IF f = "roots" THEN NormalizedRoots(patch[f]) ELSE patch[f]
SamplingField(patch, f) ==
    IF f = "maxOutputTokens" THEN SanitizedTokens(patch[f]) ELSE patch[f]

Merged(p, patch) ==
    [f \in Field |->
        IF f \notin DOMAIN patch THEN p[f]
        ELSE IF f \in {"roots", "rootsEnabled", "listChanged"} THEN RootsField(patch, f)
        ELSE SamplingField(patch, f)]

\* What a server may ask: a completion of so many tokens (0 where it does not
\* say), with tools or not; and a form, with a sensitive field or not, or a URL.
SamplingRequest == [kind : {"sampling"}, tokens : {0, 2048, 32768, 40000}, tools : BOOLEAN]
ElicitationRequest == [kind : {"elicitation"}, mode : {"form", "url"}, sensitive : BOOLEAN]

\* evaluateSamplingRequest() approves.
SamplingApproved(p, q) ==
    /\ p["samplingEnabled"]
    /\ ~p["requireHumanInTheLoop"]
    /\ q.tokens <= p["maxOutputTokens"]
    /\ q.tools => p["allowToolUse"]

\* evaluateElicitationRequest() accepts.
ElicitationAccepted(p, q) ==
    /\ p["elicitationEnabled"]
    /\ q.mode = "url" => p["allowUrlMode"]
    /\ q.mode = "form" =>
          /\ p["allowFormMode"]
          /\ ~(p["requireUrlForSensitive"] /\ q.sensitive)

\* getAdvertisedClientCapabilities(): a mode is advertised with its capability.
AdvertisesElicitation(p) ==
    p["elicitationEnabled"] /\ (p["allowFormMode"] \/ p["allowUrlMode"])

\* evaluateSampling() and evaluateElicitation(): by the policy of the moment.
Evaluated(q) == IF q.kind = "sampling" THEN SamplingApproved(policy, q)
                                       ELSE ElicitationAccepted(policy, q)

\* The handlers that a client registers are those it advertises; each of them
\* asks the registry.
Allowed(n, q) ==
    /\ attempt[n] = "open"
    /\ IF q.kind = "sampling" THEN advertised[n]["samplingEnabled"]
                              ELSE AdvertisesElicitation(advertised[n])
    /\ Evaluated(q)

-----------------------------------------------------------------------------
(* Faulty variants; PROJECT.json names them as mutants.                    *)

Cleared_KeepsPolicy == UNCHANGED policy

RootsListed_AsConnected(n) == advertised[n].roots

Committed_WithDefaults(c) == policy' = policy

-----------------------------------------------------------------------------
(* Sessions.                                                               *)

\* clear().
Cleared == policy' = DefaultPolicy

\* setRoots(), updateSampling(), updateElicitation().
Patched(patch) == policy' = Merged(policy, patch)

\* buildRootsListResult(): the roots of the moment.
RootsListed(n) == policy.roots

\* getSession(); a connection that starts announces the policy it finds.
Asks(c) ==
    /\ GetSession(c)
    /\ advertised' = IF entry # 0 THEN advertised
                     ELSE [advertised EXCEPT ![NextAttempt] = policy']

InFlight(r) == r.op \in {"opening", "inspecting", "finishing", "failing"}
MountsInFlight == {c \in Caller : InFlight(req[c])}

\* The policy changes under the mounts in flight that have set it.
Disturbed(r) ==
    [c \in Caller |-> IF InFlight(r[c]) THEN [r[c] EXCEPT !.undisturbed = FALSE] ELSE r[c]]

\* What clients granted lapses with the last mount, in place or in flight.
StillGranted(ms, flights) == IF ms = {} /\ flights = {} THEN {} ELSE granted

PolicyInit ==
    /\ Init
    /\ policy = DefaultPolicy
    /\ mounts = {} /\ negotiated = FALSE
    /\ advertised = [n \in Attempt |-> DefaultPolicy]
    /\ known = [n \in Attempt |-> Unread]
    /\ news = [n \in Attempt |-> FALSE]
    /\ req = [c \in Caller |-> Nobody]
    /\ granted = {} /\ unannounced = FALSE /\ requests = 0

Starts(c) ==
    /\ req[c] = Nobody /\ requests < MaxRequests
    /\ requests' = requests + 1

-----------------------------------------------------------------------------
(* handleMount().                                                          *)

\* The first mount of a server configures the policy before the inspection
\* that connects, a later one when it commits.
BeginMount(c, i, patch) ==
    /\ Starts(c) /\ c \in MountSlot /\ i \notin mounts
    /\ policy' = IF negotiated THEN policy ELSE Merged(policy, patch)
    /\ Asks(c)
    /\ req' = [(IF negotiated THEN req ELSE Disturbed(req)) EXCEPT ![c] =
                  [op |-> "opening", instance |-> i, patch |-> patch, had |-> negotiated,
                   undisturbed |-> TRUE]]
    /\ granted' = granted \cup DOMAIN patch
    /\ unannounced' = (unannounced \/ (entry # 0 /\ policy'.roots # policy.roots))
    /\ UNCHANGED <<mounts, negotiated, known, news>>

SessionComes(c) ==
    /\ req[c].op = "opening"
    /\ GetReturns(c)
    /\ req' = [req EXCEPT ![c].op = IF attempt[call[c].awaits] = "failed" THEN "failing"
                                    ELSE "inspecting"]
    /\ UNCHANGED <<policy, mounts, negotiated, advertised, known, news, granted,
                   unannounced, requests>>

\* The inspection has its listings, and the session is asked for once more.
Inspected(c) ==
    /\ req[c].op = "inspecting"
    /\ UNCHANGED policy
    /\ Asks(c)
    /\ req' = [req EXCEPT ![c].op = "finishing"]
    /\ UNCHANGED <<mounts, negotiated, known, news, granted, unannounced, requests>>

\* The inspection fails, or finds no such UI resource when the session is there.
InspectionFails(c) ==
    /\ \/ req[c].op = "inspecting" /\ UNCHANGED vars
       \/ req[c].op = "finishing" /\ GetReturns(c)
    /\ req' = [req EXCEPT ![c].op = "failing"]
    /\ UNCHANGED <<policy, mounts, negotiated, advertised, known, news, granted,
                   unannounced, requests>>

Committed(c) == policy' = IF req[c].had THEN Merged(policy, req[c].patch) ELSE policy

FinishMount(c) ==
    /\ req[c].op = "finishing" /\ attempt[call[c].awaits] # "failed"
    /\ GetReturns(c)
    /\ Committed(c)
    /\ unannounced' = (unannounced \/ policy'.roots # policy.roots)
    /\ mounts' = mounts \cup {req[c].instance}
    /\ negotiated' = TRUE
    /\ req' = [(IF req[c].had THEN Disturbed(req) ELSE req) EXCEPT ![c] = Nobody]
    /\ UNCHANGED <<advertised, known, news, granted, requests>>

\* clear() and releaseSession(), whosever session it is now.
LetGo(c) ==
    /\ Cleared
    /\ negotiated' = FALSE
    /\ unannounced' = FALSE
    /\ IF entry = 0
       THEN /\ req' = Disturbed([req EXCEPT ![c] = Nobody])
            /\ UNCHANGED vars
       ELSE /\ ReleaseSession(c)
            /\ req' = Disturbed([req EXCEPT ![c] = [Nobody EXCEPT !.op = "releasing"]])

\* The catch block: a mount that began with a session leaves everything as it is.
MountFails(c) ==
    /\ req[c].op = "failing"
    /\ IF req[c].had
       THEN /\ req' = [req EXCEPT ![c] = Nobody]
            /\ UNCHANGED <<vars, policy, negotiated, unannounced>>
       ELSE LetGo(c)
    /\ granted' = StillGranted(mounts, MountsInFlight \ {c})
    /\ UNCHANGED <<mounts, advertised, known, news, requests>>

Releases(c) ==
    /\ req[c].op = "releasing"
    /\ ReleaseReturns(c)
    /\ req' = [req EXCEPT ![c] = Nobody]
    /\ UNCHANGED <<policy, mounts, negotiated, advertised, known, news, granted,
                   unannounced, requests>>

-----------------------------------------------------------------------------
(* The other requests about an instance of the server.                     *)

Unmount(c, i) ==
    /\ Starts(c) /\ i \in mounts
    /\ mounts' = mounts \ {i}
    /\ IF mounts' = {} THEN LetGo(c)
       ELSE UNCHANGED <<vars, policy, negotiated, unannounced, req>>
    /\ granted' = StillGranted(mounts', MountsInFlight)
    /\ UNCHANGED <<advertised, known, news>>

\* setInstanceRoots() changes the roots before it finds them disabled (400).
SetRoots(c, i, list) ==
    LET patch == "roots" :> list IN
    /\ Starts(c) /\ i \in mounts
    /\ Patched(patch)
    /\ IF policy.rootsEnabled /\ policy.listChanged
       THEN /\ Asks(c)
            /\ req' = Disturbed([req EXCEPT ![c] = [Nobody EXCEPT !.op = "telling"]])
            /\ UNCHANGED unannounced
       ELSE /\ unannounced' = TRUE
            /\ req' = Disturbed(req)
            /\ UNCHANGED <<vars, advertised>>
    /\ granted' = granted \cup DOMAIN patch
    /\ UNCHANGED <<mounts, negotiated, known, news>>

\* notifyRootsListChanged(): the SDK refuses what was not announced, and a
\* closed session; the client is told so.
Tell(c) ==
    LET n == call[c].awaits IN
    /\ req[c].op = "telling"
    /\ GetReturns(c)
    /\ IF attempt[n] = "open" /\ advertised[n].rootsEnabled /\ advertised[n].listChanged
       THEN news' = [news EXCEPT ![n] = TRUE] /\ UNCHANGED unannounced
       ELSE unannounced' = TRUE /\ UNCHANGED news
    /\ req' = [req EXCEPT ![c] = Nobody]
    /\ UNCHANGED <<policy, mounts, negotiated, advertised, known, granted, requests>>

\* PATCH .../sampling and .../elicitation: nothing is announced.
Configure(c, i, patch) ==
    /\ Starts(c) /\ i \in mounts
    /\ Patched(patch)
    /\ req' = Disturbed(req)
    /\ granted' = granted \cup DOMAIN patch
    /\ UNCHANGED <<vars, mounts, negotiated, advertised, known, news, unannounced>>

-----------------------------------------------------------------------------
(* The server and the wire.                                                *)

\* roots/list, at any time.
ReadsRoots(n) ==
    /\ attempt[n] = "open" /\ advertised[n].rootsEnabled
    /\ known' = [known EXCEPT ![n] = RootsListed(n)]
    /\ news' = [news EXCEPT ![n] = FALSE]
    /\ UNCHANGED <<vars, policy, mounts, negotiated, advertised, req, granted, unannounced,
                   requests>>

Wire(n) == (Connected(n) \/ ConnectFails(n) \/ Dies(n)) /\ UNCHANGED policyVars

Serve(c) ==
    \/ SessionComes(c) \/ Inspected(c) \/ InspectionFails(c) \/ FinishMount(c)
    \/ MountFails(c) \/ Releases(c) \/ Tell(c)

PolicyNext ==
    \/ \E c \in Caller :
          \/ Serve(c)
          \/ \E i \in Instance :
                \/ \E patch \in MountPatch : BeginMount(c, i, patch)
                \/ Unmount(c, i)
                \/ \E list \in RootList : SetRoots(c, i, list)
                \/ \E patch \in Patch : Configure(c, i, patch)
    \/ \E n \in Attempt : ReadsRoots(n) \/ Wire(n)

PolicySpec == PolicyInit /\ [][PolicyNext]_allVars

-----------------------------------------------------------------------------
(* Properties.                                                             *)

PolicyTypeOK ==
    /\ TypeOK
    /\ DOMAIN policy = Field /\ policy.maxOutputTokens \in 1..32768
    /\ mounts \subseteq Instance /\ negotiated \in BOOLEAN
    /\ news \in [Attempt -> BOOLEAN] /\ granted \subseteq Field

\* "Sampling is disabled by default and denied unless explicitly enabled", and
\* elicitation too (client-capabilities/README.md:15-16).  On every connection,
\* one that is being released included, whatever a server asks is allowed only
\* if clients have set what allows it since the server last had no mount; what
\* an earlier or a failed mount allowed is gone.
AnswersAreGranted ==
    \A n \in Attempt :
        /\ \A q \in SamplingRequest : Allowed(n, q) =>
               {"samplingEnabled", "requireHumanInTheLoop"} \subseteq granted
        /\ \A q \in ElicitationRequest : Allowed(n, q) => "elicitationEnabled" \in granted

\* A mount whose policy nobody has changed while it was under way leaves the
\* policy as it asked, and the server finds it in force.
MountPolicyHolds ==
    [][\A c \in Caller : FinishMount(c) /\ req[c].undisturbed =>
           Merged(policy', req[c].patch) = policy']_allVars

\* A server that has read the roots knows those of the moment, or a
\* notification is on its way or about to be sent.  (A change by a later mount,
\* by a refused PUT, or one whose PUT was answered with an error, is not
\* announced: see README.)
RootsReachServer ==
    \A n \in Attempt :
        /\ attempt[n] = "open" /\ entry = n
        /\ known[n] # Unread /\ ~unannounced
        => \/ known[n] = policy.roots
           \/ news[n]
           \/ \E c \in Caller : req[c].op = "telling"
=============================================================================
