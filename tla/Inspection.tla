----------------------------- MODULE Inspection -----------------------------
(***************************************************************************)
(* POST /inspect/server: RoomStore.inspectServer() (services/roomd/src/    *)
(* store.ts) with the transports of mcp.ts.  Every inspection of a server  *)
(* uses the one session that SessionFactory keeps for it in a room of its  *)
(* own, reads its tools and its resources page by page, and releases the   *)
(* session however it went, also when another inspection is using it.      *)
(***************************************************************************)
EXTENDS SessionFactory

CONSTANTS
    Strategies,     \* how the server may be reached, see mcp-auth.ts
    MaxCursor,      \* bound: cursors of a listing
    After,          \* the cursor that the page at a cursor gives; 0 is none
    MaxInspections  \* bound: inspections

ASSUME InspectionAssumption ==
    /\ Strategies \subseteq {"stdio", "none", "bearer", "blank", "oauth"}
    /\ MaxCursor \in Nat
    /\ After \in [0..MaxCursor -> 0..MaxCursor]
    /\ MaxInspections \in Nat

VARIABLES
    strategy,   \* of mcp-auth.ts for its URL, or "stdio" for one that is spawned
    tries,      \* transports that each attempt has tried
    errors,     \* what their connections failed with
    insp,       \* each caller's inspection
    inspections \* how many there have been

inspVars == <<strategy, tries, errors, insp, inspections>>
inspAllVars == <<vars, inspVars>>

-----------------------------------------------------------------------------
\* HTTP has two transports to try, one after the other.
Transports == 2
Failure == {"unauthorized", "other"}
Code == {"none", "AUTH_REQUIRED", "AUTH_FAILED", "AUTH_DISCOVERY_FAILED",
         "UPSTREAM_TRANSPORT_ERROR"}

\* The pages of a listing that can be reached from the first, which has no cursor.
Page == 0..MaxCursor
Reached[n \in Page] ==
    IF n = 0 THEN {0} ELSE Reached[n - 1] \cup {After[p] : p \in Reached[n - 1]}

NoInspection == [at |-> "idle", session |-> 0, cursor |-> 0, visited |-> {},
                 tools |-> {}, resources |-> {}, code |-> "none"]
InspectionRecord ==
    [at : {"idle", "opening", "tools", "resources", "closing", "releasing"},
     session : {0} \cup Attempt, cursor : Page, visited : SUBSET Page,
     tools : SUBSET Page, resources : SUBSET Page, code : Code]

-----------------------------------------------------------------------------
(* Faulty variants; PROJECT.json names them as mutants.                    *)

LastPage_NoCursorOnly(i) == After[i.cursor] = 0

LastPage_First(i) == TRUE

Released_OnSuccessOnly(c) == insp[c].code # "none" \/ entry = 0

-----------------------------------------------------------------------------
(* Connecting.                                                             *)

\* buildAuthHeaders() throws before anything is tried.
Unusable == strategy \in {"blank", "oauth"}

\* The error that the waiters of a failed attempt are given: 401 and 403 from
\* either transport count, and a missing token is "required" as well.
ConnectCode(errs) ==
    IF strategy = "oauth" THEN "AUTH_DISCOVERY_FAILED"
    ELSE IF strategy = "blank" \/ (strategy = "none" /\ "unauthorized" \in errs)
    THEN "AUTH_REQUIRED"
    ELSE IF strategy = "bearer" /\ "unauthorized" \in errs THEN "AUTH_FAILED"
    ELSE "UPSTREAM_TRANSPORT_ERROR"

\* Streamable HTTP and, if that fails, server-sent events; or the subprocess.
Opens(n) ==
    /\ ~Unusable
    /\ Connected(n)
    /\ tries' = [tries EXCEPT ![n] = @ + 1]
    /\ UNCHANGED <<strategy, errors, insp, inspections>>

TransportFails(n, error) ==
    /\ ~Unusable /\ strategy # "stdio" /\ attempt[n] = "connecting"
    /\ tries' = [tries EXCEPT ![n] = @ + 1]
    /\ errors' = [errors EXCEPT ![n] = @ \cup {error}]
    /\ IF tries[n] + 1 = Transports THEN ConnectFails(n) ELSE UNCHANGED vars
    /\ UNCHANGED <<strategy, insp, inspections>>

\* The command of a server that is spawned is not allowed, does not start or
\* does not answer: there is nothing else to try.
SpawnFails(n) ==
    /\ strategy = "stdio"
    /\ ConnectFails(n)
    /\ tries' = [tries EXCEPT ![n] = @ + 1]
    /\ errors' = [errors EXCEPT ![n] = {"other"}]
    /\ UNCHANGED <<strategy, insp, inspections>>

Refuses(n) ==
    /\ Unusable
    /\ ConnectFails(n)
    /\ UNCHANGED inspVars

-----------------------------------------------------------------------------
(* An inspection.                                                          *)

\* A server that the policy does not allow is refused before anything happens;
\* the release that follows finds nothing of this inspection's.
Begins(c) ==
    /\ insp[c].at = "idle" /\ inspections < MaxInspections
    /\ GetSession(c)
    /\ insp' = [insp EXCEPT ![c] = [NoInspection EXCEPT !.at = "opening"]]
    /\ inspections' = inspections + 1
    /\ UNCHANGED <<strategy, tries, errors>>

\* The session's promise has settled.
Opened(c) ==
    LET n == call[c].awaits IN
    /\ insp[c].at = "opening"
    /\ GetReturns(c)
    /\ insp' = [insp EXCEPT ![c] =
                  IF attempt[n] = "failed"
                  THEN [@ EXCEPT !.at = "closing", !.code = ConnectCode(errors[n])]
                  ELSE [@ EXCEPT !.at = "tools", !.session = n]]
    /\ UNCHANGED <<strategy, tries, errors, inspections>>

\* A listing ends at a page without a next cursor, or with one seen before.
LastPage(i) == After[i.cursor] = 0 \/ After[i.cursor] \in i.visited

NextPage(i) == [i EXCEPT !.cursor = After[@], !.visited = @ \cup {After[i.cursor]}]

\* collectToolCatalog(): one page of it.
ToolsPage(c) ==
    LET i == [insp[c] EXCEPT !.tools = @ \cup {insp[c].cursor}] IN
    /\ insp[c].at = "tools" /\ attempt[insp[c].session] = "open"
    /\ insp' = [insp EXCEPT ![c] =
                  IF LastPage(i)
                  THEN [i EXCEPT !.at = "resources", !.cursor = 0, !.visited = {}]
                  ELSE NextPage(i)]
    /\ UNCHANGED <<vars, strategy, tries, errors, inspections>>

ToolsFail(c) ==
    /\ insp[c].at = "tools"
    /\ insp' = [insp EXCEPT ![c].at = "closing", ![c].code = "UPSTREAM_TRANSPORT_ERROR"]
    /\ UNCHANGED <<vars, strategy, tries, errors, inspections>>

ResourcesPage(c) ==
    LET i == [insp[c] EXCEPT !.resources = @ \cup {insp[c].cursor}] IN
    /\ insp[c].at = "resources" /\ attempt[insp[c].session] = "open"
    /\ insp' = [insp EXCEPT ![c] = IF LastPage(i) THEN [i EXCEPT !.at = "closing"]
                                                  ELSE NextPage(i)]
    /\ UNCHANGED <<vars, strategy, tries, errors, inspections>>

\* collectResourcesBestEffort(): whatever was read is dropped, and the
\* inspection succeeds without resources.
ResourcesFail(c) ==
    /\ insp[c].at = "resources"
    /\ insp' = [insp EXCEPT ![c].at = "closing", ![c].resources = {}]
    /\ UNCHANGED <<vars, strategy, tries, errors, inspections>>

\* `finally`: releaseSession() finds no entry, or somebody's.
Released(c) == entry = 0

Closes(c) ==
    /\ insp[c].at = "closing"
    /\ IF Released(c)
       THEN /\ insp' = [insp EXCEPT ![c].at = "idle"]
            /\ UNCHANGED vars
       ELSE /\ ReleaseSession(c)
            /\ insp' = [insp EXCEPT ![c].at = "releasing"]
    /\ UNCHANGED <<strategy, tries, errors, inspections>>

Closed(c) ==
    /\ insp[c].at = "releasing"
    /\ ReleaseReturns(c)
    /\ insp' = [insp EXCEPT ![c].at = "idle"]
    /\ UNCHANGED <<strategy, tries, errors, inspections>>

ServerDies(n) == Dies(n) /\ UNCHANGED inspVars

InspInit ==
    /\ Init
    /\ strategy \in Strategies
    /\ tries = [n \in Attempt |-> 0] /\ errors = [n \in Attempt |-> {}]
    /\ insp = [c \in Caller |-> NoInspection] /\ inspections = 0

InspStep(c) ==
    \/ Opened(c) \/ ToolsPage(c) \/ ToolsFail(c) \/ ResourcesPage(c) \/ ResourcesFail(c)
    \/ Closes(c) \/ Closed(c)

InspNext ==
    \/ \E c \in Caller : Begins(c) \/ InspStep(c)
    \/ \E n \in Attempt : \/ Opens(n) \/ SpawnFails(n) \/ Refuses(n) \/ ServerDies(n)
                          \/ \E error \in Failure : TransportFails(n, error)

InspSpec == InspInit /\ [][InspNext]_inspAllVars

\* Every request of an inspection is answered or fails (the SDK times it out).
InspFair ==
    /\ InspSpec
    /\ \A n \in Attempt : WF_inspAllVars(\/ Opens(n) \/ SpawnFails(n) \/ Refuses(n)
                                     \/ \E error \in Failure : TransportFails(n, error))
    /\ \A c \in Caller : WF_inspAllVars(InspStep(c))

-----------------------------------------------------------------------------
(* Properties.                                                             *)

InspTypeOK ==
    /\ TypeOK
    /\ strategy \in Strategies
    /\ tries \in [Attempt -> 0..2] /\ errors \in [Attempt -> SUBSET Failure]
    /\ insp \in [Caller -> InspectionRecord] /\ inspections \in 0..MaxInspections

\* When no inspection runs, none has left a connection behind: nothing is in
\* the map, and nothing is open or about to be.  (Two inspections at a time
\* cannot break this; three can, see README.)
NothingLeft ==
    (\A c \in Caller : insp[c].at = "idle") =>
        /\ entry = 0
        /\ \A n \in Attempt : attempt[n] \in {"unused", "failed", "closed"}

\* An inspection that succeeds has seen every tool, whatever the cursors say
\* and whoever has released its session meanwhile.
ToolsComplete ==
    \A c \in Caller :
        insp[c].at \in {"resources", "closing", "releasing"} /\ insp[c].code = "none"
        => Reached[MaxCursor] \subseteq insp[c].tools

\* Every inspection ends, even of a server whose cursors go round in a circle.
InspectionEnds == \A c \in Caller : (insp[c].at # "idle") ~> (insp[c].at = "idle")
=============================================================================
