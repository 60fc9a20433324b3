--------------------------- MODULE SessionFactory ---------------------------
(***************************************************************************)
(* RealMcpSessionFactory (services/roomd/src/mcp.ts) for one room and one  *)
(* server: a map entry that holds the promise of a connection, shared by   *)
(* everybody who asks while it is there.                                   *)
(*                                                                         *)
(* The map is keyed by room and server, not by attempt.  A release takes   *)
(* the entry out before the attempt has ended, so that a second attempt    *)
(* may be under way when the first one fails, and the failure handler of   *)
(* the first deletes whatever entry it finds.  The callers compose these    *)
(* actions: see Inspection.                                                *)
(***************************************************************************)
EXTENDS Naturals, FiniteSets

CONSTANTS
    Caller,         \* getSession() or releaseSession() calls in flight
    MaxAttempts     \* bound: connection attempts

ASSUME FactoryAssumption == MaxAttempts \in Nat

VARIABLES
    entry,      \* the attempt whose promise the map holds, 0 if none
    attempt,    \* what became of each attempt
    call        \* what each caller awaits

vars == <<entry, attempt, call>>

-----------------------------------------------------------------------------
Attempt == 1..MaxAttempts
Status == {"unused", "connecting", "open", "dead", "failed", "closed"}
Idle == [op |-> "idle", awaits |-> 0]
Call == [op : {"idle", "get", "release"}, awaits : {0} \cup Attempt]

Unused == {n \in Attempt : attempt[n] = "unused"}
NextAttempt == CHOOSE n \in Unused : \A m \in Unused : n <= m

-----------------------------------------------------------------------------
(* Faulty variants; PROJECT.json names them as mutants.                    *)

GetSession_NeverShares(c) ==
    /\ call[c] = Idle /\ Unused # {}
    /\ entry' = NextAttempt
    /\ attempt' = [attempt EXCEPT ![NextAttempt] = "connecting"]
    /\ call' = [call EXCEPT ![c] = [op |-> "get", awaits |-> NextAttempt]]

-----------------------------------------------------------------------------
\* The catch handler of an attempt: this.sessions.delete(key).
Forget == entry' = 0

Init ==
    /\ entry = 0
    /\ attempt = [n \in Attempt |-> "unused"]
    /\ call = [c \in Caller |-> Idle]

\* getSession(): join the attempt in the map, or start one.
GetSession(c) ==
    /\ call[c] = Idle
    /\ IF entry # 0
       THEN /\ call' = [call EXCEPT ![c] = [op |-> "get", awaits |-> entry]]
            /\ UNCHANGED <<entry, attempt>>
       ELSE /\ Unused # {}
            /\ entry' = NextAttempt
            /\ attempt' = [attempt EXCEPT ![NextAttempt] = "connecting"]
            /\ call' = [call EXCEPT ![c] = [op |-> "get", awaits |-> NextAttempt]]

\* releaseSession(): take the entry out, then wait for its attempt.  With no
\* entry the call returns at once.
ReleaseSession(c) ==
    /\ call[c] = Idle /\ entry # 0
    /\ entry' = 0
    /\ call' = [call EXCEPT ![c] = [op |-> "release", awaits |-> entry]]
    /\ UNCHANGED attempt

Connected(n) ==
    /\ attempt[n] = "connecting"
    /\ attempt' = [attempt EXCEPT ![n] = "open"]
    /\ UNCHANGED <<entry, call>>

ConnectFails(n) ==
    /\ attempt[n] = "connecting"
    /\ attempt' = [attempt EXCEPT ![n] = "failed"]
    /\ Forget
    /\ UNCHANGED call

\* The server's process or socket goes away.  Nothing tells the factory: the
\* entry stays, and getSession() goes on returning its session.
Dies(n) ==
    /\ attempt[n] = "open"
    /\ attempt' = [attempt EXCEPT ![n] = "dead"]
    /\ UNCHANGED <<entry, call>>

\* The awaited promise has settled: getSession() returns its session or throws.
GetReturns(c) ==
    /\ call[c].op = "get"
    /\ attempt[call[c].awaits] # "connecting"
    /\ call' = [call EXCEPT ![c] = Idle]
    /\ UNCHANGED <<entry, attempt>>

\* The release closes the session it awaited; a failed attempt has none.
ReleaseReturns(c) ==
    LET n == call[c].awaits IN
    /\ call[c].op = "release"
    /\ attempt[n] # "connecting"
    /\ attempt' = [attempt EXCEPT ![n] = IF @ \in {"open", "dead"} THEN "closed" ELSE @]
    /\ call' = [call EXCEPT ![c] = Idle]
    /\ UNCHANGED entry

-----------------------------------------------------------------------------
(* Properties.                                                             *)

\* Types, and that whoever waits, waits for an attempt that was started.
TypeOK ==
    /\ entry \in {0} \cup Attempt
    /\ attempt \in [Attempt -> Status]
    /\ call \in [Caller -> Call]
    /\ entry # 0 => attempt[entry] \in {"connecting", "open", "dead"}
    /\ \A c \in Caller : call[c].op # "idle" =>
           call[c].awaits # 0 /\ attempt[call[c].awaits] # "unused"

\* A server is connected to once: two connections overlap only while a release
\* still has to close the older one.
OneConnection ==
    \A m, n \in Attempt :
        /\ m < n
        /\ attempt[m] \in {"connecting", "open"}
        /\ attempt[n] \in {"connecting", "open"}
        => \E c \in Caller : call[c].op = "release" /\ call[c].awaits = m

=============================================================================
