---------------------------- MODULE CommandGate ----------------------------
(***************************************************************************)
(* Idempotency of POST /rooms/:id/commands: RoomStore.applyCommand() looks *)
(* the key up, executes the command if it is new, and remembers the        *)
(* response once the command has succeeded.  A command that awaits (mount, *)
(* the last unmount of a server) leaves the key unknown while it runs.     *)
(*                                                                         *)
(* Clients resend a command whose response they have not seen.  What a     *)
(* command does to the room is RoomStore's subject; here it only counts.   *)
(***************************************************************************)
EXTENDS Naturals, Sequences, FiniteSets

CONSTANTS
    Key,                \* idempotency keys
    Command,            \* commands, up to stableStringify()
    Awaiting,           \* those that suspend while they execute
    Request,            \* slots for requests being executed
    None,
    IdempotencyKeyLimit,
    Patient,            \* a client resends only when its last request has ended
    MaxSubmissions      \* bound: requests per key

ASSUME GateAssumption ==
    /\ Awaiting \subseteq Command
    /\ None \notin Key \cup Command
    /\ IdempotencyKeyLimit \in Nat \ {0}
    /\ Patient \in BOOLEAN
    /\ MaxSubmissions \in Nat

VARIABLES
    memory,         \* room.idempotency, in insertion order
    executing,      \* the command each slot executes
    executions,     \* how many commands have taken effect
    applied,        \* how many of them under each key
    forgotten,      \* how often each key was evicted
    submissions,    \* how often each key was submitted
    answer          \* the last answer each key's client was given

vars == <<memory, executing, executions, applied, forgotten, submissions, answer>>

-----------------------------------------------------------------------------
Entry == [key : Key, command : Command, response : Nat]
Idle == [key |-> None, command |-> None]
NoAnswer == [kind |-> "none", command |-> None, response |-> 0]
Answer == [kind : {"none", "response", "conflict", "error"},
           command : Command \cup {None}, response : Nat]

Known(k) == {j \in 1..Len(memory) : memory[j].key = k}
Running(k) == {r \in Request : executing[r].key = k}
Keys(m) == {m[j].key : j \in 1..Len(m)}

-----------------------------------------------------------------------------
(* Faulty variants; PROJECT.json names them as mutants.                    *)

Inserted_BlankResponse(entry) ==
    IF Known(entry.key) # {} THEN memory
    ELSE Append(memory, [entry EXCEPT !.response = 0])

Inserted_NotAtAll(entry) == memory

-----------------------------------------------------------------------------
\* "while (size > limit)": the oldest keys are deleted first.
Evicted(m) == IF Len(m) <= IdempotencyKeyLimit THEN m
              ELSE SubSeq(m, Len(m) - IdempotencyKeyLimit + 1, Len(m))

\* Map.set(): a key that is there keeps its place and gets the new value.
Inserted(entry) ==
    IF Known(entry.key) # {}
    THEN [j \in 1..Len(memory) |-> IF memory[j].key = entry.key THEN entry ELSE memory[j]]
    ELSE Append(memory, entry)

\* The command took effect: remember it, evict, answer.
Succeed(k, c) ==
    LET n == executions + 1
        stored == Inserted([key |-> k, command |-> c, response |-> n])
        kept == Evicted(stored) IN
    /\ executions' = n
    /\ applied' = [applied EXCEPT ![k] = @ + 1]
    /\ memory' = kept
    /\ forgotten' = [x \in Key |-> IF x \in Keys(stored) \ Keys(kept)
                                   THEN forgotten[x] + 1 ELSE forgotten[x]]
    /\ answer' = [answer EXCEPT ![k] = [kind |-> "response", command |-> c, response |-> n]]

\* The command threw: nothing is remembered, the client may try again.
Fail(k, c) ==
    /\ answer' = [answer EXCEPT ![k] = [kind |-> "error", command |-> c, response |-> 0]]
    /\ UNCHANGED <<memory, executions, applied, forgotten>>

-----------------------------------------------------------------------------
Init ==
    /\ memory = <<>>
    /\ executing = [r \in Request |-> Idle]
    /\ executions = 0
    /\ applied = [k \in Key |-> 0]
    /\ forgotten = [k \in Key |-> 0]
    /\ submissions = [k \in Key |-> 0]
    /\ answer = [k \in Key |-> NoAnswer]

\* A client sends, or sends again, command c under key k.
MaySubmit(k) == submissions[k] < MaxSubmissions /\ (Patient => Running(k) = {})
Submitted(k) == submissions' = [submissions EXCEPT ![k] = @ + 1]

\* The key is known with the same command: the remembered response.
AnswerAgain(k, c) ==
    /\ MaySubmit(k)
    /\ \E j \in Known(k) :
           /\ memory[j].command = c
           /\ answer' = [answer EXCEPT ![k] = [kind |-> "response", command |-> c,
                                               response |-> memory[j].response]]
    /\ Submitted(k)
    /\ UNCHANGED <<memory, executing, executions, applied, forgotten>>

\* The key is known with another command: IDEMPOTENCY_CONFLICT.
RejectReuse(k, c) ==
    /\ MaySubmit(k)
    /\ \E j \in Known(k) : memory[j].command # c
    /\ answer' = [answer EXCEPT ![k] = [kind |-> "conflict", command |-> c, response |-> 0]]
    /\ Submitted(k)
    /\ UNCHANGED <<memory, executing, executions, applied, forgotten>>

\* A new key, and a command that does not await: done before anything else runs.
ExecuteAtOnce(k, c) ==
    /\ MaySubmit(k) /\ Known(k) = {}
    /\ c \notin Awaiting
    /\ Succeed(k, c) \/ Fail(k, c)
    /\ Submitted(k)
    /\ UNCHANGED executing

\* A new key, and a command that suspends at its first await.
BeginExecution(r, k, c) ==
    /\ MaySubmit(k) /\ Known(k) = {}
    /\ c \in Awaiting
    /\ executing[r] = Idle
    /\ executing' = [executing EXCEPT ![r] = [key |-> k, command |-> c]]
    /\ Submitted(k)
    /\ UNCHANGED <<memory, executions, applied, forgotten, answer>>

FinishExecution(r) ==
    /\ executing[r] # Idle
    /\ \/ Succeed(executing[r].key, executing[r].command)
       \/ Fail(executing[r].key, executing[r].command)
    /\ executing' = [executing EXCEPT ![r] = Idle]
    /\ UNCHANGED submissions

Next ==
    \/ \E k \in Key, c \in Command : \/ AnswerAgain(k, c)
                                     \/ RejectReuse(k, c)
                                     \/ ExecuteAtOnce(k, c)
    \/ \E r \in Request, k \in Key, c \in Command : BeginExecution(r, k, c)
    \/ \E r \in Request : FinishExecution(r)

Spec == Init /\ [][Next]_vars

-----------------------------------------------------------------------------
(* Properties.                                                             *)

\* Types; the map never holds more than the limit between two requests.
TypeOK ==
    /\ memory \in Seq(Entry) /\ Len(memory) <= IdempotencyKeyLimit
    /\ executing \in [Request -> [key : Key, command : Command] \cup {Idle}]
    /\ executions \in Nat
    /\ applied \in [Key -> Nat]
    /\ forgotten \in [Key -> Nat]
    /\ submissions \in [Key -> Nat]
    /\ answer \in [Key -> Answer]

\* However often a client sends a command, it takes effect once per time that
\* its key is forgotten (store.test.ts:16, "enforces idempotency with same
\* payload replay"), as long as the client waits for a request to end before
\* it sends the command again.
AppliedOnce == \A k \in Key : applied[k] <= 1 + forgotten[k]

\* Two responses to one key differ only if it was forgotten in between, and a
\* key is never answered with another command's response.
SameAnswer ==
    [][\A k \in Key :
          answer[k].kind = "response" /\ answer'[k].kind = "response" =>
              \/ answer'[k] = answer[k]
              \/ forgotten[k] > 0]_vars
=============================================================================
