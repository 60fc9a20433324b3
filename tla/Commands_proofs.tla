-------------------------- MODULE Commands_proofs --------------------------
(* Two parts of a command's way through the room.                          *)
(*                                                                         *)
(* Idempotency for any number of keys, commands and requests, and any      *)
(* limit: with clients that wait for an answer before they send again, a   *)
(* command takes effect once for each time that its key is forgotten, and  *)
(* gets one answer as long as it is not.                                   *)
(*                                                                         *)
(* The layout, for any instances and a grid of any width: where a command  *)
(* leaves the containers, and when one command does what two would.        *)
EXTENDS CommandGate, GridLayout, Lists_proofs, FiniteSetTheorems

-----------------------------------------------------------------------------
(* The inductive invariant.                                                *)

GateTypes ==
    /\ memory \in Seq(Entry) /\ Len(memory) <= IdempotencyKeyLimit
    /\ executing \in [Request -> [key : Key, command : Command] \cup {Idle}]
    /\ executions \in Nat
    /\ applied \in [Key -> Nat] /\ forgotten \in [Key -> Nat]
    /\ DOMAIN answer = Key

\* The map has a key at most once.
KeysDiffer ==
    \A i, j \in 1..Len(memory) : memory[i].key = memory[j].key => i = j

\* One request at a time executes under a key, and only under an unknown one.
OneRequestPerKey ==
    /\ \A q, r \in Request : executing[q] # Idle /\ executing[q].key = executing[r].key => q = r
    /\ \A r \in Request : executing[r] # Idle => executing[r].key \notin Keys(memory)

\* Every execution under a key is either remembered or has been forgotten.
AppliedIsCounted ==
    \A k \in Key : applied[k] = forgotten[k] + IF k \in Keys(memory) THEN 1 ELSE 0

\* What a client was answered is what is remembered for it.
AnswerIsRemembered ==
    \A k \in Key : answer[k].kind = "response" /\ forgotten[k] = 0 =>
        \E j \in 1..Len(memory) :
            /\ memory[j].key = k
            /\ answer[k] = [kind |-> "response", command |-> memory[j].command,
                            response |-> memory[j].response]

GateInvariant ==
    GateTypes /\ KeysDiffer /\ OneRequestPerKey /\ AppliedIsCounted /\ AnswerIsRemembered

-----------------------------------------------------------------------------
(* Remembering a response.                                                 *)

LEMMA KeysOfMemory ==
    ASSUME NEW m, NEW x
    PROVE  x \in Keys(m) <=> \E j \in 1..Len(m) : m[j].key = x
BY DEF Keys

LEMMA UnknownKey ==
    ASSUME NEW k
    PROVE  Known(k) = {} <=> k \notin Keys(memory)
BY DEF Known, Keys

\* A new key goes to the end, and at the limit the first one goes.
LEMMA SucceedStores ==
    ASSUME GateTypes, NEW k \in Key, NEW c \in Command, Known(k) = {}, Succeed(k, c)
    PROVE  LET e == [key |-> k, command |-> c, response |-> executions + 1] IN
           \E d \in {0, 1} :
               /\ d <= Len(memory)
               /\ memory' \in Seq(Entry) /\ Len(memory') = Len(memory) + 1 - d
               /\ Len(memory') <= IdempotencyKeyLimit
               /\ memory'[Len(memory')] = e
               /\ \A j \in 1..(Len(memory) - d) : memory'[j] = memory[j + d]
               /\ forgotten' = [x \in Key |->
                     IF x \in (Keys(memory) \cup {k}) \ Keys(memory') THEN forgotten[x] + 1
                     ELSE forgotten[x]]
<1> DEFINE e == [key |-> k, command |-> c, response |-> executions + 1]
           L == Len(memory)
           stored == Append(memory, e)
<1>1. /\ memory \in Seq(Entry) /\ L \in Nat /\ L <= IdempotencyKeyLimit /\ e \in Entry
      /\ IdempotencyKeyLimit \in Nat \ {0}
    BY GateAssumption, LenProperties DEF GateTypes, Entry
<1>2. /\ stored \in Seq(Entry) /\ Len(stored) = L + 1
      /\ \A j \in 1..L : stored[j] = memory[j]
      /\ stored[L + 1] = e
    BY <1>1, AppendProperties
<1>3. Keys(stored) = Keys(memory) \cup {k}
    <2> HIDE DEF stored
    <2>1. \A x : x \in Keys(stored) <=> x \in Keys(memory) \cup {k}
        <3>1. ASSUME NEW x
              PROVE  (\E j \in 1..(L + 1) : stored[j].key = x)
                     <=> x = k \/ \E j \in 1..L : memory[j].key = x
            <4>1. 1..(L + 1) = 1..L \cup {L + 1} /\ e.key = k
                BY <1>1
            <4> QED BY <1>2, <4>1
        <3>2. \A x : x \in Keys(stored) <=> \E j \in 1..(L + 1) : stored[j].key = x
            BY <1>2, KeysOfMemory
        <3>3. \A x : x \in Keys(memory) <=> \E j \in 1..L : memory[j].key = x
            BY KeysOfMemory
        <3> QED BY <3>1, <3>2, <3>3
    <2> QED BY <2>1
<1>4. Inserted(e) = stored
    <2>1. e.key = k
        OBVIOUS
    <2> QED BY <2>1 DEF Inserted
<1>5. /\ memory' = Evicted(stored)
      /\ forgotten' = [x \in Key |-> IF x \in Keys(stored) \ Keys(memory')
                                     THEN forgotten[x] + 1 ELSE forgotten[x]]
    BY <1>4 DEF Succeed
<1> HIDE DEF e, stored
<1>6. CASE L < IdempotencyKeyLimit
    <2>1. memory' = stored
        BY <1>1, <1>2, <1>5, <1>6 DEF Evicted
    <2>2. /\ 0 <= L /\ memory' \in Seq(Entry) /\ Len(memory') = L + 1 - 0
          /\ Len(memory') <= IdempotencyKeyLimit /\ memory'[Len(memory')] = e
          /\ \A j \in 1..(L - 0) : memory'[j] = memory[j + 0]
        BY <1>1, <1>2, <1>6, <2>1
    <2> QED BY <1>3, <1>5, <2>2 DEF e
<1>7. CASE L = IdempotencyKeyLimit
    <2>1. memory' = SubSeq(stored, 2, L + 1)
        BY <1>1, <1>2, <1>5, <1>7 DEF Evicted
    <2>2. \A j \in 2..(L + 1) : stored[j] \in Entry
        BY <1>1, <1>2, ElementOfSeq
    <2>3. /\ memory' \in Seq(Entry) /\ Len(memory') = L
          /\ \A j \in 1..L : memory'[j] = stored[j + 1]
        <3>1. 2 \in Int /\ L + 1 \in Int /\ 2 <= L + 1
            BY <1>1, <1>7
        <3>2. /\ SubSeq(stored, 2, L + 1) \in Seq(Entry)
              /\ Len(SubSeq(stored, 2, L + 1)) = (L + 1) - 2 + 1
              /\ \A j \in 1..((L + 1) - 2 + 1) :
                     SubSeq(stored, 2, L + 1)[j] = stored[2 + j - 1]
            BY <2>2, <3>1, SubSeqProperties
        <3>3. (L + 1) - 2 + 1 = L /\ \A j \in 1..L : 2 + j - 1 = j + 1
            BY <1>1
        <3> QED BY <2>1, <3>2, <3>3
    <2>4. /\ 1 <= L /\ memory' \in Seq(Entry) /\ Len(memory') = L + 1 - 1
          /\ Len(memory') <= IdempotencyKeyLimit /\ memory'[Len(memory')] = e
          /\ \A j \in 1..(L - 1) : memory'[j] = memory[j + 1]
        BY <1>1, <1>2, <1>7, <2>3
    <2> QED BY <1>3, <1>5, <2>4 DEF e
<1> QED BY <1>1, <1>6, <1>7

-----------------------------------------------------------------------------
(* The answer of a key changes only once the key was forgotten.            *)
OneAnswer ==
    \A k \in Key :
        answer[k].kind = "response" /\ answer'[k].kind = "response" =>
            answer'[k] = answer[k] \/ forgotten[k] > 0

\* A command that takes effect, with no other request left under its key.
LEMMA SucceedKeeps ==
    ASSUME GateInvariant, NEW k \in Key, NEW c \in Command, Known(k) = {}, Succeed(k, c),
           executing' \in [Request -> [key : Key, command : Command] \cup {Idle}],
           \A q \in Request : executing'[q] # Idle =>
               executing'[q] = executing[q] /\ executing[q].key # k
    PROVE  GateInvariant' /\ OneAnswer
<1> DEFINE e == [key |-> k, command |-> c, response |-> executions + 1]
           L == Len(memory)
           N == Len(memory')
<1>1. GateTypes /\ k \notin Keys(memory) /\ L \in Nat
    BY UnknownKey, LenProperties DEF GateInvariant, GateTypes
<1>2. PICK d \in {0, 1} :
          /\ d <= L
          /\ memory' \in Seq(Entry) /\ N = L + 1 - d
          /\ N <= IdempotencyKeyLimit
          /\ memory'[N] = e
          /\ \A j \in 1..(L - d) : memory'[j] = memory[j + d]
          /\ forgotten' = [x \in Key |->
                IF x \in (Keys(memory) \cup {k}) \ Keys(memory') THEN forgotten[x] + 1
                ELSE forgotten[x]]
    BY <1>1, SucceedStores
<1>3. /\ N \in Nat /\ N >= 1 /\ e.key = k /\ d \in Nat
      /\ \A j \in 1..N : j = N \/ (j \in 1..(L - d) /\ j + d \in 1..L)
    BY <1>1, <1>2
<1>4. /\ executions' = executions + 1
      /\ applied' = [applied EXCEPT ![k] = applied[k] + 1]
      /\ answer' = [answer EXCEPT ![k] = [kind |-> "response", command |-> c,
                                          response |-> executions + 1]]
    BY <1>1 DEF Succeed, GateTypes
<1> HIDE DEF e
<1>5. \A x : x \in Keys(memory) <=> \E j \in 1..L : memory[j].key = x
    BY KeysOfMemory
<1>6. \A x : x \in Keys(memory') <=> \E j \in 1..N : memory'[j].key = x
    BY KeysOfMemory
<1> HIDE DEF L, N
<1>7. k \in Keys(memory') /\ \A x \in Keys(memory') : x = k \/ x \in Keys(memory)
    <2>1. N \in 1..N
        BY <1>3
    <2>2. ASSUME NEW j \in 1..N
          PROVE  memory'[j].key = k \/ memory'[j].key \in Keys(memory)
        BY <1>2, <1>3, <1>5
    <2> QED BY <1>2, <1>3, <1>6, <2>1, <2>2
<1>8. GateTypes'
    <2>1. forgotten' \in [Key -> Nat]
        BY <1>1, <1>2 DEF GateTypes
    <2> QED BY <1>1, <1>2, <1>4, <2>1 DEF GateTypes, N
<1>9. KeysDiffer'
    <2>1. ASSUME NEW i \in 1..N, NEW j \in 1..N, memory'[i].key = memory'[j].key, i # j
          PROVE  FALSE
        <3>1. CASE i # N /\ j # N
            <4>1. /\ memory[i + d].key = memory[j + d].key
                  /\ i + d \in 1..L /\ j + d \in 1..L
                BY <1>2, <1>3, <2>1, <3>1
            <4>2. i + d = j + d
                BY <4>1 DEF GateInvariant, KeysDiffer, L
            <4> QED BY <1>3, <2>1, <4>2
        <3>2. CASE i = N
            <4>1. memory[j + d].key = k /\ j + d \in 1..L
                BY <1>2, <1>3, <2>1, <3>2
            <4> QED BY <1>1, <1>5, <4>1
        <3>3. CASE j = N
            <4>1. memory[i + d].key = k /\ i + d \in 1..L
                BY <1>2, <1>3, <2>1, <3>3
            <4> QED BY <1>1, <1>5, <4>1
        <3> QED BY <3>1, <3>2, <3>3
    <2> QED BY <2>1 DEF KeysDiffer, N
<1>10. OneRequestPerKey'
    <2>1. ASSUME NEW q \in Request, executing'[q] # Idle
          PROVE  /\ executing[q] # Idle /\ executing'[q] = executing[q]
                 /\ executing'[q].key \notin Keys(memory')
        <3>1. executing'[q] = executing[q] /\ executing[q].key # k
            BY <2>1
        <3> QED BY <1>7, <2>1, <3>1 DEF GateInvariant, OneRequestPerKey
    <2>2. ASSUME NEW q \in Request, NEW r \in Request, executing'[q] # Idle,
                 executing'[q].key = executing'[r].key
          PROVE  q = r
        <3>1. executing'[q] \in [key : Key, command : Command]
            BY <2>2
        <3>2. executing'[r] # Idle
            BY <2>2, <3>1, GateAssumption DEF Idle
        <3> QED BY <2>1, <2>2, <3>2 DEF GateInvariant, OneRequestPerKey
    <2> QED BY <2>1, <2>2 DEF OneRequestPerKey
<1>11. AppliedIsCounted'
    <2>1. ASSUME NEW x \in Key
          PROVE  applied'[x] = forgotten'[x] + IF x \in Keys(memory') THEN 1 ELSE 0
        <3>1. /\ applied[x] = forgotten[x] + IF x \in Keys(memory) THEN 1 ELSE 0
              /\ applied[x] \in Nat /\ forgotten[x] \in Nat
            BY <1>1 DEF GateInvariant, AppliedIsCounted, GateTypes
        <3>2. CASE x = k
            BY <1>1, <1>2, <1>4, <1>7, <3>1, <3>2 DEF GateTypes
        <3>3. CASE x # k
            BY <1>1, <1>2, <1>4, <1>7, <3>1, <3>3 DEF GateTypes
        <3> QED BY <3>2, <3>3
    <2> QED BY <2>1 DEF AppliedIsCounted
<1>12. AnswerIsRemembered'
    <2>1. ASSUME NEW x \in Key, answer'[x].kind = "response", forgotten'[x] = 0
          PROVE  \E j \in 1..N :
                     /\ memory'[j].key = x
                     /\ answer'[x] = [kind |-> "response", command |-> memory'[j].command,
                                      response |-> memory'[j].response]
        <3>1. CASE x = k
            <4>1. answer'[k] = [kind |-> "response", command |-> e.command,
                                response |-> e.response]
                BY <1>1, <1>4 DEF GateTypes, e
            <4> QED BY <1>2, <1>3, <3>1, <4>1
        <3>2. CASE x # k
            <4>1. answer'[x] = answer[x] /\ forgotten[x] = 0 /\ forgotten[x] \in Nat
                BY <1>1, <1>2, <1>4, <2>1, <3>2 DEF GateTypes
            <4>2. PICK i \in 1..L :
                      /\ memory[i].key = x
                      /\ answer[x] = [kind |-> "response", command |-> memory[i].command,
                                      response |-> memory[i].response]
                BY <2>1, <4>1 DEF GateInvariant, AnswerIsRemembered, L
            <4>3. x \in Keys(memory')
                BY <1>2, <1>5, <2>1, <4>1, <4>2
            <4>4. PICK j \in 1..N : memory'[j].key = x
                BY <1>6, <4>3
            <4>5. j + d \in 1..L /\ memory'[j] = memory[j + d]
                BY <1>2, <1>3, <3>2, <4>4
            <4>6. j + d = i
                BY <4>2, <4>4, <4>5 DEF GateInvariant, KeysDiffer, L
            <4> QED BY <4>1, <4>2, <4>4, <4>5, <4>6
        <3> QED BY <3>1, <3>2
    <2> QED BY <2>1 DEF AnswerIsRemembered, N
<1>13. OneAnswer
    <2>1. ASSUME NEW x \in Key, answer[x].kind = "response", answer'[x] # answer[x]
          PROVE  forgotten[x] > 0
        <3>1. x = k /\ forgotten[x] \in Nat
            BY <1>1, <1>4, <2>1 DEF GateTypes
        <3>2. forgotten[x] # 0
            BY <1>1, <1>5, <2>1, <3>1 DEF GateInvariant, AnswerIsRemembered, L
        <3> QED BY <3>1, <3>2
    <2> QED BY <2>1 DEF OneAnswer
<1> QED BY <1>8, <1>9, <1>10, <1>11, <1>12, <1>13 DEF GateInvariant

-----------------------------------------------------------------------------
(* The other steps.                                                        *)

\* Nothing takes effect: at most one client gets an answer, a remembered
\* response if it is a response at all.
LEMMA NoEffectKeeps ==
    ASSUME GateInvariant, UNCHANGED <<memory, executions, applied, forgotten>>,
           OneRequestPerKey',
           executing' \in [Request -> [key : Key, command : Command] \cup {Idle}],
           DOMAIN answer' = Key,
           \A k \in Key :
               \/ answer'[k] = answer[k]
               \/ answer'[k].kind # "response"
               \/ \E j \in 1..Len(memory) :
                     /\ memory[j].key = k
                     /\ answer'[k] = [kind |-> "response", command |-> memory[j].command,
                                      response |-> memory[j].response]
    PROVE  GateInvariant' /\ OneAnswer
<1>1. GateTypes' /\ KeysDiffer' /\ AppliedIsCounted'
    BY DEF GateInvariant, GateTypes, KeysDiffer, AppliedIsCounted, Keys
<1>2. AnswerIsRemembered'
    <2>1. ASSUME NEW k \in Key, answer'[k].kind = "response", forgotten[k] = 0
          PROVE  \E j \in 1..Len(memory) :
                     /\ memory[j].key = k
                     /\ answer'[k] = [kind |-> "response", command |-> memory[j].command,
                                      response |-> memory[j].response]
        <3>1. CASE answer'[k] = answer[k]
            BY <2>1, <3>1 DEF GateInvariant, AnswerIsRemembered
        <3> QED BY <2>1, <3>1
    <2> QED BY <2>1 DEF AnswerIsRemembered
<1>3. ASSUME NEW k \in Key, answer[k].kind = "response", answer'[k].kind = "response"
      PROVE  answer'[k] = answer[k] \/ forgotten[k] > 0
    <2>1. CASE forgotten[k] = 0
        <3>1. PICK i \in 1..Len(memory) :
                  /\ memory[i].key = k
                  /\ answer[k] = [kind |-> "response", command |-> memory[i].command,
                                  response |-> memory[i].response]
            BY <1>3, <2>1 DEF GateInvariant, AnswerIsRemembered
        <3>2. \A j \in 1..Len(memory) : memory[j].key = k => j = i
            BY <3>1 DEF GateInvariant, KeysDiffer
        <3> QED BY <1>3, <3>1, <3>2
    <2>2. CASE forgotten[k] # 0
        BY <2>2 DEF GateInvariant, GateTypes
    <2> QED BY <2>1, <2>2
<1> QED BY <1>1, <1>2, <1>3 DEF GateInvariant, OneAnswer

LEMMA RequestsAreKept ==
    ASSUME GateInvariant, UNCHANGED <<memory, executing>>
    PROVE  /\ OneRequestPerKey'
           /\ executing' \in [Request -> [key : Key, command : Command] \cup {Idle}]
BY DEF GateInvariant, OneRequestPerKey, Keys, GateTypes

\* A known key: the remembered response, or a conflict.
LEMMA KnownKeyKeeps ==
    ASSUME GateInvariant, NEW k \in Key, NEW c \in Command,
           AnswerAgain(k, c) \/ RejectReuse(k, c)
    PROVE  GateInvariant' /\ OneAnswer
<1>1. UNCHANGED <<memory, executing, executions, applied, forgotten>> /\ DOMAIN answer = Key
    BY DEF AnswerAgain, RejectReuse, GateInvariant, GateTypes
<1>2. CASE AnswerAgain(k, c)
    <2>1. PICK j \in Known(k) :
              /\ memory[j].command = c
              /\ answer' = [answer EXCEPT ![k] = [kind |-> "response", command |-> c,
                                                  response |-> memory[j].response]]
        BY <1>2 DEF AnswerAgain
    <2>2. j \in 1..Len(memory) /\ memory[j].key = k
        BY DEF Known
    <2>3. /\ DOMAIN answer' = Key
          /\ answer'[k] = [kind |-> "response", command |-> memory[j].command,
                           response |-> memory[j].response]
          /\ \A x \in Key : x # k => answer'[x] = answer[x]
        BY <1>1, <2>1
    <2> QED BY <1>1, <2>2, <2>3, RequestsAreKept, NoEffectKeeps
<1>3. CASE RejectReuse(k, c)
    <2>1. /\ DOMAIN answer' = Key /\ answer'[k].kind = "conflict"
          /\ \A x \in Key : x # k => answer'[x] = answer[x]
        BY <1>1, <1>3 DEF RejectReuse
    <2> QED BY <1>1, <2>1, RequestsAreKept, NoEffectKeeps
<1> QED BY <1>2, <1>3

\* The end of an execution: the request's slot is free again.
LEMMA FinishKeeps ==
    ASSUME GateInvariant, NEW r \in Request, FinishExecution(r)
    PROVE  GateInvariant' /\ OneAnswer
<1> DEFINE k == executing[r].key
           c == executing[r].command
<1>1. /\ executing[r] # Idle /\ executing' = [executing EXCEPT ![r] = Idle]
      /\ executing \in [Request -> [key : Key, command : Command] \cup {Idle}]
      /\ DOMAIN answer = Key
    BY DEF FinishExecution, GateInvariant, GateTypes
<1>2. k \in Key /\ c \in Command /\ Known(k) = {}
    BY <1>1, UnknownKey DEF GateInvariant, OneRequestPerKey
<1>3. /\ executing' \in [Request -> [key : Key, command : Command] \cup {Idle}]
      /\ executing'[r] = Idle
      /\ \A q \in Request : q # r => executing'[q] = executing[q]
    BY <1>1
<1>4. \A q \in Request : executing'[q] # Idle =>
          executing'[q] = executing[q] /\ executing[q].key # k
    BY <1>1, <1>3 DEF GateInvariant, OneRequestPerKey
<1>5. CASE Succeed(k, c)
    <2> HIDE DEF k, c
    <2> QED BY <1>2, <1>3, <1>4, <1>5, SucceedKeeps
<1>6. CASE Fail(k, c)
    <2>1. /\ UNCHANGED <<memory, executions, applied, forgotten>>
          /\ answer' = [answer EXCEPT ![k] = [kind |-> "error", command |-> c, response |-> 0]]
        BY <1>6 DEF Fail
    <2> HIDE DEF k, c
    <2>2. /\ DOMAIN answer' = Key /\ answer'[k].kind = "error"
          /\ \A x \in Key : x # k => answer'[x] = answer[x]
        BY <1>1, <1>2, <2>1
    <2>3. OneRequestPerKey'
        <3>1. \A q \in Request : executing'[q] # Idle =>
                  executing[q] # Idle /\ executing'[q] = executing[q]
            BY <1>4
        <3>2. \A p, q \in Request :
                  executing'[p] # Idle /\ executing'[p].key = executing'[q].key
                  => executing'[q] # Idle
            BY <1>3, GateAssumption DEF Idle
        <3>3. Keys(memory)' = Keys(memory)
            BY <2>1 DEF Keys
        <3> QED BY <3>1, <3>2, <3>3 DEF GateInvariant, OneRequestPerKey
    <2> QED BY <1>3, <2>1, <2>2, <2>3, NoEffectKeeps
<1> QED BY <1>5, <1>6 DEF FinishExecution

\* A new key, while its client waits for nothing else.
LEMMA NewKeyKeeps ==
    ASSUME GateInvariant, Patient, NEW k \in Key, NEW c \in Command,
           ExecuteAtOnce(k, c) \/ \E r \in Request : BeginExecution(r, k, c)
    PROVE  GateInvariant' /\ OneAnswer
<1>1. /\ Known(k) = {} /\ \A q \in Request : executing[q].key # k
      /\ executing \in [Request -> [key : Key, command : Command] \cup {Idle}]
      /\ DOMAIN answer = Key
    BY DEF ExecuteAtOnce, BeginExecution, MaySubmit, Running, GateInvariant, GateTypes
<1>2. CASE ExecuteAtOnce(k, c)
    <2>1. UNCHANGED executing
        BY <1>2 DEF ExecuteAtOnce
    <2>2. CASE Succeed(k, c)
        BY <1>1, <2>1, <2>2, SucceedKeeps
    <2>3. CASE Fail(k, c)
        <3>1. /\ UNCHANGED <<memory, executions, applied, forgotten>>
              /\ DOMAIN answer' = Key /\ answer'[k].kind = "error"
              /\ \A x \in Key : x # k => answer'[x] = answer[x]
            BY <1>1, <2>3 DEF Fail
        <3> QED BY <2>1, <3>1, RequestsAreKept, NoEffectKeeps
    <2> QED BY <1>2, <2>2, <2>3 DEF ExecuteAtOnce
<1>3. ASSUME NEW r \in Request, BeginExecution(r, k, c)
      PROVE  GateInvariant' /\ OneAnswer
    <2>1. /\ UNCHANGED <<memory, executions, applied, forgotten, answer>>
          /\ executing' = [executing EXCEPT ![r] = [key |-> k, command |-> c]]
        BY <1>3 DEF BeginExecution
    <2>2. /\ executing' \in [Request -> [key : Key, command : Command] \cup {Idle}]
          /\ executing'[r] = [key |-> k, command |-> c]
          /\ \A q \in Request : q # r => executing'[q] = executing[q]
        BY <1>1, <2>1
    <2>3. Keys(memory)' = Keys(memory) /\ k \notin Keys(memory)
        BY <1>1, <2>1, UnknownKey DEF Keys
    <2>4. OneRequestPerKey'
        BY <1>1, <2>2, <2>3 DEF GateInvariant, OneRequestPerKey
    <2> QED BY <1>1, <2>1, <2>2, <2>4, NoEffectKeeps
<1> QED BY <1>2, <1>3

LEMMA GateInvariantInit == ASSUME Init PROVE GateInvariant
<1>1. /\ memory = <<>> /\ executing = [r \in Request |-> Idle] /\ executions = 0
      /\ applied = [k \in Key |-> 0] /\ forgotten = [k \in Key |-> 0]
      /\ answer = [k \in Key |-> NoAnswer]
    BY DEF Init
<1>2. memory \in Seq(Entry) /\ Len(memory) = 0 /\ 1..Len(memory) = {}
    BY <1>1, EmptySeq
<1>3. GateTypes
    BY <1>1, <1>2, GateAssumption DEF GateTypes
<1>4. KeysDiffer /\ Keys(memory) = {}
    BY <1>2 DEF KeysDiffer, Keys
<1>5. OneRequestPerKey
    BY <1>1, <1>4 DEF OneRequestPerKey
<1>6. AppliedIsCounted /\ AnswerIsRemembered
    BY <1>1, <1>4 DEF AppliedIsCounted, AnswerIsRemembered, NoAnswer
<1> QED BY <1>3, <1>4, <1>5, <1>6 DEF GateInvariant

LEMMA GateInvariantStep ==
    ASSUME GateInvariant, Patient, [Next]_vars
    PROVE  GateInvariant' /\ OneAnswer
<1>1. CASE UNCHANGED vars
    <2>1. UNCHANGED <<memory, executing, executions, applied, forgotten, answer>>
        BY <1>1 DEF vars
    <2>2. DOMAIN answer' = Key
        BY <2>1 DEF GateInvariant, GateTypes
    <2> QED BY <2>1, <2>2, RequestsAreKept, NoEffectKeeps
<1>2. CASE Next
    BY <1>2, KnownKeyKeeps, NewKeyKeeps, FinishKeeps DEF Next
<1> QED BY <1>1, <1>2

\* Clients that wait have each command applied once for each time that its key
\* was forgotten, with any number of keys, requests and remembered responses.
THEOREM WaitingClientsApplyOnce == Patient => (Spec => []AppliedOnce)
<1> SUFFICES ASSUME Patient
             PROVE  Spec => []AppliedOnce
    OBVIOUS
<1>1. Init => GateInvariant
    BY GateInvariantInit
<1>2. GateInvariant /\ [Next]_vars => GateInvariant'
    BY GateInvariantStep
<1>3. GateInvariant => AppliedOnce
    BY DEF GateInvariant, AppliedIsCounted, GateTypes, AppliedOnce
<1> QED BY <1>1, <1>2, <1>3, PTL DEF Spec

\* They get one answer for it until it is forgotten.
THEOREM WaitingClientsGetOneAnswer == Patient => (Spec => SameAnswer)
<1> SUFFICES ASSUME Patient
             PROVE  Spec => SameAnswer
    OBVIOUS
<1>1. Init => GateInvariant
    BY GateInvariantInit
<1>2. GateInvariant /\ [Next]_vars => GateInvariant'
    BY GateInvariantStep
<1>3. GateInvariant /\ [Next]_vars =>
          [\A k \in Key :
              answer[k].kind = "response" /\ answer'[k].kind = "response" =>
                  \/ answer'[k] = answer[k]
                  \/ forgotten[k] > 0]_vars
    BY GateInvariantStep DEF OneAnswer
<1> QED BY <1>1, <1>2, <1>3, PTL DEF Spec, SameAnswer
-----------------------------------------------------------------------------
(* Layout: containers inside the grid.                                     *)

\* Whatever is asked for, the result is inside the grid...
LEMMA NormalizeInGrid ==
    ASSUME NEW c \in Container
    PROVE  Normalize(c) \in Container /\ InGrid(Normalize(c))
<1> DEFINE w == Clamp(c.w, 1, GridWidth)
<1>1. c.x \in Int /\ c.y \in Int /\ c.w \in Int /\ c.h \in Int /\ GridWidth \in Nat \ {0}
    BY GridAssumption DEF Container
<1>2. w \in 1..GridWidth
    BY <1>1 DEF Clamp
<1>3. Clamp(c.x, 0, GridWidth - w) \in 0..(GridWidth - w)
  <2> HIDE DEF w
  <2> QED BY <1>1, <1>2 DEF Clamp
<1>4. AtLeast(0, c.y) \in Nat /\ AtLeast(1, c.h) \in Nat \ {0}
    BY <1>1 DEF AtLeast
<1> HIDE DEF w
<1>5. Normalize(c) = [x |-> Clamp(c.x, 0, GridWidth - w), y |-> AtLeast(0, c.y),
                      w |-> w, h |-> AtLeast(1, c.h)]
    BY DEF Normalize, w
<1> QED BY <1>1, <1>2, <1>3, <1>4, <1>5 DEF Container, InGrid

\* ... and what is inside the grid already stays as it is.
LEMMA NormalizeFixesGrid ==
    ASSUME NEW c \in Container, InGrid(c)
    PROVE  Normalize(c) = c
<1>1. /\ c = [x |-> c.x, y |-> c.y, w |-> c.w, h |-> c.h]
      /\ c.x \in Int /\ c.y \in Int /\ c.w \in Int /\ c.h \in Int
      /\ GridWidth \in Nat \ {0}
    BY GridAssumption DEF Container
<1>2. /\ c.x >= 0 /\ c.y >= 0 /\ c.w >= 1 /\ c.h >= 1 /\ c.x + c.w <= GridWidth
    BY DEF InGrid
<1>3. Clamp(c.w, 1, GridWidth) = c.w
    BY <1>1, <1>2 DEF Clamp
<1>4. Clamp(c.x, 0, GridWidth - c.w) = c.x
    BY <1>1, <1>2 DEF Clamp
<1>5. AtLeast(0, c.y) = c.y /\ AtLeast(1, c.h) = c.h
    BY <1>1, <1>2 DEF AtLeast
<1> QED BY <1>1, <1>3, <1>4, <1>5 DEF Normalize

InGridContainer == {c \in Container : InGrid(c)}

\* Every operation on one container leaves it inside the grid, for any shift,
\* any coordinate and any step, so no sequence of them can push it out.
THEOREM OperationsStayInGrid ==
    ASSUME NEW c \in Container, InGrid(c)
    PROVE  /\ \A dx, dy \in Int : Moved(c, dx, dy) \in InGridContainer
           /\ \A dw, dh \in Int : Resized(c, dw, dh) \in InGridContainer
           /\ \A axis \in Axis, value \in Int : Aligned(c, axis, value) \in InGridContainer
           /\ \A stepX, stepY \in Nat \ {0} : Snapped(c, stepX, stepY) \in InGridContainer
<1>1. c.x \in Int /\ c.y \in Int /\ c.w \in Int /\ c.h \in Int
    BY DEF Container
<1>2. ASSUME NEW dx \in Int, NEW dy \in Int PROVE Moved(c, dx, dy) \in InGridContainer
  <2>1. c.x + dx \in Int /\ c.y + dy \in Int
      BY <1>1
  <2>2. [c EXCEPT !.x = @ + dx, !.y = @ + dy] \in Container
      BY <2>1 DEF Container
  <2> QED BY <2>2, NormalizeInGrid DEF Moved, InGridContainer
<1>3. ASSUME NEW dw \in Int, NEW dh \in Int PROVE Resized(c, dw, dh) \in InGridContainer
  <2>1. c.w + dw \in Int /\ c.h + dh \in Int
      BY <1>1
  <2>2. [c EXCEPT !.w = @ + dw, !.h = @ + dh] \in Container
      BY <2>1 DEF Container
  <2> QED BY <2>2, NormalizeInGrid DEF Resized, InGridContainer
<1>4. ASSUME NEW axis \in Axis, NEW value \in Int PROVE Aligned(c, axis, value) \in InGridContainer
  <2>1. [c EXCEPT ![axis] = value] \in Container
      BY <1>1 DEF Container, Axis
  <2> QED BY <2>1, NormalizeInGrid DEF Aligned, InGridContainer
<1>5. ASSUME NEW stepX \in Nat \ {0}, NEW stepY \in Nat \ {0}
      PROVE  Snapped(c, stepX, stepY) \in InGridContainer
  <2>1. ASSUME NEW v \in Int, NEW step \in Nat \ {0}, NEW low \in {0, 1}
        PROVE  AtLeast(low, SnapTo(v, step)) \in Int
    <3> DEFINE a == 2 * v + step
               b == 2 * step
               quotient == a \div b
    <3>1. a \in Int /\ b \in Nat \ {0}
        OBVIOUS
    <3> HIDE DEF a, b
    <3>2. quotient \in Int
        BY <3>1
    <3>3. SnapTo(v, step) = quotient * step
        BY DEF SnapTo, a, b
    <3> HIDE DEF quotient
    <3>4. SnapTo(v, step) \in Int
        BY <3>2, <3>3
    <3> QED BY <3>4 DEF AtLeast
  <2>2. [x |-> AtLeast(0, SnapTo(c.x, stepX)), y |-> AtLeast(0, SnapTo(c.y, stepY)),
         w |-> AtLeast(1, SnapTo(c.w, stepX)), h |-> AtLeast(1, SnapTo(c.h, stepY))]
           \in Container
      BY <1>1, <2>1 DEF Container
  <2> QED BY <2>2, NormalizeInGrid DEF Snapped, InGridContainer
<1> QED BY <1>2, <1>3, <1>4, <1>5

\* A swap of two containers inside the grid undoes itself.
THEOREM SwapUndoesItself ==
    ASSUME NEW S, NEW cs \in [S -> Container], NEW i \in S, NEW j \in S, i # j,
           \A k \in S : InGrid(cs[k])
    PROVE  Swapped(Swapped(cs, i, j), i, j) = cs
<1>1. \A k \in S : Normalize(cs[k]) = cs[k]
    BY NormalizeFixesGrid
<1>2. Swapped(cs, i, j) = [cs EXCEPT ![i] = cs[j], ![j] = cs[i]]
    BY <1>1 DEF Swapped
<1>3. Swapped(cs, i, j)[i] = cs[j] /\ Swapped(cs, i, j)[j] = cs[i]
    BY <1>2
<1>4. Swapped(Swapped(cs, i, j), i, j) = [Swapped(cs, i, j) EXCEPT ![i] = cs[i], ![j] = cs[j]]
    BY <1>1, <1>3 DEF Swapped
<1> QED BY <1>2, <1>4

-----------------------------------------------------------------------------
(* Layout: the order.                                                      *)

Differ(s) == \A j, k \in 1..Len(s) : s[j] = s[k] => j = k

LEMMA DifferAppend ==
    ASSUME NEW S, NEW s \in Seq(S), NEW x \in S
    PROVE  Differ(Append(s, x)) <=> Differ(s) /\ x \notin Elements(s)
<1> DEFINE t == Append(s, x)
<1>1. /\ Len(t) = Len(s) + 1 /\ t[Len(s) + 1] = x /\ Len(s) \in Nat
      /\ \A k \in 1..Len(s) : t[k] = s[k]
    BY AppendProperties, LenProperties
<1> HIDE DEF t
<1>2. /\ 1..Len(t) = 1..Len(s) \cup {Len(s) + 1}
      /\ \A k \in 1..Len(s) : k # Len(s) + 1
    BY <1>1
<1>3. ASSUME Differ(t) PROVE Differ(s) /\ x \notin Elements(s)
    BY <1>1, <1>2, <1>3 DEF Differ, Elements
<1>4. ASSUME Differ(s), x \notin Elements(s) PROVE Differ(t)
    BY <1>1, <1>2, <1>4 DEF Differ, Elements
<1> QED BY <1>3, <1>4 DEF t

LEMMA DifferPrepend ==
    ASSUME NEW S, NEW s \in Seq(S), NEW x \in S, Differ(s), x \notin Elements(s)
    PROVE  Differ(<<x>> \o s)
<1> DEFINE t == <<x>> \o s
<1>1. <<x>> \in Seq(S) /\ Len(<<x>>) = 1 /\ <<x>>[1] = x /\ Len(s) \in Nat
    BY LenProperties
<1>2. /\ Len(t) = 1 + Len(s)
      /\ \A k \in 1..Len(<<x>>) + Len(s) :
             t[k] = IF k <= Len(<<x>>) THEN <<x>>[k] ELSE s[k - Len(<<x>>)]
    BY <1>1, ConcatProperties
<1> HIDE DEF t
<1>3. \A k \in 1..Len(t) : t[k] = IF k = 1 THEN x ELSE s[k - 1]
    BY <1>1, <1>2
<1>4. \A k \in 1..Len(t) : k # 1 => k - 1 \in 1..Len(s) /\ s[k - 1] # x
    BY <1>1, <1>2 DEF Elements
<1>5. ASSUME NEW j \in 1..Len(t), NEW k \in 1..Len(t), t[j] = t[k] PROVE j = k
  <2>1. CASE j = 1 \/ k = 1
      BY <1>3, <1>4, <1>5, <2>1
  <2>2. CASE j # 1 /\ k # 1
    <3>1. s[j - 1] = s[k - 1] /\ j - 1 \in 1..Len(s) /\ k - 1 \in 1..Len(s)
        BY <1>3, <1>4, <1>5, <2>2
    <3>2. j - 1 = k - 1
        BY <3>1 DEF Differ
    <3> QED BY <1>1, <1>2, <3>2
  <2> QED BY <2>1, <2>2
<1>6. Differ(t)
    BY <1>5 DEF Differ
<1> QED BY <1>6 DEF t

LEMMA DifferWithout ==
    ASSUME NEW S, NEW s \in Seq(S), NEW gone, Differ(s)
    PROVE  Differ(Without(s, gone))
<1> DEFINE P == {t \in Seq(S) : Differ(t) => Differ(Without(t, gone))}
<1>1. <<>> \in P
    BY WithoutEmpty, EmptySeq DEF Differ
<1>2. ASSUME NEW t \in Seq(S), NEW x \in S, t \in P
      PROVE  Append(t, x) \in P
  <2> SUFFICES ASSUME Differ(Append(t, x))
               PROVE  Differ(Without(Append(t, x), gone))
      BY AppendProperties
  <2>1. Differ(t) /\ x \notin Elements(t)
      BY DifferAppend
  <2>2. Differ(Without(t, gone))
      BY <1>2, <2>1
  <2>3. Without(t, gone) \in Seq(S) /\ x \notin Elements(Without(t, gone))
      BY <2>1, WithoutElements
  <2>4. Without(Append(t, x), gone) = IF x \in gone THEN Without(t, gone)
                                       ELSE Append(Without(t, gone), x)
      BY WithoutAppend
  <2>5. Differ(Append(Without(t, gone), x))
      BY <2>2, <2>3, DifferAppend
  <2> QED BY <2>2, <2>4, <2>5
<1>3. Seq(S) \subseteq P
  <2> HIDE DEF P
  <2> QED BY <1>1, <1>2, SeqInduces
<1> QED BY <1>3

\* What "bring-to-front" and "send-to-back" make of an order: the same ids, each
\* once.
LEMMA RestackedOrder ==
    ASSUME NEW S, NEW s \in Seq(S), NEW i \in Elements(s), Differ(s)
    PROVE  LET front == Append(Without(s, {i}), i)
               back == <<i>> \o Without(s, {i})
           IN /\ front \in Seq(S) /\ Elements(front) = Elements(s) /\ Differ(front)
              /\ back \in Seq(S) /\ Elements(back) = Elements(s) /\ Differ(back)
<1> DEFINE others == Without(s, {i})
<1>1. others \in Seq(S) /\ Elements(others) = Elements(s) \ {i} /\ Differ(others)
    BY WithoutElements, DifferWithout
<1>2. i \in S
    BY ElementsTyped
<1> HIDE DEF others
<1>3. i \notin Elements(others) /\ Elements(others) \cup {i} = Elements(s)
      /\ {i} \cup Elements(others) = Elements(s)
    BY <1>1
<1>4. Append(others, i) \in Seq(S) /\ Elements(Append(others, i)) = Elements(s)
  <2>1. Append(others, i) \in Seq(S)
      BY <1>1, <1>2, AppendProperties
  <2>2. Elements(Append(others, i)) = Elements(others) \cup {i}
      BY <1>1, <1>2, ElementsAppend
  <2> QED BY <1>3, <2>1, <2>2
<1>5. Differ(Append(others, i))
    BY <1>1, <1>2, <1>3, DifferAppend
<1>6. <<i>> \o others \in Seq(S) /\ Elements(<<i>> \o others) = Elements(s)
    BY <1>1, <1>2, <1>3, ElementsPrepend
<1>7. Differ(<<i>> \o others)
    BY <1>1, <1>2, <1>3, DifferPrepend
<1> QED BY <1>4, <1>5, <1>6, <1>7 DEF others

-----------------------------------------------------------------------------
(* Layout: the line of "distribute".                                       *)

LEMMA InsertProperties ==
    ASSUME NEW S, NEW s \in Seq(S), NEW p \in 1..Len(s) + 1, NEW x \in S
    PROVE  /\ InsertAt(s, p, x) \in Seq(S)
           /\ Len(InsertAt(s, p, x)) = Len(s) + 1
           /\ \A k \in 1..Len(s) + 1 :
                  InsertAt(s, p, x)[k] = IF k < p THEN s[k] ELSE IF k = p THEN x ELSE s[k - 1]
           /\ Elements(InsertAt(s, p, x)) = Elements(s) \cup {x}
<1> DEFINE n == Len(s)
           front == SubSeq(s, 1, p - 1)
           back == SubSeq(s, p, n)
           t == (front \o <<x>>) \o back
<1>1. n \in Nat /\ p \in 1..n+1 /\ \A k \in 1..n : s[k] \in S
    BY LenProperties, ElementOfSeq
<1>2. front \in Seq(S) /\ Len(front) = p - 1 /\ \A k \in 1..p-1 : front[k] = s[k]
  <2>1. /\ front \in Seq(S) /\ Len(front) = IF 1 <= p - 1 THEN (p - 1) - 1 + 1 ELSE 0
        /\ \A k \in 1..(p - 1) - 1 + 1 : front[k] = s[1 + k - 1]
    <3>1. 1 \in Int /\ p - 1 \in Int /\ \A k \in 1..p-1 : s[k] \in S
        BY <1>1
    <3> QED BY <3>1, SubSeqProperties
  <2>2. (p - 1) - 1 + 1 = p - 1 /\ (~(1 <= p - 1) => p - 1 = 0)
        /\ \A k \in 1..p-1 : 1 + k - 1 = k
      BY <1>1
  <2> HIDE DEF front
  <2> QED BY <2>1, <2>2
<1>3. back \in Seq(S) /\ Len(back) = n + 1 - p /\ \A k \in 1..n+1-p : back[k] = s[p + k - 1]
  <2>1. /\ back \in Seq(S) /\ Len(back) = IF p <= n THEN n - p + 1 ELSE 0
        /\ \A k \in 1..n-p+1 : back[k] = s[p + k - 1]
    <3>1. p \in Int /\ n \in Int /\ \A k \in p..n : s[k] \in S
        BY <1>1
    <3> QED BY <3>1, SubSeqProperties
  <2>2. n - p + 1 = n + 1 - p /\ (~(p <= n) => n + 1 - p = 0)
      BY <1>1
  <2> HIDE DEF back, n
  <2> QED BY <2>1, <2>2
<1>4. <<x>> \in Seq(S) /\ Len(<<x>>) = 1 /\ <<x>>[1] = x
    BY LenProperties
<1> HIDE DEF front, back, n
<1> DEFINE u == front \o <<x>>
<1>5. /\ u \in Seq(S) /\ Len(u) = Len(front) + Len(<<x>>)
      /\ \A k \in 1..Len(front) + Len(<<x>>) :
             u[k] = IF k <= Len(front) THEN front[k] ELSE <<x>>[k - Len(front)]
    BY <1>2, <1>4, ConcatProperties
<1> HIDE DEF u
<1>6. u \in Seq(S) /\ Len(u) = p /\ \A k \in 1..p : u[k] = IF k < p THEN s[k] ELSE x
  <2>1. Len(u) = p
      BY <1>1, <1>2, <1>4, <1>5
  <2>2. ASSUME NEW k \in 1..p PROVE u[k] = IF k < p THEN s[k] ELSE x
    <3>1. CASE k < p
      <4>1. k \in 1..p-1 /\ k <= Len(front) /\ k \in 1..Len(front) + Len(<<x>>)
          BY <1>1, <1>2, <1>4, <3>1
      <4> QED BY <1>2, <1>5, <3>1, <4>1
    <3>2. CASE k = p
      <4>1. ~(k <= Len(front)) /\ k - Len(front) = 1 /\ k \in 1..Len(front) + Len(<<x>>)
          BY <1>1, <1>2, <1>4, <3>2
      <4> QED BY <1>1, <1>4, <1>5, <3>2, <4>1
    <3> QED BY <1>1, <3>1, <3>2
  <2> QED BY <1>5, <2>1, <2>2
<1>7. /\ u \o back \in Seq(S) /\ Len(u \o back) = Len(u) + Len(back)
      /\ \A k \in 1..Len(u) + Len(back) :
             (u \o back)[k] = IF k <= Len(u) THEN u[k] ELSE back[k - Len(u)]
    BY <1>3, <1>6, ConcatProperties
<1>8. u \o back = t
    BY DEF u
<1> HIDE DEF t
<1>9. t \in Seq(S) /\ Len(t) = n + 1
    BY <1>1, <1>3, <1>6, <1>7, <1>8
<1>10. ASSUME NEW k \in 1..n+1
       PROVE  t[k] = IF k < p THEN s[k] ELSE IF k = p THEN x ELSE s[k - 1]
  <2>1. k \in 1..Len(u) + Len(back)
      BY <1>1, <1>3, <1>6
  <2>2. CASE k <= p
    <3>1. k \in 1..p /\ t[k] = u[k]
        BY <1>1, <1>6, <1>7, <1>8, <2>1, <2>2
    <3> QED BY <1>1, <1>6, <2>2, <3>1
  <2>3. CASE ~(k <= p)
    <3>1. k - p \in 1..n+1-p /\ p + (k - p) - 1 = k - 1
        BY <1>1, <2>3
    <3>2. t[k] = back[k - p]
        BY <1>1, <1>6, <1>7, <1>8, <2>1, <2>3
    <3> QED BY <1>1, <1>3, <2>3, <3>1, <3>2
  <2> QED BY <2>2, <2>3
<1>11. Elements(t) = Elements(s) \cup {x}
  <2>1. ASSUME NEW y \in Elements(t) PROVE y \in Elements(s) \cup {x}
    <3>1. PICK k \in 1..n+1 : y = t[k]
        BY <1>9, <2>1 DEF Elements
    <3>2. (k < p => k \in 1..n) /\ (~(k < p) /\ k # p => k - 1 \in 1..n)
        BY <1>1
    <3>3. y = x \/ \E j \in 1..n : y = s[j]
        BY <1>10, <3>1, <3>2
    <3> QED BY <3>3 DEF Elements, n
  <2>2. ASSUME NEW y \in Elements(s) PROVE y \in Elements(t)
    <3>1. PICK j \in 1..n : y = s[j]
        BY <2>2 DEF Elements, n
    <3>2. CASE j < p
      <4>1. j \in 1..n+1 /\ t[j] = y
          BY <1>1, <1>10, <3>1, <3>2
      <4> QED BY <1>9, <4>1 DEF Elements
    <3>3. CASE ~(j < p)
      <4>1. j + 1 \in 1..n+1 /\ ~(j + 1 < p) /\ j + 1 # p /\ (j + 1) - 1 = j
          BY <1>1, <3>3
      <4>2. t[j + 1] = y
          BY <1>10, <3>1, <4>1
      <4> QED BY <1>9, <4>1, <4>2 DEF Elements
    <3> QED BY <3>2, <3>3
  <2>3. x \in Elements(t)
    <3>1. p \in 1..n+1 /\ t[p] = x
        BY <1>1, <1>10
    <3> QED BY <1>9, <3>1 DEF Elements
  <2> QED BY <2>1, <2>2, <2>3
<1>12. InsertAt(s, p, x) = t
    BY DEF InsertAt, t, front, back, n
<1> QED BY <1>9, <1>10, <1>11, <1>12 DEF n

\* A set of the numbers up to n that has, with a number, every smaller one is
\* 1..p, where p is its size.
LEMMA BeginningBySize ==
    ASSUME NEW n \in Nat, NEW T \in SUBSET (1..n),
           \A k \in T, j \in 1..n : j <= k => j \in T
    PROVE  Cardinality(T) \in 0..n /\ T = 1..Cardinality(T)
<1> DEFINE P == {m \in Nat : m <= n => \E p \in 0..m : T \cap (1..m) = 1..p}
<1>1. 0 \in P
  <2>1. 0 \in 0..0 /\ T \cap (1..0) = 1..0
      OBVIOUS
  <2> QED BY <2>1
<1>2. ASSUME NEW m \in Nat, m \in P PROVE m + 1 \in P
  <2> SUFFICES ASSUME m + 1 <= n
               PROVE  \E p \in 0..m+1 : T \cap (1..m+1) = 1..p
      OBVIOUS
  <2>1. PICK p \in 0..m : T \cap (1..m) = 1..p
      BY <1>2
  <2>2. 1..m+1 = (1..m) \cup {m + 1} /\ m + 1 \in 1..n
      OBVIOUS
  <2>3. CASE m + 1 \in T
    <3>1. \A j \in 1..m+1 : j \in 1..n /\ j <= m + 1
        OBVIOUS
    <3>2. T \cap (1..m+1) = 1..m+1
        BY <2>3, <3>1
    <3> QED BY <3>2
  <2>4. CASE m + 1 \notin T
    <3>1. T \cap (1..m+1) = 1..p /\ p \in 0..m+1
        BY <2>1, <2>2, <2>4
    <3> QED BY <3>1
  <2> QED BY <2>3, <2>4
<1>3. Nat \subseteq P
  <2> HIDE DEF P
  <2> QED BY <1>1, <1>2, NatInduces
<1>4. PICK p \in 0..n : T \cap (1..n) = 1..p
    BY <1>3
<1>5. T = 1..p
    BY <1>4
<1>6. Cardinality(1..p) = p
  <2>1. 1 \in Int /\ p \in Int /\ IF 1 > p THEN 0 = p ELSE p - 1 + 1 = p
      OBVIOUS
  <2>2. Cardinality(1..p) = IF 1 > p THEN 0 ELSE p - 1 + 1
      BY <2>1, FS_Interval
  <2> QED BY <2>1, <2>2
<1> QED BY <1>5, <1>6

\* Ascending along f.
Ascends(f, s) == \A j, k \in 1..Len(s) : j <= k => f[s[j]] <= f[s[k]]

\* How many of a line are not beyond i.
Reaching(f, line, i) == {k \in 1..Len(line) : f[line[k]] <= f[i]}

\* Inserting behind them keeps a line ascending.
LEMMA InsertAscends ==
    ASSUME NEW S, NEW f \in [S -> Int], NEW s \in Seq(S), NEW x \in S, Ascends(f, s)
    PROVE  /\ Cardinality(Reaching(f, s, x)) + 1 \in 1..Len(s) + 1
           /\ Ascends(f, InsertAt(s, Cardinality(Reaching(f, s, x)) + 1, x))
<1> DEFINE n == Len(s)
           T == Reaching(f, s, x)
           p == Cardinality(T)
           t == InsertAt(s, p + 1, x)
<1>1. n \in Nat /\ \A k \in 1..n : s[k] \in S
    BY LenProperties, ElementOfSeq
<1>2. \A k \in 1..n : f[s[k]] \in Int /\ f[x] \in Int
    BY <1>1
<1>3. T \in SUBSET (1..n) /\ \A k \in T, j \in 1..n : j <= k => j \in T
  <2>1. \A k \in T : k \in 1..n /\ f[s[k]] <= f[x]
      BY DEF Reaching
  <2>2. ASSUME NEW k \in T, NEW j \in 1..n, j <= k PROVE j \in T
    <3>1. f[s[j]] <= f[s[k]] /\ f[s[k]] <= f[x]
        BY <2>1, <2>2 DEF Ascends
    <3>2. f[s[j]] <= f[x]
        BY <1>1, <1>2, <2>1, <3>1
    <3> QED BY <3>2 DEF Reaching
  <2> QED BY <2>1, <2>2
<1>4. p \in 0..n /\ T = 1..p
  <2> HIDE DEF T, n
  <2> QED BY <1>1, <1>3, BeginningBySize
<1>5. \A k \in 1..n : k <= p <=> f[s[k]] <= f[x]
  <2>1. \A k \in 1..n : k \in T <=> f[s[k]] <= f[x]
      BY DEF Reaching
  <2> HIDE DEF T, p
  <2> QED BY <1>4, <2>1
<1> HIDE DEF p, T
<1>6. p + 1 \in 1..n+1
    BY <1>1, <1>4
<1>7. /\ Len(t) = n + 1
      /\ \A k \in 1..n+1 : t[k] = IF k < p + 1 THEN s[k] ELSE IF k = p + 1 THEN x ELSE s[k - 1]
  <2> DEFINE q == p + 1
  <2>1. q \in 1..Len(s) + 1
      BY <1>6
  <2> HIDE DEF q
  <2>2. /\ Len(InsertAt(s, q, x)) = Len(s) + 1
        /\ \A k \in 1..Len(s) + 1 :
               InsertAt(s, q, x)[k] = IF k < q THEN s[k] ELSE IF k = q THEN x ELSE s[k - 1]
      BY <2>1, InsertProperties
  <2> QED BY <2>2 DEF q
<1> HIDE DEF t, n
<1>8. ASSUME NEW j \in 1..n+1, NEW k \in 1..n+1, j <= k PROVE f[t[j]] <= f[t[k]]
  <2>1. CASE k < p + 1
    <3>1. j < p + 1 /\ j \in 1..n /\ k \in 1..n
        BY <1>1, <1>4, <1>8, <2>1
    <3> QED BY <1>7, <1>8, <2>1, <3>1 DEF Ascends, n
  <2>2. CASE k = p + 1
    <3>1. CASE j = k
      <4>1. t[j] = x /\ t[k] = x
          BY <1>7, <2>2, <3>1
      <4> QED BY <4>1
    <3>2. CASE j # k
      <4>1. j < p + 1 /\ j \in 1..n /\ j <= p
          BY <1>1, <1>4, <1>8, <2>2, <3>2
      <4>2. t[j] = s[j] /\ t[k] = x
          BY <1>4, <1>7, <2>2, <4>1
      <4> QED BY <1>5, <4>1, <4>2
    <3> QED BY <3>1, <3>2
  <2>3. CASE k > p + 1
    <3>1. k - 1 \in 1..n /\ ~(k - 1 <= p) /\ t[k] = s[k - 1]
        BY <1>1, <1>4, <1>7, <2>3
    <3>2. f[x] <= f[s[k - 1]]
        BY <1>2, <1>5, <3>1
    <3>3. CASE j < p + 1
      <4>1. j \in 1..n /\ j <= k - 1 /\ t[j] = s[j]
          BY <1>1, <1>4, <1>7, <2>3, <3>3
      <4> QED BY <3>1, <4>1 DEF Ascends, n
    <3>4. CASE j = p + 1
      <4>1. t[j] = x
          BY <1>4, <1>7, <3>4
      <4> QED BY <3>1, <3>2, <4>1
    <3>5. CASE j > p + 1
      <4>1. j - 1 \in 1..n /\ j - 1 <= k - 1 /\ t[j] = s[j - 1]
          BY <1>1, <1>4, <1>7, <1>8, <3>5
      <4> QED BY <3>1, <4>1 DEF Ascends, n
    <3> QED BY <1>1, <1>4, <3>3, <3>4, <3>5
  <2> QED BY <1>1, <1>4, <2>1, <2>2, <2>3
<1>9. Ascends(f, t)
    BY <1>7, <1>8 DEF Ascends
<1> QED BY <1>6, <1>9 DEF p, T, t, n

LEMMA InsertDiffers ==
    ASSUME NEW S, NEW s \in Seq(S), NEW p \in 1..Len(s) + 1, NEW x \in S,
           Differ(s), x \notin Elements(s)
    PROVE  Differ(InsertAt(s, p, x))
<1> DEFINE t == InsertAt(s, p, x)
           n == Len(s)
<1>1. n \in Nat /\ p \in 1..n+1
    BY LenProperties
<1>2. /\ Len(t) = n + 1
      /\ \A k \in 1..n+1 : t[k] = IF k < p THEN s[k] ELSE IF k = p THEN x ELSE s[k - 1]
    BY InsertProperties
<1>3. \A k \in 1..n : s[k] # x
    BY DEF Elements
<1> HIDE DEF t
<1>4. ASSUME NEW j \in 1..n+1, NEW k \in 1..n+1, t[j] = t[k], j < k PROVE FALSE
  <2>1. CASE k < p
    <3>1. j \in 1..n /\ k \in 1..n /\ s[j] = s[k]
        BY <1>1, <1>2, <1>4, <2>1
    <3> QED BY <1>4, <3>1 DEF Differ
  <2>2. CASE k = p
    <3>1. j \in 1..n /\ t[j] = s[j] /\ t[k] = x
        BY <1>1, <1>2, <1>4, <2>2
    <3> QED BY <1>3, <1>4, <3>1
  <2>3. CASE k > p
    <3>1. k - 1 \in 1..n /\ t[k] = s[k - 1]
        BY <1>1, <1>2, <2>3
    <3>2. CASE j = p
      <4>1. t[j] = x
          BY <1>1, <1>2, <3>2
      <4> QED BY <1>3, <1>4, <3>1, <4>1
    <3>3. CASE j < p
      <4>1. j \in 1..n /\ t[j] = s[j] /\ j # k - 1
          BY <1>1, <1>2, <2>3, <3>3
      <4> QED BY <1>4, <3>1, <4>1 DEF Differ
    <3>4. CASE j > p
      <4>1. j - 1 \in 1..n /\ t[j] = s[j - 1] /\ j - 1 # k - 1
          BY <1>1, <1>2, <1>4, <3>4
      <4> QED BY <1>4, <3>1, <4>1 DEF Differ
    <3> QED BY <1>1, <3>2, <3>3, <3>4
  <2> QED BY <1>1, <2>1, <2>2, <2>3
<1>5. \A j, k \in 1..n+1 : t[j] = t[k] => j = k
  <2> SUFFICES ASSUME NEW j \in 1..n+1, NEW k \in 1..n+1, t[j] = t[k], j # k PROVE FALSE
      OBVIOUS
  <2>1. j < k \/ k < j
      BY <1>1
  <2> QED BY <1>4, <2>1
<1>6. Differ(t)
    BY <1>2, <1>5 DEF Differ
<1> QED BY <1>6 DEF t

\* A container's coordinate along an axis, of each.
Along(cs, axis) == [i \in DOMAIN cs |-> cs[i][axis]]

LEMMA AlongTyped ==
    ASSUME NEW M, NEW cs \in [M -> Container], NEW axis \in Axis
    PROVE  /\ Along(cs, axis) \in [M -> Int]
           /\ \A i \in M : Along(cs, axis)[i] = cs[i][axis]
<1>1. ASSUME NEW i \in M PROVE cs[i][axis] \in Int
  <2>1. cs[i].x \in Int /\ cs[i].y \in Int
      BY DEF Container
  <2> QED BY <2>1 DEF Axis
<1> QED BY <1>1 DEF Along

\* The function that Line reads its result from.
IsLine(cs, ids, axis, line) ==
    line = [n \in 0..Len(ids) |->
               IF n = 0 THEN <<>>
               ELSE InsertAt(line[n - 1],
                             Cardinality({k \in 1..Len(line[n - 1]) :
                                              cs[line[n - 1][k]][axis] <= cs[ids[n]][axis]}) + 1,
                             ids[n])]

\* The same, step by step.
Lines(f, ids, line) ==
    /\ line[0] = <<>>
    /\ \A n \in 1..Len(ids) :
           line[n] = InsertAt(line[n - 1], Cardinality(Reaching(f, line[n - 1], ids[n])) + 1,
                              ids[n])

LEMMA LineExists ==
    ASSUME NEW M, NEW cs \in [M -> Container], NEW ids \in Seq(M), NEW axis \in Axis
    PROVE  \E line : IsLine(cs, ids, axis, line)
<1> DEFINE m == Len(ids)
           f == Along(cs, axis)
           S == {s \in Seq(M) : Ascends(f, s)}
           next(n, s) == InsertAt(s, Cardinality(Reaching(f, s, ids[n])) + 1, ids[n])
           step == [p \in (1..m) \X S |-> next(p[1], p[2])]
<1>1. m \in Nat /\ \A n \in 1..m : ids[n] \in M
    BY LenProperties, ElementOfSeq
<1>2. f \in [M -> Int] /\ \A i \in M : f[i] = cs[i][axis]
    BY AlongTyped
<1> HIDE DEF f, m
<1>3. <<>> \in S
    BY EmptySeq DEF Ascends
<1>4. ASSUME NEW n \in 1..m, NEW s \in S PROVE next(n, s) \in S
  <2>1. ids[n] \in M /\ s \in Seq(M) /\ Ascends(f, s)
      BY <1>1
  <2> DEFINE q == Cardinality(Reaching(f, s, ids[n])) + 1
  <2>2. q \in 1..Len(s) + 1 /\ Ascends(f, InsertAt(s, q, ids[n]))
      BY <1>2, <2>1, InsertAscends
  <2> HIDE DEF q
  <2>3. InsertAt(s, q, ids[n]) \in Seq(M)
      BY <2>1, <2>2, InsertProperties
  <2>4. InsertAt(s, q, ids[n]) \in S
      BY <2>2, <2>3
  <2> HIDE DEF S
  <2> QED BY <2>4 DEF q
<1>5. \A s \in S : s \in Seq(M)
    OBVIOUS
<1> HIDE DEF next, S
<1>6. step \in [(1..m) \X S -> S] /\ \A n \in 1..m, s \in S : step[<<n, s>>] = next(n, s)
    BY <1>4
<1> HIDE DEF step
<1>7. PICK line \in [0..m -> S] : IsRecursion(line, m, <<>>, step)
    BY <1>1, <1>3, <1>6, RecursionExists
<1> DEFINE e(n) == IF n = 0 THEN <<>>
                   ELSE InsertAt(line[n - 1],
                             Cardinality({k \in 1..Len(line[n - 1]) :
                                              cs[line[n - 1][k]][axis] <= cs[ids[n]][axis]}) + 1,
                             ids[n])
<1>8. ASSUME NEW n \in 0..m PROVE line[n] = e(n)
  <2>1. CASE n = 0
      BY <1>7, <2>1 DEF IsRecursion
  <2>2. CASE n # 0
    <3>1. n \in 1..m /\ n - 1 \in 0..m
        BY <1>1, <2>2
    <3>2. line[n] = step[<<n, line[n - 1]>>]
        BY <1>7, <2>2 DEF IsRecursion
    <3>3. line[n] = next(n, line[n - 1])
        BY <1>6, <3>1, <3>2
    <3>4. line[n - 1] \in Seq(M) /\ ids[n] \in M
        BY <1>1, <1>5, <3>1
    <3>5. Reaching(f, line[n - 1], ids[n])
              = {k \in 1..Len(line[n - 1]) : cs[line[n - 1][k]][axis] <= cs[ids[n]][axis]}
      <4>1. \A k \in 1..Len(line[n - 1]) : line[n - 1][k] \in M
          BY <3>4, ElementOfSeq
      <4> QED BY <1>2, <3>4, <4>1 DEF Reaching
    <3> QED BY <2>2, <3>3, <3>5 DEF next
  <2> QED BY <2>1, <2>2
<1>9. line = [n \in 0..m |-> e(n)]
    BY <1>8
<1> QED BY <1>9 DEF IsLine, m

\* The line has the ids it was made of, each once, in ascending order.
LEMMA LineProperties ==
    ASSUME NEW M, NEW cs \in [M -> Container], NEW ids \in Seq(M), NEW axis \in Axis,
           Differ(ids)
    PROVE  /\ Line(cs, ids, axis) \in Seq(M) /\ Len(Line(cs, ids, axis)) = Len(ids)
           /\ Elements(Line(cs, ids, axis)) = Elements(ids)
           /\ Differ(Line(cs, ids, axis))
           /\ Ascends(Along(cs, axis), Line(cs, ids, axis))
<1> DEFINE m == Len(ids)
           f == Along(cs, axis)
           line == CHOOSE g : IsLine(cs, ids, axis, g)
<1>1. m \in Nat /\ \A n \in 1..m : ids[n] \in M
    BY LenProperties, ElementOfSeq
<1>2. f \in [M -> Int] /\ \A i \in M : f[i] = cs[i][axis]
    BY AlongTyped
<1>3. Line(cs, ids, axis) = line[m]
    BY DEF Line, IsLine
<1>4. IsLine(cs, ids, axis, line)
    BY LineExists
<1> HIDE DEF line, f, m
<1> DEFINE first(n) == {ids[k] : k \in 1..n}
           Good(n) == /\ line[n] \in Seq(M) /\ Len(line[n]) = n /\ Differ(line[n])
                      /\ Elements(line[n]) = first(n)
                      /\ Ascends(f, line[n])
           P == {n \in Nat : n <= m => Good(n)}
<1>5. 0 \in P
  <2>1. line[0] = <<>>
      BY <1>1, <1>4 DEF IsLine, m
  <2>2. <<>> \in Seq(M) /\ Len(<<>>) = 0 /\ Differ(<<>>) /\ Ascends(f, <<>>)
      BY EmptySeq DEF Ascends, Differ
  <2>3. Elements(<<>>) = first(0)
      BY ElementsEmpty
  <2>4. Good(0)
      BY <2>1, <2>2, <2>3
  <2> HIDE DEF Good
  <2> QED BY <2>4
<1>6. ASSUME NEW n \in Nat, n \in P PROVE n + 1 \in P
  <2> SUFFICES ASSUME n + 1 <= m PROVE Good(n + 1)
      OBVIOUS
  <2> DEFINE s == line[n]
             x == ids[n + 1]
             q == Cardinality(Reaching(f, s, x)) + 1
  <2>1. Good(n) /\ n + 1 \in 1..m /\ n + 1 \in 0..m /\ (n + 1) - 1 = n /\ n + 1 # 0 /\ x \in M
      BY <1>1, <1>6
  <2>2. line[n + 1] = InsertAt(s, q, x)
    <3>1. line[n + 1] = InsertAt(s, Cardinality({k \in 1..Len(s) : cs[s[k]][axis] <= cs[x][axis]}) + 1, x)
        BY <1>4, <2>1 DEF IsLine, m
    <3>2. \A k \in 1..Len(s) : s[k] \in M
        BY <2>1, ElementOfSeq
    <3>3. Reaching(f, s, x) = {k \in 1..Len(s) : cs[s[k]][axis] <= cs[x][axis]}
        BY <1>2, <2>1, <3>2 DEF Reaching
    <3> QED BY <3>1, <3>3
  <2>3. /\ s \in Seq(M) /\ Ascends(f, s) /\ Len(s) = n /\ Elements(s) = first(n)
        /\ Differ(s)
      BY <2>1
  <2>4. q \in 1..Len(s) + 1 /\ Ascends(f, InsertAt(s, q, x))
      BY <1>2, <2>1, <2>3, InsertAscends
  <2> HIDE DEF q, s, x
  <2>5. /\ InsertAt(s, q, x) \in Seq(M) /\ Len(InsertAt(s, q, x)) = Len(s) + 1
        /\ Elements(InsertAt(s, q, x)) = Elements(s) \cup {x}
      BY <2>1, <2>3, <2>4, InsertProperties
  <2>6. first(n + 1) = first(n) \cup {x}
    <3>1. 1..n+1 = (1..n) \cup {n + 1}
        OBVIOUS
    <3> QED BY <3>1 DEF x
  <2>7. Differ(InsertAt(s, q, x))
    <3>1. \A k \in 1..n : k \in 1..m /\ k # n + 1 /\ ids[k] # ids[n + 1]
        BY <1>1, <2>1 DEF Differ, m
    <3>2. x \notin Elements(s)
        BY <2>3, <3>1 DEF x
    <3> QED BY <2>1, <2>3, <2>4, <3>2, InsertDiffers
  <2>8. Good(n + 1)
      BY <2>2, <2>3, <2>4, <2>5, <2>6, <2>7
  <2> QED BY <2>8
<1>7. Good(m)
  <2>1. Nat \subseteq P
    <3> HIDE DEF P
    <3> QED BY <1>5, <1>6, NatInduces
  <2>2. m \in P
    <3> HIDE DEF P
    <3> QED BY <1>1, <2>1
  <2> HIDE DEF Good
  <2> QED BY <1>1, <2>2
<1>8. first(m) = Elements(ids)
    BY DEF Elements, m
<1> QED BY <1>3, <1>7, <1>8 DEF m, f

\* A line that ascends strictly is the only ascending line of its ids.
LEMMA StrictLineIsUnique ==
    ASSUME NEW S, NEW f \in [S -> Int], NEW a \in Seq(S), NEW b \in Seq(S),
           Len(a) = Len(b), Elements(a) = Elements(b), Differ(b), Ascends(f, b),
           \A j, k \in 1..Len(a) : j < k => f[a[j]] < f[a[k]]
    PROVE  a = b
<1> DEFINE n == Len(a)
           P == {m \in Nat : \A k \in 1..n : k <= m => a[k] = b[k]}
<1>1. /\ n \in Nat /\ Len(b) = n
      /\ \A k \in 1..n : a[k] \in S /\ b[k] \in S
      /\ \A k \in 1..n : f[a[k]] \in Int /\ f[b[k]] \in Int
    BY LenProperties, ElementOfSeq
<1>2. 0 \in P
    BY <1>1
<1>3. ASSUME NEW m \in Nat, m \in P PROVE m + 1 \in P
  <2> SUFFICES ASSUME m + 1 <= n PROVE a[m + 1] = b[m + 1]
    <3>1. \A k \in 1..n : k <= m + 1 => k <= m \/ k = m + 1
        OBVIOUS
    <3> QED BY <1>3, <3>1
  <2> DEFINE k == m + 1
  <2>1. k \in 1..n /\ \A j \in 1..n : j < k => a[j] = b[j]
    <3>1. \A j \in 1..n : j < m + 1 => j <= m
        OBVIOUS
    <3> QED BY <1>1, <1>3, <3>1
  <2> HIDE DEF k
  <2>2. PICK j \in 1..n : a[k] = b[j]
    <3>1. a[k] \in Elements(b)
        BY <2>1 DEF Elements
    <3> QED BY <1>1, <3>1 DEF Elements
  <2>3. PICK i \in 1..n : b[k] = a[i]
    <3>1. b[k] \in Elements(a)
        BY <1>1, <2>1 DEF Elements
    <3> QED BY <3>1 DEF Elements
  <2>4. k <= j
    <3> SUFFICES ASSUME j < k PROVE FALSE
        BY <1>1, <2>1
    <3>1. a[j] = a[k] /\ f[a[j]] < f[a[k]]
        BY <2>1, <2>2
    <3> QED BY <1>1, <2>1, <3>1
  <2>5. k <= i
    <3> SUFFICES ASSUME i < k PROVE FALSE
        BY <1>1, <2>1
    <3>1. b[i] = b[k]
        BY <2>1, <2>3
    <3> QED BY <1>1, <2>1, <3>1 DEF Differ
  <2>6. f[b[k]] <= f[b[j]]
      BY <1>1, <2>1, <2>4 DEF Ascends
  <2>7. f[a[i]] <= f[a[k]]
      BY <2>2, <2>3, <2>6
  <2>8. i = k
    <3> SUFFICES ASSUME k < i PROVE FALSE
        BY <1>1, <2>1, <2>5
    <3>1. f[a[k]] < f[a[i]]
        BY <2>1
    <3> QED BY <1>1, <2>1, <2>7, <3>1
  <2>9. a[k] = b[k]
      BY <2>3, <2>8
  <2> QED BY <2>9 DEF k
<1>4. Nat \subseteq P
  <2> HIDE DEF P
  <2> QED BY <1>2, <1>3, NatInduces
<1>5. \A k \in 1..n : a[k] = b[k]
  <2>1. n \in P
    <3> HIDE DEF P
    <3> QED BY <1>1, <1>4
  <2> QED BY <1>1, <2>1
<1> QED BY <1>1, <1>5, SeqEqual

\* What grows at every step grows from any place to any later one.
LEMMA Climbs ==
    ASSUME NEW m \in Nat, NEW f, \A k \in 0..m : f[k] \in Int,
           \A k \in 1..m : f[k - 1] < f[k],
           NEW j \in 0..m, NEW k \in 0..m, j < k
    PROVE  f[j] < f[k]
<1> DEFINE P == {n \in Nat : j + 1 + n <= m => f[j] < f[j + 1 + n]}
<1>1. 0 \in P
  <2> SUFFICES ASSUME j + 1 <= m PROVE f[j] < f[j + 1]
      OBVIOUS
  <2>1. j + 1 \in 1..m /\ (j + 1) - 1 = j
      OBVIOUS
  <2> QED BY <2>1
<1>2. ASSUME NEW n \in Nat, n \in P PROVE n + 1 \in P
  <2> SUFFICES ASSUME j + 1 + (n + 1) <= m PROVE f[j] < f[j + 1 + (n + 1)]
      OBVIOUS
  <2> DEFINE i == j + 1 + n
  <2>1. /\ i \in 0..m /\ i + 1 \in 1..m /\ (i + 1) - 1 = i /\ i + 1 \in 0..m
        /\ j + 1 + (n + 1) = i + 1 /\ i <= m
      OBVIOUS
  <2>2. f[j] < f[i]
      BY <1>2, <2>1
  <2> HIDE DEF i
  <2>3. f[i] < f[i + 1]
      BY <2>1
  <2>4. f[j] \in Int /\ f[i] \in Int /\ f[i + 1] \in Int
      BY <2>1
  <2>5. f[j] < f[i + 1]
      BY <2>2, <2>3, <2>4
  <2> QED BY <2>1, <2>5
<1>3. Nat \subseteq P
  <2> HIDE DEF P
  <2> QED BY <1>1, <1>2, NatInduces
<1>4. k - j - 1 \in P /\ j + 1 + (k - j - 1) = k
  <2> HIDE DEF P
  <2>1. k - j - 1 \in Nat /\ j + 1 + (k - j - 1) = k
      OBVIOUS
  <2> QED BY <1>3, <2>1
<1> QED BY <1>4

-----------------------------------------------------------------------------
(* Layout: the cursor of "distribute".                                     *)

\* The function that Offset is.
IsCursor(cs, line, axis, gap, cursor) ==
    cursor = [k \in 0..Len(line) |->
                 IF k = 0 THEN cs[line[1]][axis]
                 ELSE cursor[k - 1] + (IF axis = "x" THEN cs[line[k]].w ELSE cs[line[k]].h) + gap]

\* The cursor starts at the first of the line, and passes each with the gap.
LEMMA OffsetProperties ==
    ASSUME NEW M, NEW cs \in [M -> Container], \A i \in M : InGrid(cs[i]),
           NEW line \in Seq(M), Len(line) >= 1, NEW axis \in Axis, NEW gap \in Nat
    PROVE  LET at == Offset(cs, line, axis, gap)
           IN /\ at[0] = cs[line[1]][axis]
              /\ \A k \in 1..Len(line) :
                     at[k] = at[k - 1] + (IF axis = "x" THEN cs[line[k]].w ELSE cs[line[k]].h) + gap
              /\ \A k \in 0..Len(line) : at[k] \in Int
              /\ \A j, k \in 0..Len(line) : j < k => at[j] < at[k]
<1> DEFINE m == Len(line)
           size(k) == IF axis = "x" THEN cs[line[k]].w ELSE cs[line[k]].h
           start == cs[line[1]][axis]
           step == [p \in (1..m) \X Int |-> p[2] + size(p[1]) + gap]
           at == Offset(cs, line, axis, gap)
<1>1. m \in Nat /\ m >= 1 /\ 1 \in 1..m /\ \A k \in 1..m : line[k] \in M
    BY LenProperties, ElementOfSeq
<1>2. start \in Int
    BY <1>1, AlongTyped
<1>3. ASSUME NEW k \in 1..m PROVE size(k) \in Int /\ size(k) >= 1
  <2>1. cs[line[k]].w \in Int /\ cs[line[k]].h \in Int
      BY <1>1 DEF Container
  <2>2. cs[line[k]].w >= 1 /\ cs[line[k]].h >= 1
      BY <1>1 DEF InGrid
  <2> QED BY <2>1, <2>2
<1>4. /\ step \in [(1..m) \X Int -> Int]
      /\ \A k \in 1..m, c \in Int : step[<<k, c>>] = c + size(k) + gap
  <2> HIDE DEF size, m
  <2> QED BY <1>3
<1> HIDE DEF step
<1>5. \E cursor : IsCursor(cs, line, axis, gap, cursor)
  <2>1. PICK cursor \in [0..m -> Int] : IsRecursion(cursor, m, start, step)
    <3> HIDE DEF m, start
    <3> QED BY <1>1, <1>2, <1>4, RecursionExists
  <2> DEFINE e(k) == IF k = 0 THEN start ELSE cursor[k - 1] + size(k) + gap
  <2>2. ASSUME NEW k \in 0..m PROVE cursor[k] = e(k)
    <3> HIDE DEF start, size
    <3>1. CASE k = 0
        BY <2>1, <3>1 DEF IsRecursion
    <3>2. CASE k # 0
      <4>1. k \in 1..m /\ k - 1 \in 0..m
          BY <1>1, <3>2
      <4>2. cursor[k] = step[<<k, cursor[k - 1]>>]
          BY <2>1, <3>2 DEF IsRecursion
      <4> QED BY <1>4, <3>2, <4>1, <4>2
    <3> QED BY <3>1, <3>2
  <2>3. cursor = [k \in 0..m |-> e(k)]
    <3> HIDE DEF e
    <3> QED BY <2>2
  <2>4. IsCursor(cs, line, axis, gap, cursor)
      BY <2>3 DEF IsCursor
  <2> QED BY <2>4
<1>6. at = CHOOSE cursor : IsCursor(cs, line, axis, gap, cursor)
    BY DEF Offset, IsCursor
<1>7. IsCursor(cs, line, axis, gap, at)
  <2> HIDE DEF at
  <2> QED BY <1>5, <1>6
<1> HIDE DEF at
<1>8. at[0] = start /\ \A k \in 1..m : at[k] = at[k - 1] + size(k) + gap
  <2>1. \A k \in 0..m : at[k] = IF k = 0 THEN start ELSE at[k - 1] + size(k) + gap
      BY <1>7 DEF IsCursor
  <2> HIDE DEF size, start, m
  <2>2. \A k \in 1..m : k \in 0..m /\ k # 0
      BY <1>1
  <2> QED BY <1>1, <2>1, <2>2
<1> HIDE DEF size, start, m
<1>9. \A k \in 0..m : at[k] \in Int
  <2>1. \A k \in 1..m : at[k - 1] \in Int => at[k] \in Int
      BY <1>3, <1>8
  <2> QED BY <1>1, <1>2, <1>8, <2>1, StepsStay
<1>10. \A k \in 1..m : at[k - 1] < at[k]
  <2>1. \A k \in 1..m : k - 1 \in 0..m
      BY <1>1
  <2> QED BY <1>3, <1>8, <1>9, <2>1
<1>11. \A j, k \in 0..m : j < k => at[j] < at[k]
    BY <1>1, <1>9, <1>10, Climbs
<1> QED BY <1>8, <1>9, <1>11 DEF at, size, start, m

-----------------------------------------------------------------------------
(* Layout: one operation on all containers.                                *)

LEMMA NormalizeTyped ==
    \A c \in Container : Normalize(c) \in InGridContainer
BY NormalizeInGrid DEF InGridContainer

LEMMA OnGrid ==
    \A c \in InGridContainer : c \in Container /\ InGrid(c) /\ Normalize(c) = c
BY NormalizeFixesGrid DEF InGridContainer

LEMMA PlacementTyped == Placement \subseteq Container
BY GridAssumption DEF Container

\* The ids that operations on one container after the other can name.
EachOp == Move \cup Resize \cup Place \cup Align \cup Snap

\* What their fields hold.
LEMMA EachOpTyped ==
    ASSUME NEW op \in EachOp
    PROVE  /\ op.op \in {"move", "resize", "set", "align", "snap"}
           /\ op.op = "move" => op.dx \in Int /\ op.dy \in Int
           /\ op.op = "resize" => op.dw \in Int /\ op.dh \in Int
           /\ op.op = "set" => op.container \in Container
           /\ op.op = "align" => op.axis \in Axis /\ op.value = 1
           /\ op.op = "snap" => op.stepX \in Nat \ {0} /\ op.stepY \in Nat \ {0}
           /\ op.ids \in One \cup Listed
<1>1. Delta \subseteq Int /\ Step \subseteq Nat \ {0} /\ Placement \subseteq Container
    BY GridAssumption, PlacementTyped
<1>2. CASE op \in Move
    BY <1>1, <1>2 DEF Move
<1>3. CASE op \in Resize
    BY <1>1, <1>3 DEF Resize
<1>4. CASE op \in Place
    BY <1>1, <1>4 DEF Place
<1>5. CASE op \in Align
    BY <1>5 DEF Align
<1>6. CASE op \in Snap
    BY <1>1, <1>6 DEF Snap
<1> QED BY <1>2, <1>3, <1>4, <1>5, <1>6 DEF EachOp

LEMMA ChangedInGrid ==
    ASSUME NEW c \in InGridContainer, NEW op \in EachOp
    PROVE  Changed(c, op) \in InGridContainer
<1>1. c \in Container /\ InGrid(c)
    BY DEF InGridContainer
<1>2. CASE op.op = "set"
  <2>1. Changed(c, op) = Normalize(op.container)
      BY <1>2 DEF Changed
  <2> QED BY <1>2, <2>1, EachOpTyped, NormalizeTyped
<1>3. CASE op.op = "move"
  <2>1. Changed(c, op) = Moved(c, op.dx, op.dy)
      BY <1>3 DEF Changed
  <2> QED BY <1>1, <1>3, <2>1, EachOpTyped, OperationsStayInGrid
<1>4. CASE op.op = "resize"
  <2>1. Changed(c, op) = Resized(c, op.dw, op.dh)
      BY <1>4 DEF Changed
  <2> QED BY <1>1, <1>4, <2>1, EachOpTyped, OperationsStayInGrid
<1>5. CASE op.op = "align"
  <2>1. Changed(c, op) = Aligned(c, op.axis, op.value)
      BY <1>5 DEF Changed
  <2>2. op.axis \in Axis /\ op.value \in Int
      BY <1>5, EachOpTyped
  <2> QED BY <1>1, <2>1, <2>2, OperationsStayInGrid
<1>6. CASE op.op = "snap"
  <2>1. Changed(c, op) = Snapped(c, op.stepX, op.stepY)
      BY <1>6 DEF Changed
  <2> QED BY <1>1, <1>6, <2>1, EachOpTyped, OperationsStayInGrid
<1> QED BY <1>2, <1>3, <1>4, <1>5, <1>6, EachOpTyped

\* "distribute" puts each of the ids where the cursor stands when it comes to it.
PlacesEach(M, cs, ids, axis, gap) ==
    LET line == Line(cs, ids, axis)
        at == Offset(cs, line, axis, gap)
    IN /\ \A k \in 1..Len(line) :
              /\ line[k] \in Elements(ids) /\ at[k - 1] \in Int
              /\ Distributed(cs, ids, axis, gap)[line[k]]
                     = Aligned(cs[line[k]], axis, at[k - 1])
       /\ \A i \in Elements(ids) : \E k \in 1..Len(line) : line[k] = i
       /\ \A i \in M \ Elements(ids) : Distributed(cs, ids, axis, gap)[i] = cs[i]

LEMMA PlaceOfEach ==
    ASSUME NEW M, NEW cs \in [M -> InGridContainer], NEW ids \in Seq(M), Differ(ids),
           NEW axis \in Axis, NEW gap \in Nat, Len(ids) >= 2
    PROVE  PlacesEach(M, cs, ids, axis, gap)
<1> DEFINE line == Line(cs, ids, axis)
           at == Offset(cs, line, axis, gap)
           place(i) == at[(CHOOSE k \in 1..Len(line) : line[k] = i) - 1]
<1>1. cs \in [M -> Container] /\ \A i \in M : InGrid(cs[i])
    BY OnGrid
<1>2. /\ line \in Seq(M) /\ Len(line) = Len(ids) /\ Elements(line) = Elements(ids)
      /\ Differ(line)
    BY <1>1, LineProperties
<1>3. Distributed(cs, ids, axis, gap)
          = [i \in M |-> IF i \in Elements(ids) THEN Aligned(cs[i], axis, place(i)) ELSE cs[i]]
    BY DEF Distributed
<1> HIDE DEF line
<1>4. Len(line) >= 1 /\ Len(line) \in Nat
    BY <1>2, LenProperties
<1>5. \A k \in 0..Len(line) : at[k] \in Int
    BY <1>1, <1>2, <1>4, OffsetProperties
<1> HIDE DEF at
<1>6. ASSUME NEW k \in 1..Len(line)
      PROVE  line[k] \in Elements(ids) /\ line[k] \in M /\ place(line[k]) = at[k - 1]
  <2>1. line[k] \in Elements(ids) /\ line[k] \in M
      BY <1>2, ElementOfSeq DEF Elements
  <2>2. (CHOOSE j \in 1..Len(line) : line[j] = line[k]) = k
    <3>1. \A j \in 1..Len(line) : line[j] = line[k] => j = k
        BY <1>2 DEF Differ
    <3> QED BY <3>1
  <2> QED BY <2>1, <2>2
<1>7. \A i \in Elements(ids) : \E k \in 1..Len(line) : line[k] = i
    BY <1>2 DEF Elements
<1> HIDE DEF place
<1>8. \A k \in 1..Len(line) : at[k - 1] \in Int
  <2>1. \A k \in 1..Len(line) : k - 1 \in 0..Len(line)
      BY <1>4
  <2> QED BY <1>5, <2>1
<1>9. \A k \in 1..Len(line) :
          Distributed(cs, ids, axis, gap)[line[k]] = Aligned(cs[line[k]], axis, at[k - 1])
    BY <1>3, <1>6
<1>10. \A i \in M \ Elements(ids) : Distributed(cs, ids, axis, gap)[i] = cs[i]
    BY <1>3
<1> QED BY <1>6, <1>7, <1>8, <1>9, <1>10 DEF line, at, PlacesEach

LEMMA DistributedInGrid ==
    ASSUME NEW M, NEW cs \in [M -> InGridContainer], NEW ids \in Seq(M), Differ(ids),
           NEW axis \in Axis, NEW gap \in Nat
    PROVE  Distributed(cs, ids, axis, gap) \in [M -> InGridContainer]
<1> DEFINE ds == Distributed(cs, ids, axis, gap)
           line == Line(cs, ids, axis)
           at == Offset(cs, line, axis, gap)
<1>1. ds = [i \in M |-> ds[i]]
    BY DEF Distributed
<1>2. CASE Len(ids) >= 2
  <2>1. /\ \A k \in 1..Len(line) : ds[line[k]] = Aligned(cs[line[k]], axis, at[k - 1])
                                   /\ at[k - 1] \in Int /\ line[k] \in Elements(ids)
        /\ \A i \in Elements(ids) : \E k \in 1..Len(line) : line[k] = i
        /\ \A i \in M \ Elements(ids) : ds[i] = cs[i]
    <3>1. PlacesEach(M, cs, ids, axis, gap)
        BY <1>2, PlaceOfEach
    <3> QED BY <3>1 DEF PlacesEach
  <2> HIDE DEF ds, line, at
  <2>2. ASSUME NEW i \in M PROVE ds[i] \in InGridContainer
    <3>1. CASE i \in Elements(ids)
      <4>1. PICK k \in 1..Len(line) : line[k] = i
          BY <2>1, <3>1
      <4>2. ds[i] = Aligned(cs[i], axis, at[k - 1]) /\ at[k - 1] \in Int
          BY <2>1, <4>1
      <4>3. cs[i] \in Container /\ InGrid(cs[i])
          BY OnGrid
      <4> QED BY <4>2, <4>3, OperationsStayInGrid
    <3>2. CASE i \notin Elements(ids)
        BY <2>1, <3>2
    <3> QED BY <3>1, <3>2
  <2>3. ds \in [M -> InGridContainer]
      BY <1>1, <2>2
  <2> QED BY <2>3 DEF ds
<1>3. CASE ~(Len(ids) >= 2)
  <2>1. ds = [i \in M |-> cs[i]]
      BY <1>3 DEF Distributed
  <2>2. ds \in [M -> InGridContainer]
    <3> HIDE DEF ds
    <3> QED BY <2>1
  <2> QED BY <2>2
<1> QED BY <1>2, <1>3

-----------------------------------------------------------------------------
(* Layout: whole commands.                                                 *)

\* The layouts of instances M that a command leaves: all inside the grid, each
\* once in the order.
TidyLayouts(M) ==
    {l \in [container : [M -> InGridContainer], order : Seq(M)] :
         Elements(l.order) = M /\ Differ(l.order)}

LEMMA TidyMade ==
    ASSUME NEW M, NEW cs \in [M -> InGridContainer], NEW s \in Seq(M), Elements(s) = M, Differ(s)
    PROVE  [container |-> cs, order |-> s] \in TidyLayouts(M)
BY DEF TidyLayouts

LEMMA TidyParts ==
    ASSUME NEW M, NEW l \in TidyLayouts(M)
    PROVE  /\ l.container \in [M -> InGridContainer] /\ l.order \in Seq(M)
           /\ Elements(l.order) = M /\ Differ(l.order)
           /\ l = [container |-> l.container, order |-> l.order]
BY DEF TidyLayouts

LEMMA TidyExcept ==
    ASSUME NEW M, NEW l \in TidyLayouts(M)
    PROVE  /\ \A cs : [l EXCEPT !.container = cs] = [container |-> cs, order |-> l.order]
           /\ \A s : [l EXCEPT !.order = s] = [container |-> l.container, order |-> s]
BY TidyParts DEF TidyLayouts

\* The ids that an operation names, or those of all.
LEMMA TargetsDiffer ==
    ASSUME NEW all \in Seq(Mounted), Differ(all), NEW ids \in One \cup Two \cup Listed
    PROVE  Targets(ids, all) \in Seq(Mounted) /\ Differ(Targets(ids, all))
<1>1. CASE ids \in One
  <2>1. PICK i \in Mounted : ids = <<i>>
      BY <1>1 DEF One
  <2>2. <<i>> \in Seq(Mounted) /\ Len(<<i>>) = 1 /\ <<i>> # <<>>
      OBVIOUS
  <2> QED BY <2>1, <2>2 DEF Targets, Differ
<1>2. CASE ids \in Two
  <2>1. PICK i \in Mounted, j \in Mounted : ids = <<i, j>> /\ i # j
      BY <1>2 DEF Two
  <2>2. <<i, j>> \in Seq(Mounted) /\ Len(<<i, j>>) = 2 /\ <<i, j>> # <<>>
        /\ <<i, j>>[1] = i /\ <<i, j>>[2] = j
      OBVIOUS
  <2>3. \A k \in 1..2 : k = 1 \/ k = 2
      OBVIOUS
  <2> QED BY <2>1, <2>2, <2>3 DEF Targets, Differ
<1>3. CASE ids = <<>>
    BY <1>3 DEF Targets
<1> QED BY <1>1, <1>2, <1>3 DEF Listed

LEMMA NamedIsMounted ==
    /\ \A ids \in One : ids[1] \in Mounted
    /\ \A ids \in Two : ids[1] \in Mounted /\ ids[2] \in Mounted /\ ids[1] # ids[2]
BY DEF One, Two

\* Every operation leaves a tidy layout tidy.
LEMMA ApplyTidies ==
    ASSUME NEW l \in TidyLayouts(Mounted), NEW op \in Op,
           NEW all \in Seq(Mounted), Differ(all)
    PROVE  Apply(l, op, all) \in TidyLayouts(Mounted)
<1>1. /\ l.container \in [Mounted -> InGridContainer] /\ l.order \in Seq(Mounted)
      /\ Elements(l.order) = Mounted /\ Differ(l.order)
    BY TidyParts
<1>2. CASE op \in Restack
  <2>1. op.op \in {"bring-to-front", "send-to-back"} /\ op.ids \in One
      BY <1>2 DEF Restack
  <2> DEFINE i == op.ids[1]
             others == Without(l.order, {i})
  <2>2. i \in Elements(l.order)
      BY <1>1, <2>1, NamedIsMounted
  <2> HIDE DEF i
  <2>3. /\ Append(others, i) \in Seq(Mounted) /\ Elements(Append(others, i)) = Elements(l.order)
        /\ Differ(Append(others, i))
        /\ <<i>> \o others \in Seq(Mounted) /\ Elements(<<i>> \o others) = Elements(l.order)
        /\ Differ(<<i>> \o others)
      BY <1>1, <2>2, RestackedOrder
  <2> HIDE DEF others
  <2>4. \/ Apply(l, op, all) = [l EXCEPT !.order = Append(others, i)]
        \/ Apply(l, op, all) = [l EXCEPT !.order = <<i>> \o others]
      BY <2>1 DEF Apply, i, others
  <2>5. \/ Apply(l, op, all) = [container |-> l.container, order |-> Append(others, i)]
        \/ Apply(l, op, all) = [container |-> l.container, order |-> <<i>> \o others]
      BY <2>4, TidyExcept
  <2> QED BY <1>1, <2>3, <2>5, TidyMade
<1>3. CASE op \in Exchange
  <2>1. op.op = "swap" /\ op.ids \in Two
      BY <1>3 DEF Exchange
  <2> DEFINE cs == Swapped(l.container, op.ids[1], op.ids[2])
  <2>2. op.ids[1] \in Mounted /\ op.ids[2] \in Mounted
      BY <2>1, NamedIsMounted
  <2>3. /\ Normalize(l.container[op.ids[1]]) \in InGridContainer
        /\ Normalize(l.container[op.ids[2]]) \in InGridContainer
      BY <1>1, <2>2, OnGrid
  <2>4. cs \in [Mounted -> InGridContainer]
      BY <1>1, <2>2, <2>3 DEF Swapped
  <2>5. Apply(l, op, all) = [l EXCEPT !.container = cs]
      BY <2>1 DEF Apply
  <2> HIDE DEF cs
  <2>6. Apply(l, op, all) = [container |-> cs, order |-> l.order]
      BY <2>5, TidyExcept
  <2>7. [container |-> cs, order |-> l.order] \in TidyLayouts(Mounted)
      BY <1>1, <2>4, TidyMade
  <2> QED BY <2>6, <2>7
<1>4. CASE op \in Distribute
  <2>1. op.op = "distribute" /\ op.ids \in Listed /\ op.axis \in Axis /\ op.gap \in Nat
      BY <1>4, GridAssumption DEF Distribute
  <2> DEFINE ids == Targets(op.ids, all)
             cs == Distributed(l.container, ids, op.axis, op.gap)
  <2>2. ids \in Seq(Mounted) /\ Differ(ids)
      BY <2>1, TargetsDiffer
  <2>3. cs \in [Mounted -> InGridContainer]
    <3> HIDE DEF ids
    <3> QED BY <1>1, <2>1, <2>2, DistributedInGrid
  <2>4. Apply(l, op, all) = [l EXCEPT !.container = cs]
      BY <2>1 DEF Apply
  <2> HIDE DEF cs
  <2>6. Apply(l, op, all) = [container |-> cs, order |-> l.order]
      BY <2>4, TidyExcept
  <2>7. [container |-> cs, order |-> l.order] \in TidyLayouts(Mounted)
      BY <1>1, <2>3, TidyMade
  <2> QED BY <2>6, <2>7
<1>5. CASE op \in EachOp
  <2> DEFINE cs == ChangedEach(l.container, Targets(op.ids, all), op)
  <2>1. op.op \in {"move", "resize", "set", "align", "snap"}
      BY <1>5, EachOpTyped
  <2>2. Apply(l, op, all) = [l EXCEPT !.container = cs]
      BY <2>1 DEF Apply
  <2>3. \A i \in Mounted : Changed(l.container[i], op) \in InGridContainer
      BY <1>1, <1>5, ChangedInGrid
  <2>4. cs \in [Mounted -> InGridContainer]
      BY <1>1, <2>3 DEF ChangedEach
  <2> HIDE DEF cs
  <2>6. Apply(l, op, all) = [container |-> cs, order |-> l.order]
      BY <2>2, TidyExcept
  <2>7. [container |-> cs, order |-> l.order] \in TidyLayouts(Mounted)
      BY <1>1, <2>4, TidyMade
  <2> QED BY <2>6, <2>7
<1> QED BY <1>2, <1>3, <1>4, <1>5 DEF Op, EachOp

\* Layouts of mounted containers: in any place, each id once in the order.
Mountings(M) ==
    {l \in [container : [M -> Container], order : Seq(M)] :
         Elements(l.order) = M /\ Differ(l.order)}

\* The operations of a command, one after the other, on normalized containers.
After(l, ops, after) ==
    /\ after[0] = [container |-> Prepared(l.container), order |-> l.order]
    /\ \A n \in 1..Len(ops) : after[n] = Apply(after[n - 1], ops[n], l.order)
    /\ \A n \in 0..Len(ops) : after[n] \in TidyLayouts(Mounted)

\* The function that Updated reads its result from.
IsAfter(l, ops, after) ==
    after = [n \in 0..Len(ops) |->
                IF n = 0 THEN [l EXCEPT !.container = Prepared(l.container)]
                ELSE Apply(after[n - 1], ops[n], l.order)]

LEMMA PreparedTidies ==
    ASSUME NEW M, NEW l \in Mountings(M)
    PROVE  /\ [container |-> Prepared(l.container), order |-> l.order] \in TidyLayouts(M)
           /\ [l EXCEPT !.container = Prepared(l.container)]
                  = [container |-> Prepared(l.container), order |-> l.order]
           /\ l.order \in Seq(M) /\ Differ(l.order) /\ Elements(l.order) = M
<1>1. /\ l.container \in [M -> Container] /\ l.order \in Seq(M)
      /\ Elements(l.order) = M /\ Differ(l.order)
    BY DEF Mountings
<1>2. Prepared(l.container) \in [M -> InGridContainer]
  <2>1. \A i \in M : Normalize(l.container[i]) \in InGridContainer
      BY <1>1, NormalizeTyped
  <2> QED BY <1>1, <2>1 DEF Prepared
<1>3. \A cs : [l EXCEPT !.container = cs] = [container |-> cs, order |-> l.order]
    BY DEF Mountings
<1> QED BY <1>1, <1>2, <1>3, TidyMade

LEMMA UpdatedBySteps ==
    ASSUME NEW l \in Mountings(Mounted), NEW ops \in Seq(Op)
    PROVE  \E after : After(l, ops, after) /\ Updated(l, ops) = after[Len(ops)]
<1> DEFINE m == Len(ops)
           S == TidyLayouts(Mounted)
           b == [container |-> Prepared(l.container), order |-> l.order]
           step == [p \in (1..m) \X S |-> Apply(p[2], ops[p[1]], l.order)]
           after == CHOOSE f : IsAfter(l, ops, f)
<1>1. m \in Nat /\ \A n \in 1..m : ops[n] \in Op
    BY LenProperties, ElementOfSeq
<1>2. /\ b \in S /\ [l EXCEPT !.container = Prepared(l.container)] = b
      /\ l.order \in Seq(Mounted) /\ Differ(l.order)
    BY PreparedTidies
<1>3. Updated(l, ops) = after[m]
    BY DEF Updated, IsAfter
<1> HIDE DEF m, S, b
<1>4. \A n \in 1..m, x \in S : Apply(x, ops[n], l.order) \in S
    BY <1>1, <1>2, ApplyTidies DEF S
<1>5. /\ step \in [(1..m) \X S -> S]
      /\ \A n \in 1..m, x \in S : step[<<n, x>>] = Apply(x, ops[n], l.order)
    BY <1>4
<1> HIDE DEF step
<1>6. PICK f \in [0..m -> S] : IsRecursion(f, m, b, step)
    BY <1>1, <1>2, <1>5, RecursionExists
<1>7. IsAfter(l, ops, f)
  <2> DEFINE e(n) == IF n = 0 THEN [l EXCEPT !.container = Prepared(l.container)]
                     ELSE Apply(f[n - 1], ops[n], l.order)
  <2>1. ASSUME NEW n \in 0..m PROVE f[n] = e(n)
    <3>1. CASE n = 0
        BY <1>2, <1>6, <3>1 DEF IsRecursion
    <3>2. CASE n # 0
      <4>1. n \in 1..m /\ n - 1 \in 0..m
          BY <1>1, <3>2
      <4>2. f[n] = step[<<n, f[n - 1]>>]
          BY <1>6, <3>2 DEF IsRecursion
      <4> QED BY <1>5, <3>2, <4>1, <4>2
    <3> QED BY <3>1, <3>2
  <2>2. f = [n \in 0..m |-> e(n)]
    <3> HIDE DEF e
    <3> QED BY <2>1
  <2> QED BY <2>2 DEF IsAfter, m
<1>8. IsAfter(l, ops, after)
    BY <1>7
<1> HIDE DEF after
<1>9. after[0] = b /\ \A n \in 1..m : after[n] = Apply(after[n - 1], ops[n], l.order)
  <2>1. \A n \in 0..m : after[n] = IF n = 0 THEN [l EXCEPT !.container = Prepared(l.container)]
                                   ELSE Apply(after[n - 1], ops[n], l.order)
      BY <1>8 DEF IsAfter, m
  <2>2. 0 \in 0..m /\ \A n \in 1..m : n \in 0..m /\ n # 0
      BY <1>1
  <2> QED BY <1>2, <2>1, <2>2
<1>10. \A n \in 0..m : after[n] \in S
  <2>1. \A n \in 1..m : after[n - 1] \in S => after[n] \in S
      BY <1>4, <1>9
  <2> QED BY <1>1, <1>2, <1>9, <2>1, StepsStay
<1>11. After(l, ops, after)
    BY <1>9, <1>10 DEF After, m, S, b
<1> QED BY <1>3, <1>11 DEF m

-----------------------------------------------------------------------------
(* Layout: what holds of every room.                                       *)

LEMMA LayoutIsMounting == GridTypeOK => Layout \in Mountings(Mounted)
BY DEF GridTypeOK, Layout, Mountings, Differ

\* A layout command leaves a tidy layout of the same instances.
LEMMA CommandTidies ==
    ASSUME GridTypeOK, NEW n \in 1..MaxOps, NEW ops \in [1..n -> Op]
    PROVE  Updated(Layout, ops) \in TidyLayouts(Mounted)
<1>1. n \in Nat
    BY GridAssumption
<1>2. ops \in Seq(Op) /\ Len(ops) = n
    BY <1>1
<1>3. PICK after : After(Layout, ops, after) /\ Updated(Layout, ops) = after[Len(ops)]
    BY <1>2, LayoutIsMounting, UpdatedBySteps
<1> QED BY <1>1, <1>2, <1>3 DEF After

LEMMA GridTypesInit == GridInit => GridTypeOK
<1> SUFFICES ASSUME GridInit PROVE GridTypeOK
    OBVIOUS
<1>1. container = <<>> /\ order = <<>> /\ Mounted = {}
    BY DEF GridInit, Mounted
<1>2. container \in [{} -> Container]
    BY <1>1
<1>3. order \in Seq({}) /\ Len(order) = 0 /\ Elements(order) = {}
    BY <1>1, EmptySeq, ElementsEmpty
<1> QED BY <1>1, <1>2, <1>3 DEF GridTypeOK

LEMMA GridTypesKept == GridTypeOK /\ [GridNext]_gridVars => GridTypeOK'
<1> SUFFICES ASSUME GridTypeOK, [GridNext]_gridVars PROVE GridTypeOK'
    OBVIOUS
<1>1. /\ Mounted \subseteq Instance /\ container \in [Mounted -> Container]
      /\ order \in Seq(Mounted) /\ Elements(order) = Mounted /\ Differ(order)
      /\ \A i \in Mounted : /\ container[i].x >= 0 /\ container[i].y >= 0
                            /\ container[i].w \in 1..GridWidth /\ container[i].h >= 1
    BY DEF GridTypeOK, Differ
<1>2. ASSUME NEW i \in Instance, NEW c \in Placement, Mount(i, c)
      PROVE  GridTypeOK'
  <2> DEFINE M == Mounted \cup {i}
             cs == [j \in M |-> IF j = i THEN c ELSE container[j]]
  <2>1. i \notin Mounted /\ container' = cs /\ order' = Append(order, i)
      BY <1>2 DEF Mount
  <2>2. /\ c \in Container /\ c.x >= 0 /\ c.y >= 0 /\ c.w \in 1..GridWidth /\ c.h >= 1
      BY GridAssumption DEF Container
  <2>3. Mounted' = M
      BY <2>1 DEF Mounted
  <2>4. cs \in [M -> Container]
      BY <1>1, <2>2
  <2>5. \A j \in M : /\ cs[j].x >= 0 /\ cs[j].y >= 0
                     /\ cs[j].w \in 1..GridWidth /\ cs[j].h >= 1
      BY <1>1, <2>1, <2>2
  <2>6. order \in Seq(M) /\ i \in M
      BY <1>1, SeqMonotonic
  <2> HIDE DEF cs
  <2>7. Append(order, i) \in Seq(M) /\ Elements(Append(order, i)) = M
    <3> HIDE DEF M
    <3>1. Append(order, i) \in Seq(M)
        BY <2>6, AppendProperties
    <3>2. Elements(Append(order, i)) = Elements(order) \cup {i}
        BY <2>6, ElementsAppend
    <3> QED BY <1>1, <3>1, <3>2 DEF M
  <2>8. Differ(Append(order, i))
    <3> HIDE DEF M
    <3> QED BY <1>1, <2>1, <2>6, DifferAppend
  <2> QED BY <1>1, <2>1, <2>3, <2>4, <2>5, <2>7, <2>8 DEF GridTypeOK, Differ
<1>3. ASSUME NEW i \in Instance, Unmount(i)
      PROVE  GridTypeOK'
  <2> DEFINE M == Mounted \ {i}
             cs == [j \in M |-> container[j]]
             kept == Without(order, {i})
  <2>1. container' = cs /\ order' = kept
      BY <1>3 DEF Unmount
  <2>2. Mounted' = M
      BY <2>1 DEF Mounted
  <2>3. /\ cs \in [M -> Container]
        /\ \A j \in M : /\ cs[j].x >= 0 /\ cs[j].y >= 0
                        /\ cs[j].w \in 1..GridWidth /\ cs[j].h >= 1
      BY <1>1
  <2>4. kept \in Seq(Mounted) /\ Elements(kept) = M /\ Differ(kept)
      BY <1>1, WithoutElements, DifferWithout
  <2> HIDE DEF cs, kept
  <2>5. kept \in Seq(M)
    <3>1. \A k \in 1..Len(kept) : kept[k] \in M
        BY <2>4, ElementsTyped
    <3>2. Len(kept) \in Nat /\ kept = [k \in 1..Len(kept) |-> kept[k]]
        BY <2>4, LenProperties
    <3> HIDE DEF M
    <3> QED BY <3>1, <3>2, IsASeq
  <2> QED BY <1>1, <2>1, <2>2, <2>3, <2>4, <2>5 DEF GridTypeOK, Differ
<1>4. ASSUME NEW n \in 1..MaxOps, NEW ops \in [1..n -> Op], HandleLayout(ops)
      PROVE  GridTypeOK'
  <2> DEFINE after == Updated(Layout, ops)
  <2>1. container' = after.container /\ order' = after.order
      BY <1>4 DEF HandleLayout
  <2>2. /\ after.container \in [Mounted -> InGridContainer] /\ after.order \in Seq(Mounted)
        /\ Elements(after.order) = Mounted /\ Differ(after.order)
      BY CommandTidies, TidyParts
  <2> HIDE DEF after
  <2>3. Mounted' = Mounted
      BY <2>1, <2>2 DEF Mounted
  <2>4. ASSUME NEW i \in Mounted
        PROVE  LET c == after.container[i]
               IN /\ c \in Container /\ c.x >= 0 /\ c.y >= 0
                  /\ c.w \in 1..GridWidth /\ c.h >= 1
    <3>1. after.container[i] \in Container /\ InGrid(after.container[i])
        BY <2>2, OnGrid
    <3> QED BY <3>1, GridAssumption DEF Container, InGrid
  <2>5. after.container \in [Mounted -> Container]
      BY <2>2, <2>4
  <2> QED BY <1>1, <2>1, <2>2, <2>3, <2>4, <2>5 DEF GridTypeOK, Differ
<1>5. CASE UNCHANGED gridVars
    BY <1>5 DEF gridVars, GridTypeOK, Mounted
<1> QED BY <1>2, <1>3, <1>4, <1>5 DEF GridNext

\* Every instance is in the order once, in a container of its own, wherever mounts
\* put it.
THEOREM GridTypes == GridSpec => []GridTypeOK
<1> QED BY GridTypesInit, GridTypesKept, PTL DEF GridSpec

\* A layout command that changes anything leaves every instance inside the grid.
THEOREM LayoutsTidy == GridSpec => LayoutTidies
<1>1. GridTypeOK /\ [GridNext]_gridVars =>
          [DOMAIN container' = DOMAIN container /\ container' # container =>
               \A i \in DOMAIN container' : InGrid(container'[i])]_gridVars
  <2> SUFFICES ASSUME GridTypeOK, GridNext, DOMAIN container' = DOMAIN container,
                      NEW i \in DOMAIN container'
               PROVE  InGrid(container'[i])
      OBVIOUS
  <2>1. ASSUME NEW j \in Instance, NEW c \in Placement, Mount(j, c) PROVE FALSE
    <3>1. j \notin DOMAIN container /\ DOMAIN container' = DOMAIN container \cup {j}
        BY <2>1 DEF Mount, Mounted
    <3> QED BY <3>1
  <2>2. ASSUME NEW j \in Instance, Unmount(j) PROVE FALSE
    <3>1. j \in DOMAIN container /\ DOMAIN container' = DOMAIN container \ {j}
        BY <2>2 DEF Unmount, Mounted
    <3> QED BY <3>1
  <2>3. ASSUME NEW n \in 1..MaxOps, NEW ops \in [1..n -> Op], HandleLayout(ops)
        PROVE  InGrid(container'[i])
    <3>1. container' = Updated(Layout, ops).container
        BY <2>3 DEF HandleLayout
    <3>2. Updated(Layout, ops).container \in [Mounted -> InGridContainer]
        BY CommandTidies, TidyParts
    <3> QED BY <3>1, <3>2, OnGrid
  <2> QED BY <2>1, <2>2, <2>3 DEF GridNext
<1> QED BY <1>1, GridTypes, PTL DEF GridSpec, LayoutTidies

\* A command of one operation, and of two.
LEMMA UpdatedByOne ==
    ASSUME NEW l \in Mountings(Mounted), NEW op \in Op
    PROVE  LET tidy == [container |-> Prepared(l.container), order |-> l.order]
           IN /\ tidy \in TidyLayouts(Mounted)
              /\ Updated(l, <<op>>) = Apply(tidy, op, l.order)
              /\ Updated(l, <<op>>) \in TidyLayouts(Mounted)
<1>1. <<op>> \in Seq(Op) /\ Len(<<op>>) = 1 /\ <<op>>[1] = op
    OBVIOUS
<1>2. PICK after : After(l, <<op>>, after) /\ Updated(l, <<op>>) = after[Len(<<op>>)]
    BY <1>1, UpdatedBySteps
<1>3. /\ after[0] = [container |-> Prepared(l.container), order |-> l.order]
      /\ after[1] = Apply(after[0], op, l.order)
      /\ after[0] \in TidyLayouts(Mounted) /\ after[1] \in TidyLayouts(Mounted)
  <2>1. 1 \in 1..Len(<<op>>) /\ 1 - 1 = 0 /\ 0 \in 0..Len(<<op>>) /\ 1 \in 0..Len(<<op>>)
      BY <1>1
  <2> QED BY <1>1, <1>2, <2>1 DEF After
<1> QED BY <1>1, <1>2, <1>3

LEMMA UpdatedByTwo ==
    ASSUME NEW l \in Mountings(Mounted), NEW first \in Op, NEW second \in Op
    PROVE  Updated(l, <<first, second>>) = Apply(Updated(l, <<first>>), second, l.order)
<1> DEFINE ops == <<first, second>>
<1>1. ops \in Seq(Op) /\ Len(ops) = 2 /\ ops[1] = first /\ ops[2] = second
    OBVIOUS
<1> HIDE DEF ops
<1>2. PICK after : After(l, ops, after) /\ Updated(l, ops) = after[Len(ops)]
    BY <1>1, UpdatedBySteps
<1>3. /\ after[0] = [container |-> Prepared(l.container), order |-> l.order]
      /\ after[1] = Apply(after[0], first, l.order)
      /\ after[2] = Apply(after[1], second, l.order)
  <2>1. 1 \in 1..Len(ops) /\ 1 - 1 = 0 /\ 2 \in 1..Len(ops) /\ 2 - 1 = 1
      BY <1>1
  <2> QED BY <1>1, <1>2, <2>1 DEF After
<1>4. after[1] = Updated(l, <<first>>)
    BY <1>3, UpdatedByOne
<1> QED BY <1>1, <1>2, <1>3, <1>4 DEF ops

\* Tidy layouts need no preparation.
LEMMA TidyIsPrepared ==
    ASSUME NEW l \in TidyLayouts(Mounted)
    PROVE  /\ l \in Mountings(Mounted)
           /\ [container |-> Prepared(l.container), order |-> l.order] = l
<1>1. /\ l.container \in [Mounted -> InGridContainer] /\ l.order \in Seq(Mounted)
      /\ Elements(l.order) = Mounted /\ Differ(l.order)
      /\ l = [container |-> l.container, order |-> l.order]
    BY TidyParts
<1>2. \A i \in Mounted : l.container[i] \in Container /\ Normalize(l.container[i]) = l.container[i]
    BY <1>1, OnGrid
<1>3. Prepared(l.container) = l.container
    BY <1>1, <1>2 DEF Prepared
<1>4. l.container \in [Mounted -> Container]
    BY <1>1, <1>2
<1>5. [container |-> l.container, order |-> l.order] \in Mountings(Mounted)
    BY <1>1, <1>4 DEF Mountings
<1> QED BY <1>1, <1>3, <1>5

\* One command does what two do, but for "distribute" after a restack.
THEOREM BatchesAreSequences == GridSpec => []BatchIsSequence
<1>1. GridTypeOK => BatchIsSequence
  <2> SUFFICES ASSUME GridTypeOK, NEW first \in Restack \cup Move,
                      NEW second \in Align \cup Distribute \cup Snap, second.ids = <<>>,
                      ~(first \in Restack /\ second.op = "distribute")
               PROVE  Updated(Layout, <<first, second>>)
                          = Updated(Updated(Layout, <<first>>), <<second>>)
      BY DEF BatchIsSequence
  <2> DEFINE once == Updated(Layout, <<first>>)
             tidy == [container |-> Prepared(Layout.container), order |-> Layout.order]
  <2>1. first \in Op /\ second \in Op
      BY DEF Op
  <2>2. Layout \in Mountings(Mounted)
      BY LayoutIsMounting
  <2>3. once \in TidyLayouts(Mounted) /\ once = Apply(tidy, first, Layout.order)
        /\ tidy \in TidyLayouts(Mounted)
      BY <2>1, <2>2, UpdatedByOne
  <2>4. Updated(Layout, <<first, second>>) = Apply(once, second, Layout.order)
      BY <2>1, <2>2, UpdatedByTwo
  <2> HIDE DEF once, tidy
  <2>5. Updated(once, <<second>>) = Apply(once, second, once.order)
    <3>1. once \in Mountings(Mounted)
          /\ [container |-> Prepared(once.container), order |-> once.order] = once
        BY <2>3, TidyIsPrepared
    <3> QED BY <2>1, <3>1, UpdatedByOne
  <2>6. CASE first \in Move
    <3>1. first.op = "move"
        BY <2>6 DEF Move
    <3>2. once.order = tidy.order
      <4>1. \E cs : once = [tidy EXCEPT !.container = cs]
          BY <2>3, <3>1 DEF Apply
      <4>2. PICK cs : once = [container |-> cs, order |-> tidy.order]
          BY <2>3, <4>1, TidyExcept
      <4> QED BY <4>2
    <3>3. once.order = Layout.order
        BY <3>2 DEF tidy
    <3> QED BY <2>4, <2>5, <3>3 DEF once
  <2>7. CASE first \in Restack
    <3>1. second \in Align \cup Snap /\ second.op \in {"align", "snap"}
        BY <2>7 DEF Align, Snap, Distribute
    <3>2. Elements(once.order) = Mounted /\ Elements(Layout.order) = Mounted
        BY <2>2, <2>3, TidyParts DEF Mountings
    <3>3. \A all : Apply(once, second, all)
                       = [once EXCEPT !.container = ChangedEach(once.container, all, second)]
        BY <3>1 DEF Apply, Targets
    <3>4. ChangedEach(once.container, once.order, second)
              = ChangedEach(once.container, Layout.order, second)
        BY <3>2 DEF ChangedEach
    <3> QED BY <2>4, <2>5, <3>3, <3>4 DEF once
  <2> QED BY <2>6, <2>7
<1> QED BY <1>1, GridTypes, PTL

-----------------------------------------------------------------------------
(* Layout: sending an operation again.                                     *)

LEMMA DivFacts ==
    ASSUME NEW a \in Int, NEW b \in Nat \ {0}
    PROVE  a \div b \in Int /\ b * (a \div b) <= a /\ a < b * (a \div b) + b
OBVIOUS

LEMMA ModFacts ==
    ASSUME NEW a \in Nat, NEW b \in Nat \ {0}, a % b = 0
    PROVE  a \div b \in Nat /\ a = b * (a \div b)
OBVIOUS

\* q * s is the multiple of s nearest to v, the upper one of two.
Nearest(v, s, q) ==
    q * s \in Int /\ 2 * (q * s) <= 2 * v + s /\ 2 * v + s < 2 * (q * s) + 2 * s

LEMMA SnapNearest ==
    ASSUME NEW v \in Int, NEW s \in Nat \ {0}
    PROVE  \E q \in Int : SnapTo(v, s) = q * s /\ Nearest(v, s, q)
<1> DEFINE a == 2 * v + s
           b == 2 * s
           q == a \div b
<1>1. a \in Int /\ b \in Nat \ {0}
    OBVIOUS
<1>2. SnapTo(v, s) = q * s
    BY DEF SnapTo
<1> HIDE DEF a, b
<1>3. q \in Int /\ b * q <= a /\ a < b * q + b
    BY <1>1, DivFacts
<1> HIDE DEF q
<1>4. b * q = 2 * (q * s) /\ q * s \in Int
    BY <1>3 DEF b
<1>5. 2 * (q * s) <= a /\ a < 2 * (q * s) + b
    BY <1>3, <1>4
<1>6. 2 * (q * s) <= 2 * v + s /\ 2 * v + s < 2 * (q * s) + 2 * s
    BY <1>5 DEF a, b
<1> QED BY <1>2, <1>3, <1>4, <1>6 DEF Nearest

\* It is the only multiple that near.
LEMMA NearestIsOne ==
    ASSUME NEW v \in Int, NEW s \in Nat \ {0}, NEW k \in Int, Nearest(v, s, k)
    PROVE  SnapTo(v, s) = k * s
<1>0. PICK q \in Int : SnapTo(v, s) = q * s /\ Nearest(v, s, q)
    BY SnapNearest
<1>1. /\ SnapTo(v, s) = q * s /\ q * s \in Int
      /\ 2 * (q * s) <= 2 * v + s /\ 2 * v + s < 2 * (q * s) + 2 * s
    BY <1>0 DEF Nearest
<1>2. /\ k * s \in Int
      /\ 2 * (k * s) <= 2 * v + s /\ 2 * v + s < 2 * (k * s) + 2 * s
    BY DEF Nearest
<1>3. q * s < k * s + s /\ k * s < q * s + s
    BY <1>1, <1>2
<1>4. (q - k) * s < s /\ (k - q) * s < s
    BY <1>3
<1>5. \A d \in Int : d * s < s => d < 1
    OBVIOUS
<1>6. q - k < 1 /\ k - q < 1
    BY <1>4, <1>5
<1>7. q = k
    BY <1>6
<1> QED BY <1>1, <1>7

LEMMA SnapMultiple ==
    ASSUME NEW q \in Int, NEW s \in Nat \ {0}
    PROVE  SnapTo(q * s, s) = q * s
<1>1. q * s \in Int
    OBVIOUS
<1>2. Nearest(q * s, s, q)
    BY <1>1 DEF Nearest
<1> QED BY <1>1, <1>2, NearestIsOne

\* One below a multiple snaps to it, if the step is more than two.
LEMMA SnapOneBelow ==
    ASSUME NEW q \in Int, NEW s \in Nat, s >= 3
    PROVE  SnapTo(q * s - 1, s) = q * s
<1>1. q * s \in Int
    OBVIOUS
<1>2. Nearest(q * s - 1, s, q) /\ q * s - 1 \in Int
    BY <1>1 DEF Nearest
<1> QED BY <1>2, <1>2, NearestIsOne

\* A coordinate snaps to a multiple.
LEMMA SnappedPlace ==
    ASSUME NEW v \in Nat, NEW s \in Nat \ {0}
    PROVE  \E q \in Nat : AtLeast(0, SnapTo(v, s)) = q * s
<1>0. PICK q \in Int : SnapTo(v, s) = q * s /\ Nearest(v, s, q)
    BY SnapNearest
<1>1. /\ SnapTo(v, s) = q * s /\ q * s \in Int
      /\ 2 * (q * s) <= 2 * v + s /\ 2 * v + s < 2 * (q * s) + 2 * s
    BY <1>0 DEF Nearest
<1>2. q >= 0
  <2> SUFFICES ASSUME q <= -1 PROVE FALSE
      OBVIOUS
  <2>1. q * s <= -s
      OBVIOUS
  <2> QED BY <1>1, <2>1
<1>3. q * s >= 0
    BY <1>2
<1> QED BY <1>1, <1>2, <1>3 DEF AtLeast

\* A size snaps to a multiple, or to one if it is less than half a step.
LEMMA SnappedSize ==
    ASSUME NEW v \in Nat \ {0}, NEW s \in Nat \ {0}
    PROVE  LET size == AtLeast(1, SnapTo(v, s))
           IN \/ \E q \in Nat \ {0} : size = q * s
              \/ size = 1 /\ s >= 3
<1>0. PICK q \in Int : SnapTo(v, s) = q * s /\ Nearest(v, s, q)
    BY SnapNearest
<1>1. /\ SnapTo(v, s) = q * s /\ q * s \in Int
      /\ 2 * (q * s) <= 2 * v + s /\ 2 * v + s < 2 * (q * s) + 2 * s
    BY <1>0 DEF Nearest
<1>2. CASE q >= 1
  <2>1. q * s >= s
      BY <1>2
  <2>2. AtLeast(1, SnapTo(v, s)) = q * s
      BY <1>1, <2>1 DEF AtLeast
  <2> QED BY <1>2, <2>2
<1>3. CASE q <= 0
  <2>1. q * s <= 0
      BY <1>3
  <2>2. AtLeast(1, SnapTo(v, s)) = 1
      BY <1>1, <2>1 DEF AtLeast
  <2>3. s >= 3
      BY <1>1, <2>1
  <2> QED BY <2>2, <2>3
<1> QED BY <1>1, <1>2, <1>3

LEMMA SizeOfMultiple ==
    ASSUME NEW q \in Nat \ {0}, NEW s \in Nat \ {0}
    PROVE  AtLeast(1, SnapTo(q * s, s)) = q * s
<1>1. q * s >= 1 /\ q * s \in Int
    OBVIOUS
<1>2. q \in Int
    OBVIOUS
<1>3. SnapTo(q * s, s) = q * s
    BY <1>2, SnapMultiple, Zenon
<1> QED BY <1>1, <1>3 DEF AtLeast

LEMMA SizeOfOne ==
    ASSUME NEW s \in Nat, s >= 3
    PROVE  AtLeast(1, SnapTo(1, s)) = 1
<1>1. SnapTo(1, s) = 0 * s
  <2>1. Nearest(1, s, 0)
      BY DEF Nearest
  <2> QED BY <2>1, NearestIsOne
<1> QED BY <1>1 DEF AtLeast

\* A place or size that was snapped stays where snapping put it.
LEMMA PlaceAgain ==
    ASSUME NEW v \in Nat, NEW s \in Nat \ {0}
    PROVE  LET place == AtLeast(0, SnapTo(v, s))
           IN place \in Nat /\ AtLeast(0, SnapTo(place, s)) = place
<1>1. PICK q \in Nat : AtLeast(0, SnapTo(v, s)) = q * s
    BY SnappedPlace
<1>2. q \in Int /\ q * s \in Nat
    OBVIOUS
<1>3. SnapTo(q * s, s) = q * s
    BY <1>2, SnapMultiple, Zenon
<1>4. AtLeast(0, SnapTo(q * s, s)) = q * s
    BY <1>2, <1>3 DEF AtLeast
<1> QED BY <1>1, <1>2, <1>4

LEMMA SizeAgain ==
    ASSUME NEW v \in Nat \ {0}, NEW s \in Nat \ {0}
    PROVE  LET size == AtLeast(1, SnapTo(v, s))
           IN size \in Nat \ {0} /\ AtLeast(1, SnapTo(size, s)) = size
<1> DEFINE size == AtLeast(1, SnapTo(v, s))
           Stays(n) == n \in Nat \ {0} /\ AtLeast(1, SnapTo(n, s)) = n
<1>1. (\E q \in Nat \ {0} : size = q * s) \/ (size = 1 /\ s >= 3)
    BY SnappedSize
<1>2. s >= 3 => Stays(1)
    BY SizeOfOne
<1>3. ASSUME NEW q \in Nat \ {0} PROVE Stays(q * s)
  <2>1. q * s \in Nat \ {0}
      OBVIOUS
  <2>2. AtLeast(1, SnapTo(q * s, s)) = q * s
      BY SizeOfMultiple, Zenon
  <2> QED BY <2>1, <2>2
<1> HIDE DEF Stays, size
<1>4. Stays(size)
    BY <1>1, <1>2, <1>3, Zenon
<1> QED BY <1>4 DEF Stays, size

\* So does a width that the grid cuts off, if the step divides the grid's.
LEMMA WidthAgain ==
    ASSUME NEW v \in Nat \ {0}, NEW s \in Nat \ {0}, GridWidth % s = 0
    PROVE  LET width == Clamp(AtLeast(1, SnapTo(v, s)), 1, GridWidth)
           IN /\ width \in 1..GridWidth
              /\ Clamp(AtLeast(1, SnapTo(width, s)), 1, GridWidth) = width
              /\ (\E q \in Nat : width = q * s) \/ (width = 1 /\ s >= 3)
<1> DEFINE size == AtLeast(1, SnapTo(v, s))
           width == Clamp(size, 1, GridWidth)
<1>1. size \in Nat \ {0} /\ AtLeast(1, SnapTo(size, s)) = size
    BY SizeAgain
<1>2. (\E q \in Nat \ {0} : size = q * s) \/ (size = 1 /\ s >= 3)
    BY SnappedSize
<1>3. GridWidth \in Nat \ {0}
    BY GridAssumption
<1> HIDE DEF size
<1>4. CASE size <= GridWidth
  <2>1. width = size
      BY <1>1, <1>3, <1>4 DEF Clamp
  <2> QED BY <1>1, <1>2, <1>3, <1>4, <2>1 DEF size
<1>5. CASE ~(size <= GridWidth)
  <2>1. width = GridWidth
      BY <1>1, <1>3, <1>5 DEF Clamp
  <2>2. PICK k \in Nat : GridWidth = s * k
      BY <1>3, ModFacts
  <2>3. k \in Nat \ {0} /\ GridWidth = k * s
      BY <1>3, <2>2
  <2>4. AtLeast(1, SnapTo(k * s, s)) = k * s
      BY <2>3, SizeOfMultiple, Zenon
  <2>5. Clamp(GridWidth, 1, GridWidth) = GridWidth
      BY <1>3 DEF Clamp
  <2> QED BY <1>3, <2>1, <2>3, <2>4, <2>5 DEF size
<1> QED BY <1>4, <1>5

\* And a column, in what the snapped width leaves of the grid.
LEMMA ColumnAgain ==
    ASSUME NEW v \in Nat, NEW s \in Nat \ {0}, GridWidth % s = 0, NEW width \in 1..GridWidth,
           (\E q \in Nat : width = q * s) \/ (width = 1 /\ s >= 3)
    PROVE  LET column == Clamp(AtLeast(0, SnapTo(v, s)), 0, GridWidth - width)
           IN Clamp(AtLeast(0, SnapTo(column, s)), 0, GridWidth - width) = column
<1> DEFINE place == AtLeast(0, SnapTo(v, s))
           column == Clamp(place, 0, GridWidth - width)
<1>1. GridWidth \in Nat \ {0}
    BY GridAssumption
<1>2. place \in Nat /\ AtLeast(0, SnapTo(place, s)) = place
    BY PlaceAgain
<1> HIDE DEF place
<1>3. PICK k \in Nat : GridWidth = s * k
    BY <1>1, ModFacts
<1>4. GridWidth = k * s /\ k >= 1
    BY <1>1, <1>3
<1>5. CASE place <= GridWidth - width
  <2>1. column = place
      BY <1>1, <1>2, <1>5 DEF Clamp
  <2>2. Clamp(place, 0, GridWidth - width) = place
      BY <1>1, <1>2, <1>5 DEF Clamp
  <2> QED BY <1>2, <2>1, <2>2 DEF place
<1>6. CASE ~(place <= GridWidth - width)
  <2>1. column = GridWidth - width
      BY <1>1, <1>2, <1>6 DEF Clamp
  <2>2. AtLeast(0, SnapTo(GridWidth - width, s)) >= GridWidth - width
        /\ AtLeast(0, SnapTo(GridWidth - width, s)) \in Int
    <3>1. ASSUME NEW q \in Nat, width = q * s PROVE SnapTo(GridWidth - width, s) = GridWidth - width
      <4> DEFINE d == k - q
      <4>1. d \in Int /\ GridWidth - width = d * s
          BY <1>4, <3>1
      <4> HIDE DEF d
      <4>2. SnapTo(d * s, s) = d * s
          BY <4>1, SnapMultiple, Zenon
      <4> QED BY <4>1, <4>2
    <3>2. ASSUME width = 1, s >= 3 PROVE SnapTo(GridWidth - width, s) = GridWidth
      <4>1. s \in Nat /\ k \in Int
          OBVIOUS
      <4>2. SnapTo(k * s - 1, s) = k * s
          BY <3>2, <4>1, SnapOneBelow, Zenon
      <4> QED BY <1>4, <3>2, <4>2
    <3>3. \/ SnapTo(GridWidth - width, s) = GridWidth - width
          \/ SnapTo(GridWidth - width, s) = GridWidth
        BY <3>1, <3>2
    <3> QED BY <1>1, <3>3 DEF AtLeast
  <2>3. \A a \in Int : a >= GridWidth - width => Clamp(a, 0, GridWidth - width) = GridWidth - width
      BY <1>1 DEF Clamp
  <2> QED BY <2>1, <2>2, <2>3 DEF place
<1> QED BY <1>5, <1>6

LEMMA SnappedAgain ==
    ASSUME NEW c \in InGridContainer, NEW stepX \in Nat \ {0}, NEW stepY \in Nat \ {0},
           GridWidth % stepX = 0
    PROVE  Snapped(Snapped(c, stepX, stepY), stepX, stepY) = Snapped(c, stepX, stepY)
<1>1. c.x \in Nat /\ c.y \in Nat /\ c.w \in Nat \ {0} /\ c.h \in Nat \ {0}
    BY DEF InGridContainer, Container, InGrid
<1> DEFINE w == Clamp(AtLeast(1, SnapTo(c.w, stepX)), 1, GridWidth)
           x == Clamp(AtLeast(0, SnapTo(c.x, stepX)), 0, GridWidth - w)
           y == AtLeast(0, SnapTo(c.y, stepY))
           h == AtLeast(1, SnapTo(c.h, stepY))
           d == [x |-> x, y |-> y, w |-> w, h |-> h]
<1>2. /\ w \in 1..GridWidth
      /\ Clamp(AtLeast(1, SnapTo(w, stepX)), 1, GridWidth) = w
      /\ (\E q \in Nat : w = q * stepX) \/ (w = 1 /\ stepX >= 3)
    BY <1>1, WidthAgain
<1>3. Clamp(AtLeast(0, SnapTo(x, stepX)), 0, GridWidth - w) = x
  <2> HIDE DEF w
  <2> QED BY <1>1, <1>2, ColumnAgain
<1>4. y \in Nat /\ AtLeast(0, SnapTo(y, stepY)) = y
    BY <1>1, PlaceAgain
<1>5. h \in Nat \ {0} /\ AtLeast(1, SnapTo(h, stepY)) = h
    BY <1>1, SizeAgain
<1>6. AtLeast(0, y) = y /\ AtLeast(1, h) = h
  <2> HIDE DEF y, h
  <2> QED BY <1>4, <1>5 DEF AtLeast
<1>7. Snapped(c, stepX, stepY) = d
    BY <1>6 DEF Snapped, Normalize
<1> HIDE DEF w, x, y, h
<1>8. Snapped(d, stepX, stepY) = d
    BY <1>2, <1>3, <1>4, <1>5, <1>6 DEF Snapped, Normalize
<1> QED BY <1>7, <1>8

LEMMA AlignedAgain ==
    ASSUME NEW c \in InGridContainer, NEW axis \in Axis, NEW value \in Int
    PROVE  Aligned(Aligned(c, axis, value), axis, value) = Aligned(c, axis, value)
<1>1. /\ c = [x |-> c.x, y |-> c.y, w |-> c.w, h |-> c.h]
      /\ c.x \in Nat /\ c.y \in Nat /\ c.w \in 1..GridWidth /\ c.h \in Nat \ {0}
      /\ GridWidth \in Nat
      /\ c.x <= GridWidth - c.w
    BY GridAssumption DEF InGridContainer, Container, InGrid
<1>2. Clamp(c.w, 1, GridWidth) = c.w /\ AtLeast(1, c.h) = c.h
    BY <1>1 DEF Clamp, AtLeast
<1>3. CASE axis = "x"
  <2> DEFINE v == Clamp(value, 0, GridWidth - c.w)
             d == [x |-> v, y |-> c.y, w |-> c.w, h |-> c.h]
  <2>1. AtLeast(0, c.y) = c.y
      BY <1>1 DEF AtLeast
  <2>2. [c EXCEPT ![axis] = value] = [x |-> value, y |-> c.y, w |-> c.w, h |-> c.h]
    <3>1. c \in Container
        BY DEF InGridContainer
    <3>2. [c EXCEPT !.x = value] = [x |-> value, y |-> c.y, w |-> c.w, h |-> c.h]
        BY <3>1 DEF Container
    <3> QED BY <1>3, <3>2
  <2>3. Aligned(c, axis, value) = d
      BY <1>2, <2>1, <2>2 DEF Aligned, Normalize
  <2>4. [d EXCEPT ![axis] = value] = [x |-> value, y |-> c.y, w |-> c.w, h |-> c.h]
      BY <1>3
  <2>5. Aligned(d, axis, value) = d
      BY <1>2, <2>1, <2>4 DEF Aligned, Normalize
  <2> QED BY <2>3, <2>5
<1>4. CASE axis = "y"
  <2> DEFINE v == AtLeast(0, value)
             d == [x |-> c.x, y |-> v, w |-> c.w, h |-> c.h]
  <2>1. Clamp(c.x, 0, GridWidth - c.w) = c.x
      BY <1>1 DEF Clamp
  <2>2. [c EXCEPT ![axis] = value] = [x |-> c.x, y |-> value, w |-> c.w, h |-> c.h]
    <3>1. c \in Container
        BY DEF InGridContainer
    <3>2. [c EXCEPT !.y = value] = [x |-> c.x, y |-> value, w |-> c.w, h |-> c.h]
        BY <3>1 DEF Container
    <3> QED BY <1>4, <3>2
  <2>3. Aligned(c, axis, value) = d
      BY <1>2, <2>1, <2>2 DEF Aligned, Normalize
  <2>4. [d EXCEPT ![axis] = value] = [x |-> c.x, y |-> value, w |-> c.w, h |-> c.h]
      BY <1>4
  <2>5. Aligned(d, axis, value) = d
      BY <1>2, <2>1, <2>4 DEF Aligned, Normalize
  <2> QED BY <2>3, <2>5
<1> QED BY <1>3, <1>4 DEF Axis

\* Operations on one container after the other that do not shift.
LEMMA ChangedAgain ==
    ASSUME NEW c \in InGridContainer, NEW op \in Place \cup Align \cup Snap,
           op.op = "snap" => GridWidth % op.stepX = 0
    PROVE  Changed(Changed(c, op), op) = Changed(c, op)
<1>0. op \in EachOp
    BY DEF EachOp
<1>1. CASE op \in Place
    BY <1>1 DEF Place, Changed
<1>2. CASE op \in Align
  <2>1. op.op = "align" /\ op.axis \in Axis /\ op.value \in Int
      BY <1>2 DEF Align
  <2> QED BY <2>1, AlignedAgain DEF Changed
<1>3. CASE op \in Snap
  <2>1. op.op = "snap" /\ op.stepX \in Nat \ {0} /\ op.stepY \in Nat \ {0}
      BY <1>3, GridAssumption DEF Snap
  <2> QED BY <2>1, SnappedAgain DEF Changed
<1> QED BY <1>1, <1>2, <1>3

\* Distributing down the y axis moves nothing but the ids, and they only down.
LEMMA AlignedDown ==
    ASSUME NEW c \in InGridContainer, NEW value \in Nat
    PROVE  /\ Aligned(c, "y", value).x = c.x /\ Aligned(c, "y", value).y = value
           /\ Aligned(c, "y", value).w = c.w /\ Aligned(c, "y", value).h = c.h
           /\ Aligned(c, "y", value) = [c EXCEPT !.y = value]
<1>1. c \in Container /\ InGrid(c)
    BY DEF InGridContainer
<1> DEFINE d == [c EXCEPT !.y = value]
<1>2. d \in Container /\ InGrid(d)
    BY <1>1 DEF Container, InGrid
<1>3. d.x = c.x /\ d.y = value /\ d.w = c.w /\ d.h = c.h
    BY <1>1 DEF Container
<1>4. Aligned(c, "y", value) = Normalize(d)
    BY DEF Aligned
<1> HIDE DEF d
<1>5. Normalize(d) = d
    BY <1>2, NormalizeFixesGrid
<1> QED BY <1>3, <1>4, <1>5 DEF d

LEMMA DistributedAgain ==
    ASSUME NEW M, NEW cs \in [M -> InGridContainer], NEW ids \in Seq(M), Differ(ids),
           NEW gap \in Nat
    PROVE  Distributed(Distributed(cs, ids, "y", gap), ids, "y", gap)
               = Distributed(cs, ids, "y", gap)
<1> DEFINE ds == Distributed(cs, ids, "y", gap)
           es == Distributed(ds, ids, "y", gap)
           line == Line(cs, ids, "y")
           again == Line(ds, ids, "y")
           at == Offset(cs, line, "y", gap)
           atAgain == Offset(ds, again, "y", gap)
<1>0. "y" \in Axis
    BY DEF Axis
<1>1. ds \in [M -> InGridContainer]
    BY <1>0, DistributedInGrid
<1>2. es \in [M -> InGridContainer]
  <2> HIDE DEF ds
  <2> QED BY <1>0, <1>1, DistributedInGrid
<1>3. CASE ~(Len(ids) >= 2)
  <2>1. \A fs \in [M -> InGridContainer] : Distributed(fs, ids, "y", gap) = fs
      BY <1>3 DEF Distributed
  <2> QED BY <1>1, <2>1
<1>4. CASE Len(ids) >= 2
  <2>1. cs \in [M -> Container] /\ \A i \in M : InGrid(cs[i])
      BY OnGrid
  <2>2. /\ line \in Seq(M) /\ Len(line) = Len(ids) /\ Elements(line) = Elements(ids)
        /\ Differ(line)
      BY <1>0, <2>1, LineProperties
  <2>3. /\ \A k \in 1..Len(line) : ds[line[k]] = Aligned(cs[line[k]], "y", at[k - 1])
        /\ \A i \in Elements(ids) : \E k \in 1..Len(line) : line[k] = i
        /\ \A i \in M \ Elements(ids) : ds[i] = cs[i]
    <3>1. PlacesEach(M, cs, ids, "y", gap)
        BY <1>0, <1>4, PlaceOfEach
    <3> QED BY <3>1 DEF PlacesEach
  <2> HIDE DEF ds, line
  <2>4. Len(line) \in Nat /\ Len(line) >= 1 /\ 1 \in 1..Len(line)
        /\ \A k \in 1..Len(line) : line[k] \in M
      BY <1>4, <2>2, LenProperties, ElementOfSeq
  <2>5. /\ at[0] = cs[line[1]].y
        /\ \A k \in 1..Len(line) : at[k] = at[k - 1] + cs[line[k]].h + gap
        /\ \A k \in 0..Len(line) : at[k] \in Int
        /\ \A j, k \in 0..Len(line) : j < k => at[j] < at[k]
    <3>1. /\ at[0] = cs[line[1]]["y"]
          /\ \A k \in 1..Len(line) :
                 at[k] = at[k - 1] + (IF "y" = "x" THEN cs[line[k]].w ELSE cs[line[k]].h) + gap
          /\ \A k \in 0..Len(line) : at[k] \in Int
          /\ \A j, k \in 0..Len(line) : j < k => at[j] < at[k]
        BY <1>0, <2>1, <2>2, <2>4, OffsetProperties
    <3> HIDE DEF at
    <3> QED BY <3>1
  <2> HIDE DEF at
  <2>6. at[0] \in Nat
    <3>1. cs[line[1]].y >= 0
        BY <2>1, <2>4 DEF InGrid
    <3> QED BY <2>4, <2>5, <3>1
  <2>7. \A k \in 0..Len(line) : at[k] \in Nat
    <3> SUFFICES ASSUME NEW k \in 0..Len(line) PROVE at[k] >= 0
        BY <2>5
    <3>1. 0 \in 0..Len(line) /\ (k = 0 \/ 0 < k)
        BY <2>4
    <3>2. at[0] < at[k] \/ k = 0
        BY <2>5, <3>1
    <3> QED BY <2>5, <2>6, <3>1, <3>2
  <2>8. ASSUME NEW k \in 1..Len(line)
        PROVE  /\ ds[line[k]].y = at[k - 1] /\ ds[line[k]].h = cs[line[k]].h
               /\ at[k - 1] \in Nat /\ ds[line[k]] = [cs[line[k]] EXCEPT !.y = at[k - 1]]
    <3>1. k - 1 \in 0..Len(line) /\ cs[line[k]] \in InGridContainer
        BY <2>4
    <3>2. at[k - 1] \in Nat
        BY <2>7, <3>1
    <3> QED BY <2>3, <3>1, <3>2, AlignedDown
  <2>9. again = line
    <3> DEFINE f == Along(ds, "y")
    <3>1. ds \in [M -> Container]
        BY <1>1, OnGrid
    <3>2. f \in [M -> Int] /\ \A i \in M : f[i] = ds[i]["y"]
        BY <1>0, <3>1, AlongTyped
    <3>3. /\ again \in Seq(M) /\ Len(again) = Len(ids) /\ Elements(again) = Elements(ids)
          /\ Differ(again) /\ Ascends(f, again)
        BY <1>0, <3>1, LineProperties
    <3> HIDE DEF f, again
    <3>4. \A k \in 1..Len(line) : f[line[k]] = at[k - 1]
        BY <2>4, <2>8, <3>2
    <3>5. \A j, k \in 1..Len(line) : j < k => f[line[j]] < f[line[k]]
      <4>1. \A k \in 1..Len(line) : k - 1 \in 0..Len(line)
          BY <2>4
      <4>2. \A j, k \in 1..Len(line) : j < k => j - 1 < k - 1
          BY <2>4
      <4> QED BY <2>5, <3>4, <4>1, <4>2
    <3> QED BY <2>2, <3>2, <3>3, <3>5, StrictLineIsUnique
  <2>10. \A k \in 0..Len(line) : atAgain[k] = at[k]
    <3> DEFINE b == Offset(ds, line, "y", gap)
    <3>1. ds \in [M -> Container] /\ \A i \in M : InGrid(ds[i])
        BY <1>1, OnGrid
    <3>2. /\ b[0] = ds[line[1]]["y"]
          /\ \A k \in 1..Len(line) :
                 b[k] = b[k - 1] + (IF "y" = "x" THEN ds[line[k]].w ELSE ds[line[k]].h) + gap
          /\ \A k \in 0..Len(line) : b[k] \in Int
          /\ \A j, k \in 0..Len(line) : j < k => b[j] < b[k]
        BY <1>0, <2>2, <2>4, <3>1, OffsetProperties
    <3> HIDE DEF b
    <3>3. b[0] = at[0]
      <4>1. ds[line[1]].y = at[1 - 1]
          BY <2>4, <2>8
      <4> QED BY <3>2, <4>1
    <3>4. \A k \in 1..Len(line) : b[k] = b[k - 1] + cs[line[k]].h + gap
        BY <2>8, <3>2
    <3> DEFINE P == {k \in Nat : k <= Len(line) => b[k] = at[k]}
    <3>5. 0 \in P
        BY <3>3
    <3>6. ASSUME NEW k \in Nat, k \in P PROVE k + 1 \in P
      <4> SUFFICES ASSUME k + 1 <= Len(line) PROVE b[k + 1] = at[k + 1]
          OBVIOUS
      <4>1. k + 1 \in 1..Len(line) /\ (k + 1) - 1 = k /\ b[k] = at[k]
          BY <2>4, <3>6
      <4> QED BY <2>5, <3>4, <4>1
    <3>7. Nat \subseteq P
      <4> HIDE DEF P
      <4> QED BY <3>5, <3>6, NatInduces
    <3>8. \A k \in 0..Len(line) : b[k] = at[k]
        BY <2>4, <3>7
    <3> HIDE DEF again
    <3> QED BY <2>9, <3>8 DEF b
  <2>11. /\ \A k \in 1..Len(again) : es[again[k]] = Aligned(ds[again[k]], "y", atAgain[k - 1])
         /\ \A i \in M \ Elements(ids) : es[i] = ds[i]
    <3>1. PlacesEach(M, ds, ids, "y", gap)
        BY <1>0, <1>1, <1>4, PlaceOfEach
    <3> QED BY <3>1 DEF PlacesEach
  <2> HIDE DEF again, atAgain, es
  <2>12. ASSUME NEW k \in 1..Len(line) PROVE es[line[k]] = ds[line[k]]
    <3>1. k - 1 \in 0..Len(line)
        BY <2>4
    <3>2. es[line[k]] = Aligned(ds[line[k]], "y", at[k - 1])
        BY <2>9, <2>10, <2>11, <3>1
    <3>3. ds[line[k]] \in InGridContainer /\ at[k - 1] \in Nat /\ ds[line[k]].y = at[k - 1]
        BY <1>1, <2>4, <2>8
    <3>4. Aligned(ds[line[k]], "y", at[k - 1]) = [ds[line[k]] EXCEPT !.y = at[k - 1]]
        BY <3>3, AlignedDown
    <3>5. \A c \in Container : [c EXCEPT !.y = c.y] = c
        BY DEF Container
    <3>6. ds[line[k]] \in Container
        BY <3>3, OnGrid
    <3> QED BY <3>2, <3>3, <3>4, <3>5, <3>6
  <2>13. \A i \in M : es[i] = ds[i]
      BY <2>3, <2>11, <2>12
  <2>14. es = ds
      BY <1>1, <1>2, <2>13
  <2> QED BY <2>14 DEF es, ds
<1> QED BY <1>3, <1>4

\* A restack leaves its instance where a second one would put it.
LEMMA WithoutPrepend ==
    ASSUME NEW S, NEW s \in Seq(S), NEW x \in S
    PROVE  Without(<<x>> \o s, {x}) = Without(s, {x})
<1> DEFINE P == {t \in Seq(S) : Without(<<x>> \o t, {x}) = Without(t, {x})}
<1>0. <<x>> \in Seq(S)
    OBVIOUS
<1>1. <<>> \in P
  <2>1. <<x>> \o <<>> = Append(<<>>, x) /\ <<>> \in Seq(S)
      OBVIOUS
  <2>2. Without(Append(<<>>, x), {x}) = Without(<<>>, {x})
      BY <2>1, WithoutAppend
  <2> QED BY <2>1, <2>2
<1>2. ASSUME NEW t \in Seq(S), NEW y \in S, t \in P
      PROVE  Append(t, y) \in P
  <2>1. <<x>> \o t \in Seq(S) /\ Append(t, y) \in Seq(S)
      BY <1>0, ConcatProperties, AppendProperties
  <2>2. <<x>> \o Append(t, y) = Append(<<x>> \o t, y)
    <3>1. <<y>> \in Seq(S)
        OBVIOUS
    <3>2. Append(t, y) = t \o <<y>> /\ Append(<<x>> \o t, y) = (<<x>> \o t) \o <<y>>
        BY <2>1, AppendIsConcat
    <3>3. (<<x>> \o t) \o <<y>> = <<x>> \o (t \o <<y>>)
        BY <1>0, <3>1, ConcatAssociative
    <3> QED BY <3>2, <3>3
  <2>3. Without(<<x>> \o t, {x}) = Without(t, {x})
      BY <1>2
  <2>4. Without(Append(<<x>> \o t, y), {x}) = IF y \in {x} THEN Without(<<x>> \o t, {x})
                                              ELSE Append(Without(<<x>> \o t, {x}), y)
      BY <2>1, WithoutAppend
  <2>5. Without(Append(t, y), {x}) = IF y \in {x} THEN Without(t, {x})
                                     ELSE Append(Without(t, {x}), y)
      BY WithoutAppend
  <2> QED BY <2>1, <2>2, <2>3, <2>4, <2>5
<1>3. Seq(S) \subseteq P
  <2> HIDE DEF P
  <2> QED BY <1>1, <1>2, SeqInduces
<1> QED BY <1>3

LEMMA RestackedAgain ==
    ASSUME NEW S, NEW s \in Seq(S), NEW i \in S
    PROVE  LET others == Without(s, {i})
           IN /\ Without(Append(others, i), {i}) = others
              /\ Without(<<i>> \o others, {i}) = others
<1> DEFINE others == Without(s, {i})
<1>1. others \in Seq(S) /\ Elements(others) = Elements(s) \ {i}
    BY WithoutElements
<1> HIDE DEF others
<1>2. Without(others, {i}) = others
    BY <1>1, WithoutNothing
<1>3. Without(Append(others, i), {i}) = Without(others, {i})
    BY <1>1, WithoutAppend
<1>4. Without(<<i>> \o others, {i}) = Without(others, {i})
    BY <1>1, WithoutPrepend
<1> QED BY <1>2, <1>3, <1>4 DEF others

\* On a tidy layout, every operation that neither shifts nor swaps undoes nothing
\* of itself.
LEMMA ApplyAgain ==
    ASSUME NEW l \in TidyLayouts(Mounted), NEW all \in Seq(Mounted), Differ(all),
           NEW op \in Restack \cup Place \cup Align \cup Snap
                          \cup {d \in Distribute : d.axis = "y"},
           op.op = "snap" => GridWidth % op.stepX = 0
    PROVE  LET once == Apply(l, op, all)
           IN /\ Apply(once, op, all) = once
              /\ op \notin Restack => once.order = l.order
              /\ op \in Restack => \A any : Apply(once, op, any) = once
<1>1. /\ l.container \in [Mounted -> InGridContainer] /\ l.order \in Seq(Mounted)
      /\ \A cs : [l EXCEPT !.container = cs] = [container |-> cs, order |-> l.order]
      /\ \A s : [l EXCEPT !.order = s] = [container |-> l.container, order |-> s]
    BY TidyParts, TidyExcept
<1>2. CASE op \in Restack
  <2>1. op.op \in {"bring-to-front", "send-to-back"} /\ op.ids \in One
      BY <1>2 DEF Restack
  <2> DEFINE i == op.ids[1]
             others == Without(l.order, {i})
             front == Append(others, i)
             back == <<i>> \o others
  <2>2. i \in Mounted
      BY <2>1, NamedIsMounted
  <2> HIDE DEF i
  <2>3. Without(front, {i}) = others /\ Without(back, {i}) = others
      BY <1>1, <2>2, RestackedAgain
  <2>4. CASE op.op = "bring-to-front"
    <3>1. \A x, any : Apply(x, op, any) = [x EXCEPT !.order = Append(Without(x.order, {i}), i)]
        BY <2>4 DEF Apply, i
    <3>2. \A any : Apply(l, op, any) = [container |-> l.container, order |-> front]
        BY <1>1, <3>1
    <3> DEFINE once == [container |-> l.container, order |-> front]
    <3>3. once.order = front /\ \A s : [once EXCEPT !.order = s] = [container |-> l.container, order |-> s]
        OBVIOUS
    <3>4. \A any : Apply(once, op, any) = [once EXCEPT !.order = Append(Without(once.order, {i}), i)]
        BY <3>1
    <3> HIDE DEF once, others
    <3>5. \A any : Apply(once, op, any) = [container |-> l.container, order |-> front]
        BY <2>3, <3>3, <3>4
    <3> QED BY <1>2, <3>2, <3>5 DEF once
  <2>5. CASE op.op = "send-to-back"
    <3>1. \A x, any : Apply(x, op, any) = [x EXCEPT !.order = <<i>> \o Without(x.order, {i})]
        BY <2>5 DEF Apply, i
    <3>2. \A any : Apply(l, op, any) = [container |-> l.container, order |-> back]
        BY <1>1, <3>1
    <3> DEFINE once == [container |-> l.container, order |-> back]
    <3>3. once.order = back /\ \A s : [once EXCEPT !.order = s] = [container |-> l.container, order |-> s]
        OBVIOUS
    <3>4. \A any : Apply(once, op, any) = [once EXCEPT !.order = <<i>> \o Without(once.order, {i})]
        BY <3>1
    <3> HIDE DEF once, others
    <3>5. \A any : Apply(once, op, any) = [container |-> l.container, order |-> back]
        BY <2>3, <3>3, <3>4
    <3> QED BY <1>2, <3>2, <3>5 DEF once
  <2> QED BY <2>1, <2>4, <2>5
<1>4. CASE op \in Place \cup Align \cup Snap
  <2> DEFINE ids == Targets(op.ids, all)
             cs == ChangedEach(l.container, ids, op)
  <2>1. op.op \in {"set", "align", "snap"} /\ op \in EachOp /\ op \notin Restack
      BY <1>4 DEF Place, Align, Snap, EachOp, Restack
  <2>2. \A x : Apply(x, op, all) = [x EXCEPT !.container = ChangedEach(x.container, ids, op)]
      BY <2>1 DEF Apply
  <2>3. \A i \in Mounted : Changed(Changed(l.container[i], op), op) = Changed(l.container[i], op)
      BY <1>1, <1>4, ChangedAgain
  <2> HIDE DEF ids
  <2>4. ChangedEach(cs, ids, op) = cs
    <3>1. cs = [i \in Mounted |-> IF i \in Elements(ids) THEN Changed(l.container[i], op)
                                  ELSE l.container[i]]
        BY <1>1 DEF ChangedEach
    <3>2. ChangedEach(cs, ids, op)
              = [i \in Mounted |-> IF i \in Elements(ids) THEN Changed(cs[i], op) ELSE cs[i]]
      <4>1. DOMAIN cs = Mounted
          BY <3>1
      <4> HIDE DEF cs
      <4> QED BY <4>1 DEF ChangedEach
    <3>3. \A i \in Mounted : (IF i \in Elements(ids) THEN Changed(cs[i], op) ELSE cs[i]) = cs[i]
      <4> HIDE DEF cs
      <4> QED BY <2>3, <3>1
    <3>4. cs = [i \in Mounted |-> cs[i]]
        BY <3>1
    <3> HIDE DEF cs
    <3> QED BY <3>2, <3>3, <3>4
  <2> HIDE DEF cs
  <2> DEFINE once == [container |-> cs, order |-> l.order]
  <2>5. Apply(l, op, all) = once
      BY <1>1, <2>2 DEF cs
  <2>6. Apply(once, op, all) = [once EXCEPT !.container = ChangedEach(cs, ids, op)]
      BY <2>2
  <2>7. Apply(once, op, all) = once
      BY <2>4, <2>6
  <2> QED BY <2>1, <2>5, <2>7
<1>5. CASE op \in {d \in Distribute : d.axis = "y"}
  <2> DEFINE ids == Targets(op.ids, all)
             cs == Distributed(l.container, ids, "y", op.gap)
  <2>1. /\ op.op = "distribute" /\ op.axis = "y" /\ op \notin Restack
        /\ op.ids \in Listed /\ op.gap \in Nat
      BY <1>5, GridAssumption DEF Distribute, Restack
  <2>2. \A x : Apply(x, op, all)
                   = [x EXCEPT !.container = Distributed(x.container, ids, "y", op.gap)]
      BY <2>1 DEF Apply
  <2>3. ids \in Seq(Mounted) /\ Differ(ids)
      BY <2>1, TargetsDiffer
  <2> HIDE DEF ids
  <2>4. Distributed(cs, ids, "y", op.gap) = cs
      BY <1>1, <2>1, <2>3, DistributedAgain
  <2> HIDE DEF cs
  <2> DEFINE once == [container |-> cs, order |-> l.order]
  <2>5. Apply(l, op, all) = once
      BY <1>1, <2>2 DEF cs
  <2>6. Apply(once, op, all) = [once EXCEPT !.container = Distributed(cs, ids, "y", op.gap)]
      BY <2>2
  <2>7. Apply(once, op, all) = once
      BY <2>4, <2>6
  <2> QED BY <2>1, <2>5, <2>7
<1> QED BY <1>2, <1>4, <1>5

\* Sending such an operation again changes nothing, in every room: "distribute"
\* down the y axis, "snap" with horizontal steps that divide the width.
THEOREM RepeatsChangeNothing == GridSpec => []RepeatChangesNothing
<1>1. GridTypeOK => RepeatChangesNothing
  <2> DEFINE Repeatable == Restack \cup Place \cup Align \cup Snap
                               \cup {d \in Distribute : d.axis = "y"}
  <2> SUFFICES ASSUME GridTypeOK, NEW op \in Repeatable,
                      op.op = "snap" => GridWidth % op.stepX = 0
               PROVE  LET once == Updated(Layout, <<op>>)
                      IN Updated(once, <<op>>) = once
      BY DEF RepeatChangesNothing
  <2> DEFINE once == Updated(Layout, <<op>>)
             tidy == [container |-> Prepared(Layout.container), order |-> Layout.order]
             all == Layout.order
  <2>1. op \in Op
      BY DEF Op
  <2>2. Layout \in Mountings(Mounted) /\ all \in Seq(Mounted) /\ Differ(all)
      BY LayoutIsMounting, PreparedTidies
  <2>3. /\ tidy \in TidyLayouts(Mounted) /\ once = Apply(tidy, op, all)
        /\ once \in TidyLayouts(Mounted)
      BY <2>1, <2>2, UpdatedByOne
  <2>4. tidy.order = all
      OBVIOUS
  <2> HIDE DEF once, tidy, all
  <2>5. /\ Apply(once, op, all) = once
        /\ op \notin Restack => once.order = all
        /\ op \in Restack => \A any : Apply(once, op, any) = once
      BY <2>2, <2>3, <2>4, ApplyAgain
  <2>6. Updated(once, <<op>>) = Apply(once, op, once.order)
    <3>1. once \in Mountings(Mounted)
          /\ [container |-> Prepared(once.container), order |-> once.order] = once
        BY <2>3, TidyIsPrepared
    <3> QED BY <2>1, <3>1, UpdatedByOne
  <2>7. Updated(once, <<op>>) = once
      BY <2>5, <2>6
  <2> QED BY <2>7 DEF once
<1> QED BY <1>1, GridTypes, PTL
=============================================================================
