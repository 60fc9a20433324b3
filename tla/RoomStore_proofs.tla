-------------------------- MODULE RoomStore_proofs --------------------------
(* Theorems about one room, for any number of instances, servers, requests *)
(* in flight and calls, and for any size of its windows and histories.     *)
EXTENDS RoomStore, Lists_proofs, FiniteSetTheorems

-----------------------------------------------------------------------------
(* The room's feed implements the abstract event window.                   *)

LEMMA CommitPublishes == Commit => Feed!Publish
BY DEF Commit, Feed!Publish, Newest, Feed!Newest

\* No handler touches revision or events except through commit().
LEMMA FeedStep == [Next]_vars => [Feed!Publish]_(Feed!windowVars)
<1> SUFFICES ASSUME [Next]_vars
             PROVE  Feed!Publish \/ UNCHANGED <<revision, events>>
    BY DEF Feed!windowVars
<1> USE CommitPublishes DEF feedVars
<1>1. CASE \E r \in Request : Progress(r)
    BY <1>1 DEF Progress, MountInspected, MountApplied, MountFailed, UnmountReleased,
                CallSent, CallAborted, CallSettled
<1>2. CASE \E r \in Request, i \in Instance, s \in Server : MountBegin(r, i, s)
    BY <1>2 DEF MountBegin
<1>3. CASE \E r \in Request, i \in Instance : UnmountBegin(r, i) \/ CallBegin(r, i)
    BY <1>3 DEF UnmountBegin, CallBegin
<1>4. CASE \E i \in Instance : UnmountShared(i) \/ ReportInstanceEvidence(i) \/ Passthrough(i)
    BY <1>4 DEF UnmountShared, ReportInstanceEvidence, Passthrough
<1>5. CASE \E i \in Instance, visible \in BOOLEAN : HandleVisibility(i, visible)
    BY <1>5 DEF HandleVisibility
<1>6. CASE \E i \in Instance \cup {None} : HandleSelect(i)
    BY <1>6 DEF HandleSelect, vars
<1>7. CASE \E newOrder \in Arrangements : HandleReorder(newOrder)
    BY <1>7 DEF HandleReorder
<1>8. CASE \E newOrder \in Restackings, place \in [Mounted -> Cell] :
               HandleLayout(newOrder, place)
    BY <1>8 DEF HandleLayout
<1>9. CASE \E s \in Server : ConnectSettles(s)
    BY <1>9 DEF ConnectSettles
<1>10. CASE UNCHANGED vars
    BY <1>10 DEF vars
<1> QED BY <1>1, <1>2, <1>3, <1>4, <1>5, <1>6, <1>7, <1>8, <1>9, <1>10 DEF Next

\* Every room is an event window: one revision per commit, each published.
THEOREM FeedIsImplemented == Spec => FeedSpec
<1>1. Init => Feed!WindowInit
    BY DEF Init, Feed!WindowInit
<1> QED BY <1>1, FeedStep, PTL DEF Spec, FeedSpec, Feed!WindowSpec

-----------------------------------------------------------------------------
(* Types.                                                                  *)

LEMMA NullTypes ==
    /\ Idle \in Handler /\ Idle.phase = "idle"
    /\ NotMounted \notin Mount /\ NotMounted.server = None
    /\ \A m \in Mount : m.server \in Server /\ m # NotMounted
    /\ None \notin Server /\ None \notin Instance
<1>1. None \notin Instance \cup Server
    BY StoreAssumption
<1>2. Idle \in Handler /\ Idle.phase = "idle"
    BY DEF Idle, Handler, Phase, Wait
<1>3. NotMounted.server = None /\ \A m \in Mount : m.server \in Server
    BY DEF NotMounted, Mount
<1> QED BY <1>1, <1>2, <1>3

\* A mounted instance has a server.
LEMMA MountedServer ==
    ASSUME RoomTypes, NEW i \in Instance
    PROVE  /\ i \in Mounted <=> mounts[i] \in Mount
           /\ i \in Mounted => mounts[i].server \in Server
           /\ i \notin Mounted => mounts[i].server = None
BY NullTypes DEF RoomTypes, Mounted

\* Requests that lose their connection keep everything else they remember.
LEMMA DetachedRequests ==
    ASSUME NEW handlers \in [Request -> Handler], NEW s, NEW outcome \in Wait
    PROVE  /\ Detached(handlers, s, outcome) \in [Request -> Handler]
           /\ \A q \in Request :
                 LET d == Detached(handlers, s, outcome)[q] IN
                 /\ d.phase = handlers[q].phase /\ d.inst = handlers[q].inst
                 /\ d.server = handlers[q].server /\ d.had = handlers[q].had
                 /\ d.call = handlers[q].call
BY DEF Detached, Handler

\* The helpers keep the parts of the room they write within their types.
LEMMA HelperTypes ==
    ASSUME RoomTypes
    PROVE  /\ \A s \in Server : WithSession(s) \in [Server -> {"none", "connecting", "open"}]
           /\ \A s \in Server : ForgetServer(s) =>
                 /\ sessions' \subseteq Server /\ configured' \subseteq Server
                 /\ conn' \in [Server -> {"none", "connecting", "open"}]
           /\ \A i \in Instance : RemoveInstance(i) =>
                 mounts' \in [Instance -> Mount \cup {NotMounted}]
           /\ \A i \in Instance : Deselect(i) => selected' \in Instance \cup {None}
           /\ \A i \in Instance : DropInvocations(i) =>
                 /\ invocations' \in [CallId -> Invocation \cup {NoInvocation}]
                 /\ invocationCounter' = invocationCounter
BY DEF RoomTypes, WithSession, ForgetServer, RemoveInstance, Deselect, DropInvocations

HandlersTyped ==
    /\ req \in [Request -> Handler]
    /\ \A q \in Request :
           req[q].phase # "idle" => req[q].inst \in Instance /\ req[q].server \in Server

LEMMA RequestIdles ==
    ASSUME HandlersTyped, NEW r \in Request, req' = [req EXCEPT ![r] = Idle]
    PROVE  HandlersTyped'
BY NullTypes DEF HandlersTyped

\* A step of the suspended handler r keeps the types.
LEMMA ProgressTypes ==
    ASSUME RoomTypes, NEW r \in Request, Progress(r)
    PROVE  RoomTypes'
<1> USE HelperTypes, NullTypes
<1> DEFINE i == req[r].inst
           s == req[r].server
<1>0. req[r].phase # "idle" => i \in Instance /\ s \in Server
    BY DEF RoomTypes
<1>a. HandlersTyped
    BY DEF RoomTypes, HandlersTyped
<1>1. CASE MountInspected(r)
  <2>1. conn' \in [Server -> {"none", "connecting", "open"}]
      BY <1>1, <1>0 DEF MountInspected
  <2>2. HandlersTyped'
      BY <1>1, <1>a DEF MountInspected, HandlersTyped, Handler, Phase, Wait
  <2> QED BY <1>1, <2>1, <2>2 DEF MountInspected, RoomTypes, HandlersTyped, roomVars, historyVars
<1>2. CASE MountApplied(r)
  <2>1. i \in Instance /\ s \in Server
      BY <1>2, <1>0 DEF MountApplied
  <2>2. mounts' \in [Instance -> Mount \cup {NotMounted}]
      BY <1>2, <2>1 DEF MountApplied, RoomTypes, Mount
  <2>3. HandlersTyped'
      BY <1>2, <1>a, RequestIdles DEF MountApplied
  <2> QED BY <1>2, <2>1, <2>2, <2>3 DEF MountApplied, RoomTypes, HandlersTyped, historyVars
<1>3. CASE MountFailed(r)
  <2>1. s \in Server
      BY <1>3, <1>0 DEF MountFailed
  <2> DEFINE left == [req EXCEPT ![r] = Idle]
  <2>2. left \in [Request -> Handler]
        /\ \A q \in Request : left[q].phase # "idle" =>
                 left[q].inst \in Instance /\ left[q].server \in Server
      BY <1>a DEF HandlersTyped
  <2>3. HandlersTyped'
    <3>1. CASE req' = left
        BY <3>1, <2>2 DEF HandlersTyped
    <3>2. CASE req' = Detached(left, s, "dropped")
        <4> HIDE DEF left
        <4>1. "dropped" \in Wait
            BY DEF Wait
        <4> QED BY <3>2, <2>2, <4>1, DetachedRequests DEF HandlersTyped
    <3> QED BY <3>1, <3>2, <1>3 DEF MountFailed
  <2>4. /\ sessions' \subseteq Server /\ configured' \subseteq Server
        /\ conn' \in [Server -> {"none", "connecting", "open"}]
      BY <1>3, <2>1 DEF MountFailed, RoomTypes, sessionVars
  <2> QED BY <1>3, <2>3, <2>4 DEF MountFailed, RoomTypes, HandlersTyped, roomVars, historyVars
<1>4. CASE UnmountReleased(r)
  <2>1. i \in Instance
      BY <1>4, <1>0 DEF UnmountReleased
  <2>2. HandlersTyped'
      BY <1>4, <1>a, RequestIdles DEF UnmountReleased
  <2> QED BY <1>4, <2>1, <2>2 DEF UnmountReleased, RoomTypes, HandlersTyped, sessionVars
<1>5. CASE CallSent(r)
  <2>1. i \in Instance
      BY <1>5, <1>0 DEF CallSent
  <2>2. invocations' \in [CallId -> Invocation \cup {NoInvocation}]
      BY <1>5, <2>1 DEF CallSent, RoomTypes, Invocation
  <2>3. HandlersTyped'
    <3>1. /\ req[r].phase = "connecting" /\ invocationCounter \in Nat
          /\ req' = [req EXCEPT ![r].phase = "sent", ![r].call = invocationCounter,
                                ![r].wait = "none"]
        BY <1>5 DEF CallSent, RoomTypes
    <3> QED BY <3>1, <1>a DEF HandlersTyped, Handler, Phase, Wait
  <2>4. invocationCounter' \in Nat \ {0}
      BY <1>5 DEF CallSent, RoomTypes
  <2> QED BY <1>5, <2>2, <2>3, <2>4 DEF CallSent, RoomTypes, HandlersTyped, roomVars, sessionVars
<1>6. CASE CallAborted(r)
  <2>1. HandlersTyped'
      BY <1>6, <1>a, RequestIdles DEF CallAborted
  <2> QED BY <1>6, <2>1 DEF CallAborted, RoomTypes, HandlersTyped, roomVars, historyVars, sessionVars
<1>7. ASSUME NEW status \in {"completed", "failed"}, CallSettled(r, status)
      PROVE  RoomTypes'
  <2>1. HandlersTyped'
      BY <1>7, <1>a, RequestIdles DEF CallSettled
  <2>2. /\ invocations' \in [CallId -> Invocation \cup {NoInvocation}]
        /\ invocationCounter' = invocationCounter
      BY <1>7 DEF CallSettled, Settle, RoomTypes, Invocation, historyVars
  <2> QED BY <1>7, <2>1, <2>2 DEF CallSettled, RoomTypes, HandlersTyped, roomVars, sessionVars
<1> QED BY <1>1, <1>2, <1>3, <1>4, <1>5, <1>6, <1>7 DEF Progress

\* A new request keeps the types.
LEMMA BeginTypes ==
    ASSUME RoomTypes, NEW r \in Request, NEW i \in Instance,
           \/ \E s \in Server : MountBegin(r, i, s)
           \/ UnmountBegin(r, i)
           \/ CallBegin(r, i)
    PROVE  RoomTypes'
<1> USE HelperTypes, NullTypes
<1>a. HandlersTyped
    BY DEF RoomTypes, HandlersTyped
<1>1. ASSUME NEW s \in Server, MountBegin(r, i, s)
      PROVE  RoomTypes'
  <2>1. HandlersTyped'
      BY <1>1, <1>a DEF MountBegin, HandlersTyped, Handler, Phase, Wait
  <2>2. conn' \in [Server -> {"none", "connecting", "open"}]
      BY <1>1 DEF MountBegin
  <2>3. configured' \subseteq Server
      BY <1>1 DEF MountBegin, RoomTypes
  <2> QED BY <1>1, <2>1, <2>2, <2>3 DEF MountBegin, RoomTypes, HandlersTyped, roomVars, historyVars
<1>2. CASE UnmountBegin(r, i)
  <2> DEFINE s == mounts[i].server
             left == [req EXCEPT ![r] = [Idle EXCEPT !.phase = "releasing",
                                                     !.inst = i, !.server = s]]
  <2>1. s \in Server
      BY <1>2, MountedServer DEF UnmountBegin
  <2>2. left \in [Request -> Handler]
        /\ \A q \in Request : left[q].phase # "idle" =>
                 left[q].inst \in Instance /\ left[q].server \in Server
      BY <1>a, <2>1 DEF HandlersTyped, Handler, Phase, Idle, Wait
  <2>3. req' = Detached(left, s, "dropped") /\ "dropped" \in Wait
      BY <1>2 DEF UnmountBegin, Wait
  <2>4. HandlersTyped'
    <3> HIDE DEF left, s
    <3> QED BY <2>2, <2>3, DetachedRequests DEF HandlersTyped
  <2>5. mounts' \in [Instance -> Mount \cup {NotMounted}]
      BY <1>2 DEF UnmountBegin
  <2>6. /\ sessions' \subseteq Server /\ configured' \subseteq Server
        /\ conn' \in [Server -> {"none", "connecting", "open"}]
      BY <1>2, <2>1 DEF UnmountBegin
  <2> QED BY <1>2, <2>4, <2>5, <2>6 DEF UnmountBegin, RoomTypes, HandlersTyped, historyVars
<1>3. CASE CallBegin(r, i)
  <2>1. mounts[i].server \in Server
      BY <1>3, MountedServer DEF CallBegin
  <2>2. HandlersTyped'
      BY <1>3, <1>a, <2>1 DEF CallBegin, HandlersTyped, Handler, Phase, Wait, Idle
  <2>3. conn' \in [Server -> {"none", "connecting", "open"}]
      BY <1>3, <2>1 DEF CallBegin
  <2> QED BY <1>3, <2>2, <2>3 DEF CallBegin, RoomTypes, HandlersTyped, roomVars, historyVars
<1> QED BY <1>1, <1>2, <1>3

\* A command without an await keeps the types.
LEMMA CommandTypes ==
    ASSUME RoomTypes,
           \/ \E i \in Instance : UnmountShared(i) \/ ReportInstanceEvidence(i)
           \/ \E i \in Instance, visible \in BOOLEAN : HandleVisibility(i, visible)
           \/ \E i \in Instance \cup {None} : HandleSelect(i)
           \/ \E newOrder \in Arrangements : HandleReorder(newOrder)
           \/ \E newOrder \in Restackings, place \in [Mounted -> Cell] :
                  HandleLayout(newOrder, place)
    PROVE  RoomTypes'
<1> USE HelperTypes, NullTypes DEF sessionVars, historyVars, roomVars
<1>1. ASSUME NEW i \in Instance, UnmountShared(i)
      PROVE  RoomTypes'
    BY <1>1 DEF UnmountShared, RoomTypes
<1>2. ASSUME NEW i \in Instance, ReportInstanceEvidence(i)
      PROVE  RoomTypes'
    BY <1>2 DEF ReportInstanceEvidence, RoomTypes
<1>3. ASSUME NEW i \in Instance, NEW visible \in BOOLEAN, HandleVisibility(i, visible)
      PROVE  RoomTypes'
  <2>1. mounts' \in [Instance -> Mount \cup {NotMounted}]
      BY <1>3, MountedServer DEF HandleVisibility, RoomTypes, Mount
  <2> QED BY <1>3, <2>1 DEF HandleVisibility, RoomTypes
<1>4. ASSUME NEW i \in Instance \cup {None}, HandleSelect(i)
      PROVE  RoomTypes'
    BY <1>4 DEF HandleSelect, RoomTypes, Mounted, vars
<1>5. ASSUME NEW newOrder \in Arrangements, HandleReorder(newOrder)
      PROVE  RoomTypes'
    BY <1>5 DEF HandleReorder, RoomTypes
<1>6. ASSUME NEW newOrder \in Restackings, NEW place \in [Mounted -> Cell],
             HandleLayout(newOrder, place)
      PROVE  RoomTypes'
  <2>1. mounts' \in [Instance -> Mount \cup {NotMounted}]
      BY <1>6, MountedServer DEF HandleLayout, RoomTypes, Mount
  <2> QED BY <1>6, <2>1 DEF HandleLayout, RoomTypes
<1> QED BY <1>1, <1>2, <1>3, <1>4, <1>5, <1>6

LEMMA ConnectionTypes ==
    ASSUME RoomTypes,
           \/ \E i \in Instance : Passthrough(i)
           \/ \E s \in Server : ConnectSettles(s)
    PROVE  RoomTypes'
<1> USE DEF historyVars, roomVars
<1>1. ASSUME NEW i \in Instance, Passthrough(i)
      PROVE  RoomTypes'
    BY <1>1, MountedServer, HelperTypes DEF Passthrough, RoomTypes
<1>2. ASSUME NEW s \in Server, ConnectSettles(s)
      PROVE  RoomTypes'
  <2>1. conn' \in [Server -> {"none", "connecting", "open"}]
      BY <1>2 DEF ConnectSettles, RoomTypes
  <2>2. HandlersTyped
      BY DEF RoomTypes, HandlersTyped
  <2>3. HandlersTyped'
    <3>1. CASE UNCHANGED req
        BY <3>1, <2>2 DEF HandlersTyped
    <3>2. CASE req' = Detached(req, s, "failed")
        <4>1. "failed" \in Wait
            BY DEF Wait
        <4> QED BY <3>2, <2>2, <4>1, DetachedRequests DEF HandlersTyped
    <3> QED BY <3>1, <3>2, <1>2 DEF ConnectSettles
  <2> QED BY <1>2, <2>1, <2>3 DEF ConnectSettles, RoomTypes, HandlersTyped
<1> QED BY <1>1, <1>2

LEMMA RoomTypesKept == RoomTypes /\ [Next]_vars => RoomTypes'
<1> SUFFICES ASSUME RoomTypes, [Next]_vars PROVE RoomTypes'
    OBVIOUS
<1>1. CASE UNCHANGED vars
    BY <1>1 DEF vars, roomVars, historyVars, sessionVars, RoomTypes
<1>2. CASE Next
    BY <1>2, ProgressTypes, BeginTypes, CommandTypes, ConnectionTypes DEF Next
<1> QED BY <1>1, <1>2

LEMMA InitRoomTypes == Init => RoomTypes
BY NullTypes DEF Init, RoomTypes

\* The room's maps, sessions and suspended handlers keep their types.
THEOREM RoomIsTyped == Spec => []RoomTypes
BY InitRoomTypes, RoomTypesKept, PTL DEF Spec

-----------------------------------------------------------------------------
(* Nothing shown is unpublished, and the selection is mounted.             *)

viewVars == <<roomVars, historyVars, evidenceVars>>
Releasing == {q \in Request : req[q].phase = "releasing"}

\* An unmount that waits for its session to close goes on waiting, for the
\* same instance, until it finishes itself.
LEMMA UnmountsGoOn ==
    ASSUME RoomTypes, [Next]_vars, NEW q \in Releasing, ~UnmountReleased(q)
    PROVE  q \in Releasing' /\ req'[q].inst = req[q].inst
<1>a. HandlersTyped
    BY DEF RoomTypes, HandlersTyped
<1> USE DEF Releasing
<1>1. CASE UNCHANGED req
    BY <1>1
<1>2. ASSUME NEW r \in Request \ {q}, \A p \in Request \ {r} : req'[p] = req[p]
      PROVE  q \in Releasing' /\ req'[q].inst = req[q].inst
    BY <1>2
<1>3. ASSUME NEW handlers \in [Request -> Handler], handlers[q] = req[q],
             NEW s, NEW outcome \in Wait, req' = Detached(handlers, s, outcome)
      PROVE  q \in Releasing' /\ req'[q].inst = req[q].inst
    BY <1>3, DetachedRequests
<1>4. ASSUME NEW r \in Request, Progress(r)
      PROVE  q \in Releasing' /\ req'[q].inst = req[q].inst
  <2>1. r # q
      BY <1>4 DEF Progress, MountInspected, MountApplied, MountFailed, CallSent,
                  CallAborted, CallSettled
  <2>2. CASE MountFailed(r)
    <3> DEFINE left == [req EXCEPT ![r] = Idle]
    <3>1. left \in [Request -> Handler] /\ left[q] = req[q] /\ "dropped" \in Wait
        BY <2>1, <1>a, NullTypes DEF HandlersTyped, Wait
    <3>2. req' = left \/ req' = Detached(left, req[r].server, "dropped")
        BY <2>2 DEF MountFailed
    <3> HIDE DEF left
    <3> QED BY <3>1, <3>2, <1>3
  <2>3. CASE ~MountFailed(r)
    <3>1. \A p \in Request \ {r} : req'[p] = req[p]
        BY <2>3, <1>4, <1>a DEF Progress, MountInspected, MountApplied, UnmountReleased,
                CallSent, CallAborted, CallSettled, HandlersTyped
    <3> QED BY <2>1, <3>1, <1>2
  <2> QED BY <2>2, <2>3
<1>5. ASSUME NEW r \in Request, NEW i \in Instance,
             (\E s \in Server : MountBegin(r, i, s)) \/ CallBegin(r, i)
      PROVE  q \in Releasing' /\ req'[q].inst = req[q].inst
  <2>1. r # q /\ \A p \in Request \ {r} : req'[p] = req[p]
      BY <1>5, <1>a DEF MountBegin, CallBegin, FreeSlot, HandlersTyped
  <2> QED BY <2>1, <1>2
<1>6. ASSUME NEW r \in Request, NEW i \in Instance, UnmountBegin(r, i)
      PROVE  q \in Releasing' /\ req'[q].inst = req[q].inst
  <2> DEFINE s == mounts[i].server
             left == [req EXCEPT ![r] = [Idle EXCEPT !.phase = "releasing",
                                                     !.inst = i, !.server = s]]
  <2>1. s \in Server /\ r # q
      BY <1>6, MountedServer DEF UnmountBegin, FreeSlot
  <2>2. left \in [Request -> Handler] /\ left[q] = req[q]
      BY <1>a, <2>1 DEF HandlersTyped, Handler, Phase, Idle, Wait
  <2>3. req' = Detached(left, s, "dropped") /\ "dropped" \in Wait
      BY <1>6 DEF UnmountBegin, Wait
  <2> HIDE DEF left, s
  <2> QED BY <2>2, <2>3, <1>3
<1>7. ASSUME NEW s \in Server, ConnectSettles(s)
      PROVE  q \in Releasing' /\ req'[q].inst = req[q].inst
  <2>1. UNCHANGED req \/ req' = Detached(req, s, "failed")
      BY <1>7 DEF ConnectSettles
  <2>2. "failed" \in Wait
      BY DEF Wait
  <2> QED BY <2>1, <2>2, <1>1, <1>3, <1>a DEF HandlersTyped
<1>8. ASSUME \/ \E i \in Instance :
                   UnmountShared(i) \/ ReportInstanceEvidence(i) \/ Passthrough(i)
             \/ \E i \in Instance, visible \in BOOLEAN : HandleVisibility(i, visible)
             \/ \E i \in Instance \cup {None} : HandleSelect(i)
             \/ \E newOrder \in Arrangements : HandleReorder(newOrder)
             \/ \E newOrder \in Restackings, place \in [Mounted -> Cell] :
                    HandleLayout(newOrder, place)
             \/ UNCHANGED vars
      PROVE  UNCHANGED req
    BY <1>8 DEF UnmountShared, ReportInstanceEvidence, Passthrough, HandleVisibility,
                HandleSelect, HandleReorder, HandleLayout, vars
<1> QED BY <1>1, <1>4, <1>5, <1>6, <1>7, <1>8 DEF Next

\* A step commits, or leaves what the room shows alone, or begins the unmount
\* that will commit later.
LEMMA EveryStepPublishes ==
    ASSUME RoomTypes, [Next]_vars
    PROVE  \/ Commit
           \/ UNCHANGED <<viewVars, published>>
           \/ Releasing' # {}
<1> USE DEF viewVars, feedVars
<1>1. ASSUME NEW r \in Request, Progress(r)
      PROVE  Commit \/ UNCHANGED <<viewVars, published>>
    BY <1>1 DEF Progress, MountInspected, MountApplied, MountFailed, UnmountReleased,
                CallSent, CallAborted, CallSettled
<1>2. ASSUME NEW r \in Request, NEW i \in Instance, UnmountBegin(r, i)
      PROVE  Releasing' # {}
  <2> DEFINE s == mounts[i].server
             left == [req EXCEPT ![r] = [Idle EXCEPT !.phase = "releasing",
                                                     !.inst = i, !.server = s]]
  <2>1. s \in Server /\ req \in [Request -> Handler]
      BY <1>2, MountedServer DEF UnmountBegin, RoomTypes
  <2>2. left \in [Request -> Handler] /\ left[r].phase = "releasing"
      BY <2>1 DEF Handler, Phase, Idle, Wait
  <2>3. req' = Detached(left, s, "dropped") /\ "dropped" \in Wait
      BY <1>2 DEF UnmountBegin, Wait
  <2> HIDE DEF left, s
  <2>4. r \in Releasing'
      BY <2>2, <2>3, DetachedRequests DEF Releasing
  <2> QED BY <2>4
<1>3. ASSUME \/ \E r \in Request, i \in Instance, s \in Server : MountBegin(r, i, s)
             \/ \E r \in Request, i \in Instance : CallBegin(r, i)
             \/ \E i \in Instance : Passthrough(i)
             \/ \E s \in Server : ConnectSettles(s)
             \/ UNCHANGED vars
      PROVE  UNCHANGED <<viewVars, published>>
    BY <1>3 DEF MountBegin, CallBegin, Passthrough, ConnectSettles, vars
<1>4. ASSUME \/ \E i \in Instance : UnmountShared(i) \/ ReportInstanceEvidence(i)
             \/ \E i \in Instance, visible \in BOOLEAN : HandleVisibility(i, visible)
             \/ \E i \in Instance \cup {None} : HandleSelect(i)
             \/ \E newOrder \in Arrangements : HandleReorder(newOrder)
             \/ \E newOrder \in Restackings, place \in [Mounted -> Cell] :
                    HandleLayout(newOrder, place)
      PROVE  Commit \/ UNCHANGED <<viewVars, published>>
    BY <1>4 DEF UnmountShared, ReportInstanceEvidence, HandleVisibility, HandleSelect,
                HandleReorder, HandleLayout, vars
<1> QED BY <1>1, <1>2, <1>3, <1>4 DEF Next

LEMMA PublishedKept ==
    ASSUME RoomTypes, StatePublished, [Next]_vars
    PROVE  StatePublished'
<1>1. CASE Commit
    BY <1>1 DEF Commit, StatePublished
<1>2. CASE ~Commit /\ UNCHANGED <<viewVars, published>>
  <2>1. View' = View /\ published' = published
      BY <1>2 DEF View, viewVars, roomVars, historyVars, evidenceVars
  <2>2. Releasing' = {} => Releasing = {}
      BY <1>2, UnmountsGoOn DEF UnmountReleased
  <2> QED BY <2>1, <2>2 DEF StatePublished, Releasing
<1>3. CASE Releasing' # {}
    BY <1>3 DEF StatePublished, Releasing
<1> QED BY <1>1, <1>2, <1>3, EveryStepPublishes

\* What GET /state shows has been published, whatever the handlers in flight.
THEOREM StateIsPublished == Spec => []StatePublished
<1>1. Init => StatePublished
    BY DEF Init, StatePublished
<1>2. RoomTypes /\ StatePublished /\ [Next]_vars => StatePublished'
    BY PublishedKept
<1> QED BY <1>1, <1>2, RoomIsTyped, PTL DEF Spec

\* A selection that is left alone stays valid if its instance stays mounted:
\* the unmount that will clear it either goes on or has just cleared it.
LEMMA SelectionLeftAlone ==
    ASSUME RoomTypes, SelectionValid, [Next]_vars, selected' = selected,
           selected \in Mounted => selected \in Mounted'
    PROVE  SelectionValid'
<1>1. CASE selected = None \/ selected \in Mounted
    BY <1>1 DEF SelectionValid
<1>2. ASSUME NEW q \in Releasing, req[q].inst = selected, selected # None
      PROVE  SelectionValid'
  <2>1. ~UnmountReleased(q)
      BY <1>2 DEF UnmountReleased, Deselect
  <2> QED BY <1>2, <2>1, UnmountsGoOn DEF SelectionValid, Releasing
<1> QED BY <1>1, <1>2 DEF SelectionValid, Releasing

LEMMA SelectionKept ==
    ASSUME RoomTypes, SelectionValid, [Next]_vars
    PROVE  SelectionValid'
<1>a. selected \in Instance \cup {None} /\ None \notin Instance
    BY NullTypes DEF RoomTypes
<1>1. ASSUME NEW r \in Request, Progress(r)
      PROVE  SelectionValid'
  <2>1. CASE MountApplied(r)
    <3>1. req[r].inst \in Instance /\ req[r].server \in Server
        BY <2>1 DEF MountApplied, RoomTypes
    <3>2. req[r].inst \in Mounted'
        BY <2>1, <3>1, NullTypes DEF MountApplied, RoomTypes, Mounted, NotMounted
    <3> QED BY <2>1, <3>2 DEF MountApplied, SelectionValid
  <2>2. CASE UnmountReleased(r)
      BY <2>2, SelectionLeftAlone DEF UnmountReleased, Deselect, Mounted, SelectionValid
  <2>3. CASE ~MountApplied(r) /\ ~UnmountReleased(r)
    <3>1. UNCHANGED roomVars
        BY <1>1, <2>3 DEF Progress, MountInspected, MountFailed, CallSent, CallAborted,
                          CallSettled
    <3> QED BY <3>1, SelectionLeftAlone DEF roomVars, Mounted
  <2> QED BY <2>1, <2>2, <2>3
<1>2. ASSUME NEW r \in Request, NEW i \in Instance, UnmountBegin(r, i)
      PROVE  SelectionValid'
  <2>1. CASE selected = i
    <3> DEFINE s == mounts[i].server
               left == [req EXCEPT ![r] = [Idle EXCEPT !.phase = "releasing",
                                                       !.inst = i, !.server = s]]
    <3>1. s \in Server /\ req \in [Request -> Handler]
        BY <1>2, MountedServer DEF UnmountBegin, RoomTypes
    <3>2. left \in [Request -> Handler] /\ left[r].phase = "releasing" /\ left[r].inst = i
        BY <3>1 DEF Handler, Phase, Idle, Wait
    <3>3. /\ req' = Detached(left, s, "dropped") /\ "dropped" \in Wait
          /\ selected' = selected
        BY <1>2 DEF UnmountBegin, Wait
    <3> HIDE DEF left, s
    <3>4. req'[r].phase = "releasing" /\ req'[r].inst = selected'
        BY <2>1, <3>2, <3>3, DetachedRequests
    <3> QED BY <3>4 DEF SelectionValid
  <2>2. CASE selected # i
    <3>1. selected' = selected /\ (selected \in Mounted => selected \in Mounted')
        BY <2>2, <1>2 DEF UnmountBegin, RemoveInstance, Mounted, RoomTypes
    <3> QED BY <1>2, <3>1, SelectionLeftAlone DEF UnmountBegin
  <2> QED BY <2>1, <2>2
<1>3. ASSUME NEW i \in Instance, UnmountShared(i)
      PROVE  SelectionValid'
  <2>1. CASE selected = i
      BY <1>3, <2>1 DEF UnmountShared, Deselect, SelectionValid
  <2>2. CASE selected # i
    <3>1. selected' = selected /\ (selected \in Mounted => selected \in Mounted')
        BY <2>2, <1>3 DEF UnmountShared, Deselect, RemoveInstance, Mounted, RoomTypes
    <3> QED BY <3>1, SelectionLeftAlone
  <2> QED BY <2>1, <2>2
<1>4. ASSUME NEW i \in Instance \cup {None}, HandleSelect(i)
      PROVE  SelectionValid'
  <2>1. CASE UNCHANGED vars
      BY <2>1, SelectionLeftAlone DEF vars, roomVars, Mounted
  <2>2. CASE selected' = i /\ UNCHANGED mounts
      BY <2>2, <1>4 DEF HandleSelect, SelectionValid, Mounted
  <2> QED BY <1>4, <2>1, <2>2 DEF HandleSelect
<1>5. ASSUME NEW i \in Instance, NEW visible \in BOOLEAN, HandleVisibility(i, visible)
      PROVE  SelectionValid'
  <2>1. selected' = selected /\ (selected \in Mounted => selected \in Mounted')
    <3>1. [mounts[i] EXCEPT !.visible = visible] \in Mount
        BY <1>5, MountedServer DEF HandleVisibility, Mount
    <3> QED BY <1>5, <3>1, NullTypes DEF HandleVisibility, Mounted, RoomTypes
  <2> QED BY <2>1, SelectionLeftAlone
<1>6. ASSUME NEW newOrder \in Restackings, NEW place \in [Mounted -> Cell],
             HandleLayout(newOrder, place)
      PROVE  SelectionValid'
  <2>1. selected' = selected /\ (selected \in Mounted => selected \in Mounted')
    <3>1. \A i \in Mounted : [mounts[i] EXCEPT !.container = place[i]] \in Mount
        BY MountedServer DEF Mount, Mounted
    <3> QED BY <1>6, <3>1, NullTypes DEF HandleLayout, Mounted
  <2> QED BY <2>1, SelectionLeftAlone
<1>7. ASSUME \/ \E r \in Request, i \in Instance, s \in Server : MountBegin(r, i, s)
             \/ \E r \in Request, i \in Instance : CallBegin(r, i)
             \/ \E i \in Instance : ReportInstanceEvidence(i) \/ Passthrough(i)
             \/ \E newOrder \in Arrangements : HandleReorder(newOrder)
             \/ \E s \in Server : ConnectSettles(s)
             \/ UNCHANGED vars
      PROVE  SelectionValid'
  <2>1. UNCHANGED <<mounts, selected>>
      BY <1>7 DEF MountBegin, CallBegin, ReportInstanceEvidence, Passthrough,
                  HandleReorder, ConnectSettles, vars, roomVars
  <2> QED BY <2>1, SelectionLeftAlone DEF Mounted
<1> QED BY <1>1, <1>2, <1>3, <1>4, <1>5, <1>6, <1>7 DEF Next

\* Nothing selected is unmounted, except what a waiting unmount will deselect.
THEOREM SelectionIsMounted == Spec => []SelectionValid
<1>1. Init => SelectionValid
    BY DEF Init, SelectionValid
<1>2. RoomTypes /\ SelectionValid /\ [Next]_vars => SelectionValid'
    BY SelectionKept
<1> QED BY <1>1, <1>2, RoomIsTyped, PTL DEF Spec

-----------------------------------------------------------------------------
(* The order array and the mounts map have the same instances.             *)

OrderInvariant == order \in Seq(Instance) /\ OrderCoversMounts

\* A list with as many entries as there are mounts, all mounted and none twice,
\* has every mount: handleReorder() checks no more than that.
LEMMA ArrangementsCover ==
    ASSUME OrderInvariant, NEW o \in Arrangements
    PROVE  o \in Seq(Instance) /\ Elements(o) = Mounted
<1> DEFINE n == Cardinality(Mounted)
           len == Len(order)
<1>1. IsFiniteSet(Mounted)
  <2>1. len \in Nat /\ order \in [1..len -> Mounted]
        /\ \A i \in Mounted : \E k \in 1..len : i = order[k]
      BY LenProperties, ElementsTyped DEF OrderInvariant, OrderCoversMounts
  <2>2. order \in Surjection(1..len, Mounted)
      BY <2>1 DEF Surjection
  <2>3. IsFiniteSet(1..len)
      BY <2>1, FS_Interval
  <2> QED BY <2>2, <2>3, FS_Surjection
<1>2. n \in Nat
    BY <1>1, FS_CardinalityType
<1> HIDE DEF n
<1>3. o \in [1..n -> Mounted] /\ \A j, k \in 1..n : o[j] = o[k] => j = k
    BY DEF Arrangements, n
<1>4. o \in Seq(Instance) /\ Len(o) = n
    BY <1>2, <1>3 DEF Mounted
<1>5. o \in Surjection(1..n, Mounted)
  <2>1. o \in Injection(1..n, Mounted)
      BY <1>3 DEF Injection, IsInjective
  <2>2. Cardinality(1..n) = n
      BY <1>2, FS_Interval
  <2> QED BY <1>1, <2>1, <2>2, FS_Injection DEF n
<1> QED BY <1>3, <1>4, <1>5 DEF Surjection, Elements

\* A restacked instance comes back at the end or at the start.
LEMMA RestackingsCover ==
    ASSUME OrderInvariant, NEW o \in Restackings
    PROVE  o \in Seq(Instance) /\ Elements(o) = Mounted
<1>1. order \in Seq(Instance) /\ Elements(order) = Mounted
    BY DEF OrderInvariant, OrderCoversMounts
<1>2. ASSUME NEW i \in Mounted
      PROVE  /\ i \in Instance /\ Others(i) \in Seq(Instance)
             /\ Elements(Others(i)) \cup {i} = Mounted
    BY <1>1, WithoutElements DEF Others, Mounted
<1>3. ASSUME NEW i \in Mounted, o = Append(Others(i), i)
      PROVE  o \in Seq(Instance) /\ Elements(o) = Mounted
  <2>1. Append(Others(i), i) \in Seq(Instance)
        /\ Elements(Append(Others(i), i)) = Elements(Others(i)) \cup {i}
      BY <1>2, ElementsAppend, AppendProperties
  <2> QED BY <1>2, <1>3, <2>1
<1>4. ASSUME NEW i \in Mounted, o = <<i>> \o Others(i)
      PROVE  o \in Seq(Instance) /\ Elements(o) = Mounted
  <2>1. <<i>> \o Others(i) \in Seq(Instance)
        /\ Elements(<<i>> \o Others(i)) = {i} \cup Elements(Others(i))
      BY <1>2, ElementsPrepend
  <2> QED BY <1>2, <1>4, <2>1
<1> QED BY <1>1, <1>3, <1>4, ArrangementsCover DEF Restackings

LEMMA OrderKept ==
    ASSUME RoomTypes, OrderInvariant, [Next]_vars
    PROVE  OrderInvariant'
<1>1. order \in Seq(Instance) /\ Elements(order) = Mounted
    BY DEF OrderInvariant, OrderCoversMounts
<1> SUFFICES order' \in Seq(Instance) /\ Elements(order') = Mounted'
    BY DEF OrderInvariant, OrderCoversMounts
<1>2. ASSUME NEW r \in Request, MountApplied(r)
      PROVE  order' \in Seq(Instance) /\ Elements(order') = Mounted'
  <2> DEFINE i == req[r].inst
  <2>1. /\ i \in Instance /\ req[r].server \in Server /\ order' = Append(order, i)
        /\ \E cell \in Cell : mounts' = [mounts EXCEPT ![i] =
               [server |-> req[r].server, visible |-> TRUE, container |-> cell]]
      BY <1>2 DEF MountApplied, RoomTypes
  <2>2. Mounted' = Mounted \cup {i}
      BY <2>1, NullTypes DEF RoomTypes, Mounted, NotMounted
  <2> QED BY <1>1, <2>1, <2>2, ElementsAppend, AppendProperties
<1>3. ASSUME NEW i \in Instance, UnmountShared(i) \/ \E r \in Request : UnmountBegin(r, i)
      PROVE  order' \in Seq(Instance) /\ Elements(order') = Mounted'
  <2>1. RemoveInstance(i)
      BY <1>3 DEF UnmountShared, UnmountBegin
  <2>2. order' = Without(order, {i}) /\ Mounted' = Mounted \ {i}
      BY <2>1 DEF RemoveInstance, RoomTypes, Mounted
  <2> QED BY <1>1, <2>2, WithoutElements
<1>4. ASSUME NEW i \in Instance, NEW visible \in BOOLEAN, HandleVisibility(i, visible)
      PROVE  order' \in Seq(Instance) /\ Elements(order') = Mounted'
  <2>1. mounts[i] \in Mount
      BY <1>4, MountedServer DEF HandleVisibility
  <2>2. [mounts[i] EXCEPT !.visible = visible] \in Mount
      BY <2>1 DEF Mount
  <2>3. Mounted' = Mounted
      BY <1>4, <2>1, <2>2, NullTypes DEF HandleVisibility, Mounted, RoomTypes
  <2> QED BY <1>1, <1>4, <2>3 DEF HandleVisibility
<1>5. ASSUME NEW newOrder \in Arrangements, HandleReorder(newOrder)
      PROVE  order' \in Seq(Instance) /\ Elements(order') = Mounted'
    BY <1>5, ArrangementsCover DEF HandleReorder, Mounted
<1>6. ASSUME NEW newOrder \in Restackings, NEW place \in [Mounted -> Cell],
             HandleLayout(newOrder, place)
      PROVE  order' \in Seq(Instance) /\ Elements(order') = Mounted'
  <2>1. \A i \in Mounted : [mounts[i] EXCEPT !.container = place[i]] \in Mount
      BY MountedServer DEF Mounted, Mount
  <2>2. Mounted' = Mounted
      BY <1>6, <2>1, NullTypes DEF HandleLayout, Mounted
  <2> QED BY <1>6, <2>2, RestackingsCover DEF HandleLayout
<1>7. CASE UNCHANGED <<mounts, order>>
    BY <1>1, <1>7 DEF Mounted
<1>8. ASSUME \/ \E r \in Request : Progress(r) /\ ~MountApplied(r)
             \/ \E r \in Request, i \in Instance, s \in Server : MountBegin(r, i, s)
             \/ \E r \in Request, i \in Instance : CallBegin(r, i)
             \/ \E i \in Instance : ReportInstanceEvidence(i) \/ Passthrough(i)
             \/ \E i \in Instance \cup {None} : HandleSelect(i)
             \/ \E s \in Server : ConnectSettles(s)
             \/ UNCHANGED vars
      PROVE  UNCHANGED <<mounts, order>>
    BY <1>8 DEF Progress, MountInspected, MountFailed, UnmountReleased, CallSent,
                CallAborted, CallSettled, MountBegin, CallBegin, ReportInstanceEvidence,
                Passthrough, HandleSelect, ConnectSettles, roomVars, vars
<1> QED BY <1>2, <1>3, <1>4, <1>5, <1>6, <1>7, <1>8 DEF Next

\* The order array and the mounts map name the same instances, whatever is
\* mounted, unmounted, reordered or restacked while mounts and unmounts wait.
THEOREM OrderAndMountsAgree == Spec => []OrderCoversMounts
<1>1. Init => OrderInvariant
    BY ElementsEmpty, EmptySeq DEF Init, OrderInvariant, OrderCoversMounts, Mounted
<1>2. RoomTypes /\ OrderInvariant /\ [Next]_vars => OrderInvariant'
    BY OrderKept
<1>3. OrderInvariant => OrderCoversMounts
    BY DEF OrderInvariant
<1> QED BY <1>1, <1>2, <1>3, RoomIsTyped, PTL DEF Spec

-----------------------------------------------------------------------------
(* Every running invocation has one call waiting for its outcome.          *)

\* The calls that wait for a tool have distinct ids, all taken from the
\* counter; other requests have none.
CallsNumbered ==
    /\ \A q \in Request :
           IF req[q].phase = "sent" THEN req[q].call \in 1..(invocationCounter - 1)
                                    ELSE req[q].call = 0
    /\ \A p, q \in Request :
           req[p].phase = "sent" /\ req[p].call = req[q].call => p = q

SameCalls ==
    \A q \in Request :
        /\ req'[q].phase = "sent" <=> req[q].phase = "sent"
        /\ req'[q].call = req[q].call

OnlyDropped == \A c \in CallId : invocations'[c] \in {invocations[c], NoInvocation}

\* Only callInstanceTool() itself takes an id, starts or settles a call.
LEMMA CallsGoOn ==
    ASSUME RoomTypes, CallsNumbered, [Next]_vars,
           \A r \in Request :
               ~CallSent(r) /\ \A status \in {"completed", "failed"} : ~CallSettled(r, status)
    PROVE  SameCalls /\ OnlyDropped /\ UNCHANGED invocationCounter
<1>a. HandlersTyped /\ \A q \in Request : req[q].phase # "sent" => req[q].call = 0
    BY DEF RoomTypes, HandlersTyped, CallsNumbered
<1>b. ASSUME UNCHANGED req PROVE SameCalls
    BY <1>b DEF SameCalls
<1>c. ASSUME NEW r \in Request, NEW h \in Handler, req' = [req EXCEPT ![r] = h],
             req[r].phase # "sent", h.phase # "sent", h.call = 0
      PROVE  SameCalls
    BY <1>c, <1>a DEF SameCalls, HandlersTyped
<1>d. ASSUME NEW r \in Request, NEW h \in Handler, NEW s, NEW outcome \in Wait,
             req' = Detached([req EXCEPT ![r] = h], s, outcome),
             req[r].phase # "sent", h.phase # "sent", h.call = 0
      PROVE  SameCalls
  <2> DEFINE left == [req EXCEPT ![r] = h]
  <2>1. /\ left \in [Request -> Handler]
        /\ \A q \in Request : /\ left[q].phase = "sent" <=> req[q].phase = "sent"
                              /\ left[q].call = req[q].call
      BY <1>d, <1>a DEF HandlersTyped
  <2>2. req' = Detached(left, s, outcome)
      BY <1>d
  <2> HIDE DEF left
  <2> QED BY <2>1, <2>2, DetachedRequests DEF SameCalls
<1>e. ASSUME UNCHANGED historyVars
      PROVE  OnlyDropped /\ UNCHANGED invocationCounter
    BY <1>e DEF historyVars, OnlyDropped
<1>f. ASSUME NEW i \in Instance, DropInvocations(i)
      PROVE  OnlyDropped /\ UNCHANGED invocationCounter
    BY <1>f DEF DropInvocations, OnlyDropped
<1>1. ASSUME NEW r \in Request, Progress(r)
      PROVE  SameCalls /\ OnlyDropped /\ UNCHANGED invocationCounter
  <2>a. req[r] \in Handler /\ Idle \in Handler /\ Idle.phase # "sent" /\ Idle.call = 0
      BY <1>a, NullTypes DEF HandlersTyped, Idle
  <2>1. CASE MountInspected(r)
    <3> DEFINE h == [req[r] EXCEPT !.phase = "attaching", !.wait = "cached"]
    <3>1. /\ h \in Handler /\ h.phase # "sent" /\ h.call = 0
          /\ req[r].phase # "sent" /\ req' = [req EXCEPT ![r] = h]
        BY <2>1, <2>a, <1>a DEF MountInspected, Handler, Phase, Wait, HandlersTyped
    <3> HIDE DEF h
    <3> QED BY <3>1, <1>c, <1>e, <2>1 DEF MountInspected
  <2>2. CASE MountApplied(r) \/ CallAborted(r)
      BY <2>2, <2>a, <1>c, <1>e DEF MountApplied, CallAborted
  <2>3. CASE MountFailed(r)
    <3>1. /\ req[r].phase # "sent" /\ UNCHANGED historyVars /\ "dropped" \in Wait
          /\ \/ req' = [req EXCEPT ![r] = Idle]
             \/ req' = Detached([req EXCEPT ![r] = Idle], req[r].server, "dropped")
        BY <2>3 DEF MountFailed, Wait
    <3> QED BY <3>1, <2>a, <1>c, <1>d, <1>e
  <2>4. CASE UnmountReleased(r)
    <3>1. req[r].inst \in Instance
        BY <2>4, <1>a DEF UnmountReleased, HandlersTyped
    <3> QED BY <3>1, <2>4, <2>a, <1>c, <1>f DEF UnmountReleased
  <2> QED BY <1>1, <2>1, <2>2, <2>3, <2>4 DEF Progress
<1>2. ASSUME NEW r \in Request, NEW i \in Instance, NEW s \in Server, MountBegin(r, i, s)
      PROVE  SameCalls /\ OnlyDropped /\ UNCHANGED invocationCounter
  <2> DEFINE h == [phase |-> "inspecting", inst |-> i, server |-> s,
                   had |-> s \in sessions, call |-> 0, wait |-> "cached"]
  <2>1. h \in Handler /\ h.phase # "sent" /\ h.call = 0
      BY DEF Handler, Phase, Wait
  <2>2. req[r].phase # "sent" /\ req' = [req EXCEPT ![r] = h]
      BY <1>2 DEF MountBegin, FreeSlot
  <2> HIDE DEF h
  <2> QED BY <2>1, <2>2, <1>2, <1>c, <1>e DEF MountBegin
<1>3. ASSUME NEW r \in Request, NEW i \in Instance, CallBegin(r, i)
      PROVE  SameCalls /\ OnlyDropped /\ UNCHANGED invocationCounter
  <2> DEFINE h == [Idle EXCEPT !.phase = "connecting", !.inst = i,
                               !.server = mounts[i].server, !.wait = "cached"]
  <2>1. h \in Handler /\ h.phase # "sent" /\ h.call = 0
      BY <1>3, MountedServer DEF CallBegin, Idle, Handler, Phase, Wait
  <2>2. req[r].phase # "sent" /\ req' = [req EXCEPT ![r] = h]
      BY <1>3 DEF CallBegin, FreeSlot
  <2> HIDE DEF h
  <2> QED BY <2>1, <2>2, <1>3, <1>c, <1>e DEF CallBegin
<1>4. ASSUME NEW r \in Request, NEW i \in Instance, UnmountBegin(r, i)
      PROVE  SameCalls /\ OnlyDropped /\ UNCHANGED invocationCounter
  <2> DEFINE h == [Idle EXCEPT !.phase = "releasing", !.inst = i,
                               !.server = mounts[i].server]
  <2>1. h \in Handler /\ h.phase # "sent" /\ h.call = 0
      BY <1>4, MountedServer DEF UnmountBegin, Idle, Handler, Phase, Wait
  <2>2. /\ req[r].phase # "sent" /\ "dropped" \in Wait
        /\ req' = Detached([req EXCEPT ![r] = h], mounts[i].server, "dropped")
      BY <1>4 DEF UnmountBegin, FreeSlot, Wait
  <2> HIDE DEF h
  <2> QED BY <2>1, <2>2, <1>4, <1>d, <1>e DEF UnmountBegin
<1>5. ASSUME NEW s \in Server, ConnectSettles(s)
      PROVE  SameCalls /\ OnlyDropped /\ UNCHANGED invocationCounter
  <2>1. UNCHANGED req \/ req' = Detached(req, s, "failed")
      BY <1>5 DEF ConnectSettles
  <2>2. ASSUME req' = Detached(req, s, "failed") PROVE SameCalls
    <3>1. "failed" \in Wait
        BY DEF Wait
    <3> QED BY <2>2, <3>1, <1>a, DetachedRequests DEF SameCalls, HandlersTyped
  <2> QED BY <2>1, <2>2, <1>5, <1>b, <1>e DEF ConnectSettles
<1>6. ASSUME NEW i \in Instance, UnmountShared(i)
      PROVE  SameCalls /\ OnlyDropped /\ UNCHANGED invocationCounter
    BY <1>6, <1>b, <1>f DEF UnmountShared
<1>7. ASSUME \/ \E i \in Instance : ReportInstanceEvidence(i) \/ Passthrough(i)
             \/ \E i \in Instance, visible \in BOOLEAN : HandleVisibility(i, visible)
             \/ \E i \in Instance \cup {None} : HandleSelect(i)
             \/ \E newOrder \in Arrangements : HandleReorder(newOrder)
             \/ \E newOrder \in Restackings, place \in [Mounted -> Cell] :
                    HandleLayout(newOrder, place)
             \/ UNCHANGED vars
      PROVE  SameCalls /\ OnlyDropped /\ UNCHANGED invocationCounter
  <2>1. UNCHANGED req /\ UNCHANGED historyVars
      BY <1>7 DEF ReportInstanceEvidence, Passthrough, HandleVisibility, HandleSelect,
                  HandleReorder, HandleLayout, vars
  <2> QED BY <2>1, <1>b, <1>e
<1> QED BY <1>1, <1>2, <1>3, <1>4, <1>5, <1>6, <1>7 DEF Next

LEMMA NumbersKept ==
    ASSUME RoomTypes, CallsNumbered, RunningHasOwner, [Next]_vars
    PROVE  CallsNumbered' /\ RunningHasOwner'
<1>a. /\ req \in [Request -> Handler] /\ invocationCounter \in Nat \ {0}
      /\ invocations \in [CallId -> Invocation \cup {NoInvocation}]
    BY DEF RoomTypes
<1>1. CASE SameCalls /\ OnlyDropped /\ UNCHANGED invocationCounter
    BY <1>1 DEF SameCalls, OnlyDropped, NoInvocation, CallsNumbered, RunningHasOwner
<1>2. ASSUME NEW r \in Request, CallSent(r)
      PROVE  CallsNumbered' /\ RunningHasOwner'
  <2> DEFINE n == invocationCounter
  <2>1. /\ req[r].phase = "connecting" /\ n \in Nat \ {0} /\ invocationCounter' = n + 1
        /\ req'[r].phase = "sent" /\ req'[r].call = n
        /\ \A q \in Request \ {r} : req'[q] = req[q]
      BY <1>2, <1>a DEF CallSent
  <2>2. \A q \in Request : req[q].call \in 0..(n - 1)
      BY <2>1 DEF CallsNumbered
  <2>3. CallsNumbered'
    <3>1. \A q \in Request :
             IF req'[q].phase = "sent" THEN req'[q].call \in 1..(invocationCounter' - 1)
                                       ELSE req'[q].call = 0
        BY <2>1 DEF CallsNumbered
    <3>2. \A p, q \in Request :
             req'[p].phase = "sent" /\ req'[p].call = req'[q].call => p = q
        BY <2>1, <2>2 DEF CallsNumbered
    <3> QED BY <3>1, <3>2 DEF CallsNumbered
  <2>4. ASSUME NEW c \in CallId, invocations'[c].status = "running"
        PROVE  \E q \in Request : /\ req'[q].phase = "sent" /\ req'[q].call = c
                                  /\ \A p \in Request \ {q} : req'[p].call # c
    <3>1. c = n \/ invocations'[c] = invocations[c]
        BY <1>2, <2>4 DEF CallSent, NoInvocation
    <3>2. CASE c = n
        BY <3>2, <2>1, <2>2
    <3>3. CASE c # n /\ invocations[c].status = "running"
      <4>1. PICK q \in Request : /\ req[q].phase = "sent" /\ req[q].call = c
                                 /\ \A p \in Request \ {q} : req[p].call # c
          BY <3>3 DEF RunningHasOwner
      <4> QED BY <4>1, <3>3, <2>1
    <3> QED BY <3>1, <3>2, <3>3, <2>4
  <2> QED BY <2>3, <2>4 DEF RunningHasOwner
<1>3. ASSUME NEW r \in Request, NEW status \in {"completed", "failed"},
             CallSettled(r, status)
      PROVE  CallsNumbered' /\ RunningHasOwner'
  <2>1. /\ req[r].phase = "sent" /\ invocationCounter' = invocationCounter
        /\ req'[r].phase = "idle" /\ req'[r].call = 0
        /\ \A q \in Request \ {r} : req'[q] = req[q]
      BY <1>3, <1>a DEF CallSettled, Settle, historyVars, Idle
  <2>2. CallsNumbered'
    <3>1. \A q \in Request :
             IF req'[q].phase = "sent" THEN req'[q].call \in 1..(invocationCounter' - 1)
                                       ELSE req'[q].call = 0
        BY <2>1 DEF CallsNumbered
    <3>2. \A p, q \in Request :
             req'[p].phase = "sent" /\ req'[p].call = req'[q].call => p = q
        BY <2>1, <1>a DEF CallsNumbered
    <3> QED BY <3>1, <3>2 DEF CallsNumbered
  <2>3. ASSUME NEW c \in CallId, invocations'[c].status = "running"
        PROVE  \E q \in Request : /\ req'[q].phase = "sent" /\ req'[q].call = c
                                  /\ \A p \in Request \ {q} : req'[p].call # c
    <3>1. c # req[r].call /\ invocations'[c] = invocations[c]
      <4>1. CASE UNCHANGED historyVars /\ invocations[req[r].call] = NoInvocation
          BY <4>1, <2>3 DEF historyVars, NoInvocation
      <4>2. CASE Settle(req[r].call, status)
        <5>1. c = req[r].call => invocations'[c].status = status
            BY <4>2, <1>a DEF Settle, Invocation, NoInvocation
        <5> QED BY <4>2, <5>1, <1>a, <2>3 DEF Settle
      <4> QED BY <1>3, <4>1, <4>2 DEF CallSettled
    <3>2. PICK q \in Request : /\ req[q].phase = "sent" /\ req[q].call = c
                               /\ \A p \in Request \ {q} : req[p].call # c
        BY <3>1, <2>3 DEF RunningHasOwner
    <3>3. c # 0
        BY DEF CallId
    <3> QED BY <3>1, <3>2, <3>3, <2>1
  <2> QED BY <2>2, <2>3 DEF RunningHasOwner
<1> QED BY <1>1, <1>2, <1>3, CallsGoOn

\* No invocation shows "running" after the call that should settle it is gone,
\* and no two calls believe they settle the same one.
THEOREM RunningIsOwned == Spec => []RunningHasOwner
<1>1. Init => CallsNumbered /\ RunningHasOwner
    BY DEF Init, CallsNumbered, RunningHasOwner, Idle, NoInvocation
<1>2. RoomTypes /\ (CallsNumbered /\ RunningHasOwner) /\ [Next]_vars
          => (CallsNumbered /\ RunningHasOwner)'
    BY NumbersKept
<1> QED BY <1>1, <1>2, RoomIsTyped, PTL DEF Spec

-----------------------------------------------------------------------------
(* Every call that is sent has an id below the bound of the model: the     *)
(* calls that still connect have theirs reserved.                          *)

CallsBounded ==
    /\ IsFiniteSet(CallsConnecting)
    /\ invocationCounter + Cardinality(CallsConnecting) <= MaxCalls + 1
    /\ \A q \in Request : req[q].phase = "sent" => req[q].call \in CallId

\* Only callInstanceTool() connects for a call.
LEMMA ConnectingStep ==
    ASSUME RoomTypes, [Next]_vars
    PROVE  \/ CallsConnecting' = CallsConnecting
           \/ \E r \in Request, i \in Instance :
                  CallBegin(r, i) /\ CallsConnecting' = CallsConnecting \cup {r}
           \/ \E r \in CallsConnecting :
                  /\ CallSent(r) \/ CallAborted(r)
                  /\ CallsConnecting' = CallsConnecting \ {r}
<1>a. HandlersTyped
    BY DEF RoomTypes, HandlersTyped
<1>b. ASSUME UNCHANGED req PROVE CallsConnecting' = CallsConnecting
    BY <1>b DEF CallsConnecting
<1>c. ASSUME NEW r \in Request, NEW h \in Handler, req' = [req EXCEPT ![r] = h],
             req[r].phase # "connecting", h.phase # "connecting"
      PROVE  CallsConnecting' = CallsConnecting
    BY <1>c, <1>a DEF CallsConnecting, HandlersTyped
<1>d. ASSUME NEW left \in [Request -> Handler], NEW s, NEW outcome \in Wait,
             req' = Detached(left, s, outcome),
             \A q \in Request : left[q].phase = "connecting" <=> req[q].phase = "connecting"
      PROVE  CallsConnecting' = CallsConnecting
    BY <1>d, DetachedRequests DEF CallsConnecting
<1>e. ASSUME NEW r \in Request, NEW h \in Handler,
             req[r].phase # "connecting", h.phase # "connecting"
      PROVE  /\ [req EXCEPT ![r] = h] \in [Request -> Handler]
             /\ \A q \in Request : [req EXCEPT ![r] = h][q].phase = "connecting"
                                       <=> req[q].phase = "connecting"
    BY <1>e, <1>a DEF HandlersTyped
<1>1. ASSUME NEW r \in Request, Progress(r), ~CallSent(r), ~CallAborted(r)
      PROVE  CallsConnecting' = CallsConnecting
  <2>a. req[r] \in Handler /\ Idle \in Handler /\ Idle.phase # "connecting"
      BY <1>a, NullTypes DEF HandlersTyped
  <2>1. CASE MountInspected(r)
    <3> DEFINE h == [req[r] EXCEPT !.phase = "attaching", !.wait = "cached"]
    <3>1. /\ h \in Handler /\ h.phase # "connecting"
          /\ req[r].phase # "connecting" /\ req' = [req EXCEPT ![r] = h]
        BY <2>1, <2>a, <1>a DEF MountInspected, Handler, Phase, Wait, HandlersTyped
    <3> HIDE DEF h
    <3> QED BY <3>1, <1>c
  <2>2. CASE \/ MountApplied(r) \/ UnmountReleased(r)
             \/ \E status \in {"completed", "failed"} : CallSettled(r, status)
      BY <2>2, <2>a, <1>c DEF MountApplied, UnmountReleased, CallSettled
  <2>3. CASE MountFailed(r)
    <3>1. /\ req[r].phase # "connecting" /\ "dropped" \in Wait
          /\ \/ req' = [req EXCEPT ![r] = Idle]
             \/ req' = Detached([req EXCEPT ![r] = Idle], req[r].server, "dropped")
        BY <2>3 DEF MountFailed, Wait
    <3> QED BY <3>1, <2>a, <1>c, <1>d, <1>e
  <2> QED BY <1>1, <2>1, <2>2, <2>3 DEF Progress
<1>2. ASSUME NEW r \in Request, CallSent(r) \/ CallAborted(r)
      PROVE  r \in CallsConnecting /\ CallsConnecting' = CallsConnecting \ {r}
  <2>a. req[r] \in Handler /\ Idle.phase # "connecting"
      BY <1>a, NullTypes DEF HandlersTyped
  <2>1. CASE CallSent(r)
    <3>1. req[r].phase = "connecting" /\ req'[r].phase = "sent"
        BY <2>1, <2>a, <1>a DEF CallSent, HandlersTyped, Handler
    <3>2. \A q \in Request \ {r} : req'[q] = req[q]
        BY <2>1, <1>a DEF CallSent, HandlersTyped
    <3> QED BY <3>1, <3>2 DEF CallsConnecting
  <2>2. CASE CallAborted(r)
    <3>1. req[r].phase = "connecting" /\ req' = [req EXCEPT ![r] = Idle]
        BY <2>2 DEF CallAborted
    <3> QED BY <3>1, <2>a, <1>a DEF HandlersTyped, CallsConnecting
  <2> QED BY <1>2, <2>1, <2>2
<1>3. ASSUME NEW r \in Request, NEW i \in Instance, CallBegin(r, i)
      PROVE  CallsConnecting' = CallsConnecting \cup {r}
  <2>1. req'[r].phase = "connecting" /\ \A q \in Request \ {r} : req'[q] = req[q]
      BY <1>3, <1>a DEF CallBegin, HandlersTyped, Idle
  <2> QED BY <2>1 DEF CallsConnecting
<1>4. ASSUME NEW r \in Request, NEW i \in Instance, NEW s \in Server, MountBegin(r, i, s)
      PROVE  CallsConnecting' = CallsConnecting
  <2> DEFINE h == [phase |-> "inspecting", inst |-> i, server |-> s,
                   had |-> s \in sessions, call |-> 0, wait |-> "cached"]
  <2>1. h \in Handler /\ h.phase # "connecting"
      BY DEF Handler, Phase, Wait
  <2>2. req[r].phase # "connecting" /\ req' = [req EXCEPT ![r] = h]
      BY <1>4 DEF MountBegin, FreeSlot
  <2> HIDE DEF h
  <2> QED BY <2>1, <2>2, <1>c
<1>5. ASSUME NEW r \in Request, NEW i \in Instance, UnmountBegin(r, i)
      PROVE  CallsConnecting' = CallsConnecting
  <2> DEFINE h == [Idle EXCEPT !.phase = "releasing", !.inst = i,
                               !.server = mounts[i].server]
  <2>1. h \in Handler /\ h.phase # "connecting"
      BY <1>5, MountedServer DEF UnmountBegin, Idle, Handler, Phase, Wait
  <2>2. /\ req[r].phase # "connecting" /\ "dropped" \in Wait
        /\ req' = Detached([req EXCEPT ![r] = h], mounts[i].server, "dropped")
      BY <1>5 DEF UnmountBegin, FreeSlot, Wait
  <2> HIDE DEF h
  <2> QED BY <2>1, <2>2, <1>d, <1>e
<1>6. ASSUME NEW s \in Server, ConnectSettles(s)
      PROVE  CallsConnecting' = CallsConnecting
  <2>1. (UNCHANGED req \/ req' = Detached(req, s, "failed")) /\ "failed" \in Wait
      BY <1>6 DEF ConnectSettles, Wait
  <2> QED BY <2>1, <1>a, <1>b, <1>d DEF HandlersTyped
<1>7. ASSUME \/ \E i \in Instance :
                   UnmountShared(i) \/ ReportInstanceEvidence(i) \/ Passthrough(i)
             \/ \E i \in Instance, visible \in BOOLEAN : HandleVisibility(i, visible)
             \/ \E i \in Instance \cup {None} : HandleSelect(i)
             \/ \E newOrder \in Arrangements : HandleReorder(newOrder)
             \/ \E newOrder \in Restackings, place \in [Mounted -> Cell] :
                    HandleLayout(newOrder, place)
             \/ UNCHANGED vars
      PROVE  CallsConnecting' = CallsConnecting
  <2>1. UNCHANGED req
      BY <1>7 DEF UnmountShared, ReportInstanceEvidence, Passthrough, HandleVisibility,
                  HandleSelect, HandleReorder, HandleLayout, vars
  <2> QED BY <2>1, <1>b
<1> QED BY <1>1, <1>2, <1>3, <1>4, <1>5, <1>6, <1>7 DEF Next

LEMMA SentConnected ==
    ASSUME RoomTypes, NEW r \in Request, CallSent(r)
    PROVE  r \in CallsConnecting /\ r \notin CallsConnecting'
<1>1. req[r].phase = "connecting" /\ req'[r].phase = "sent"
    BY DEF CallSent, RoomTypes
<1> QED BY <1>1 DEF CallsConnecting

\* A call that connects has an id left for it.
LEMMA SentInBounds ==
    ASSUME RoomTypes, CallsBounded, NEW r \in Request, CallSent(r)
    PROVE  invocationCounter \in CallId
<1> DEFINE n == Cardinality(CallsConnecting)
<1>1. /\ IsFiniteSet(CallsConnecting) /\ n \in Nat /\ MaxCalls \in Nat
      /\ invocationCounter \in Nat \ {0} /\ invocationCounter + n <= MaxCalls + 1
    BY FS_CardinalityType, StoreAssumption DEF CallsBounded, RoomTypes
<1>2. n # 0
    BY <1>1, SentConnected, FS_EmptySet
<1> QED BY <1>1, <1>2 DEF CallId

LEMMA BoundKept ==
    ASSUME RoomTypes, CallsNumbered, CallsBounded, [Next]_vars
    PROVE  CallsBounded'
<1> DEFINE n == Cardinality(CallsConnecting)
<1>1. /\ IsFiniteSet(CallsConnecting) /\ n \in Nat /\ MaxCalls \in Nat
      /\ invocationCounter \in Nat \ {0} /\ invocationCounter + n <= MaxCalls + 1
    BY FS_CardinalityType, StoreAssumption DEF CallsBounded, RoomTypes
<1>3. \A q \in Request : req'[q].phase = "sent" => req'[q].call \in CallId
  <2>1. CASE SameCalls
      BY <2>1 DEF SameCalls, CallsBounded
  <2>2. ASSUME NEW r \in Request, CallSent(r)
        PROVE  \A q \in Request : req'[q].phase = "sent" => req'[q].call \in CallId
    <3>1. invocationCounter \in CallId
        BY <2>2, SentInBounds
    <3>2. req'[r].call = invocationCounter /\ \A q \in Request \ {r} : req'[q] = req[q]
        BY <2>2 DEF CallSent, RoomTypes
    <3> QED BY <2>2, <3>1, <3>2 DEF CallsBounded
  <2>3. ASSUME NEW r \in Request, NEW status \in {"completed", "failed"},
               CallSettled(r, status)
        PROVE  \A q \in Request : req'[q].phase = "sent" => req'[q].call \in CallId
    <3>1. req'[r].phase = "idle" /\ \A q \in Request \ {r} : req'[q] = req[q]
        BY <2>3, NullTypes DEF CallSettled, RoomTypes
    <3> QED BY <3>1 DEF CallsBounded
  <2> QED BY <2>1, <2>2, <2>3, CallsGoOn
<1>4. ASSUME ~ \E r \in Request : CallSent(r) PROVE invocationCounter' = invocationCounter
  <2>1. ASSUME NEW r \in Request, NEW status \in {"completed", "failed"},
               CallSettled(r, status)
        PROVE  invocationCounter' = invocationCounter
      BY <2>1 DEF CallSettled, Settle, historyVars
  <2> QED BY <1>4, <2>1, CallsGoOn
<1>5. CASE CallsConnecting' = CallsConnecting
  <2>1. ~ \E r \in Request : CallSent(r)
      BY <1>5, SentConnected DEF RoomTypes
  <2> QED BY <1>1, <1>3, <1>4, <1>5, <2>1 DEF CallsBounded
<1>6. ASSUME NEW r \in Request, NEW i \in Instance, CallBegin(r, i),
             CallsConnecting' = CallsConnecting \cup {r}
      PROVE  CallsBounded'
  <2>1. invocationCounter' = invocationCounter /\ invocationCounter + n <= MaxCalls
      BY <1>6 DEF CallBegin, historyVars
  <2>2. IsFiniteSet(CallsConnecting') /\ Cardinality(CallsConnecting') <= n + 1
        /\ Cardinality(CallsConnecting') \in Nat
      BY <1>1, <1>6, FS_AddElement
  <2> QED BY <1>1, <1>3, <2>1, <2>2 DEF CallsBounded
<1>7. ASSUME NEW r \in CallsConnecting, CallSent(r) \/ CallAborted(r),
             CallsConnecting' = CallsConnecting \ {r}
      PROVE  CallsBounded'
  <2>1. invocationCounter' <= invocationCounter + 1 /\ invocationCounter' \in Nat
      BY <1>1, <1>7 DEF CallSent, CallAborted, historyVars
  <2>2. IsFiniteSet(CallsConnecting') /\ Cardinality(CallsConnecting') = n - 1
      BY <1>1, <1>7, FS_RemoveElement
  <2> HIDE DEF n
  <2>3. \A a, b \in Nat : a <= b + 1 /\ b + n <= MaxCalls + 1
                             => a + (n - 1) <= MaxCalls + 1
      BY <1>1
  <2>4. invocationCounter' + Cardinality(CallsConnecting') <= MaxCalls + 1
      BY <1>1, <2>1, <2>2, <2>3
  <2> QED BY <1>3, <2>2, <2>4 DEF CallsBounded
<1> QED BY <1>5, <1>6, <1>7, ConnectingStep

-----------------------------------------------------------------------------
(* Outcomes are final.                                                     *)

\* A call that waits for its tool has not been settled by anybody else, and what
\* is recorded has an id that has been taken.
CallsUnsettled ==
    /\ \A q \in Request, c \in CallId :
           req[q].phase = "sent" /\ req[q].call = c =>
               invocations[c].status \notin {"completed", "failed"}
    /\ \A c \in CallId : invocations[c] # NoInvocation => c < invocationCounter

\* What a step may do to the invocations there were.
Final ==
    \A c \in CallId :
        /\ invocations[c].status \in {"completed", "failed"} =>
               invocations'[c] \in {invocations[c], NoInvocation}
        /\ c < invocationCounter /\ invocations[c] = NoInvocation =>
               invocations'[c] = NoInvocation

\* callInstanceTool() before the await of the tool...
LEMMA SentIsNew ==
    ASSUME RoomTypes, CallsNumbered, NEW r \in Request, CallSent(r)
    PROVE  /\ req'[r].phase = "sent" /\ req'[r].call = invocationCounter
           /\ invocationCounter' = invocationCounter + 1
           /\ \A q \in Request \ {r} : /\ req'[q] = req[q]
                                       /\ req[q].call < invocationCounter
           /\ \A c \in CallId : c # invocationCounter =>
                  invocations'[c] \in {invocations[c], NoInvocation}
           /\ invocationCounter \in CallId =>
                  invocations'[invocationCounter].status \in {"running", "none"}
<1>1. req \in [Request -> Handler] /\ invocationCounter \in Nat \ {0}
    BY DEF RoomTypes
<1>2. /\ req'[r].phase = "sent" /\ req'[r].call = invocationCounter
      /\ invocationCounter' = invocationCounter + 1
      /\ \A q \in Request \ {r} : req'[q] = req[q]
    BY <1>1 DEF CallSent
<1>3. \A q \in Request : req[q].call < invocationCounter
    BY <1>1 DEF CallsNumbered
<1>4. \A c \in CallId : c # invocationCounter =>
          invocations'[c] \in {invocations[c], NoInvocation}
    BY DEF CallSent
<1>5. invocationCounter \in CallId =>
          invocations'[invocationCounter].status \in {"running", "none"}
    BY DEF CallSent, NoInvocation
<1> QED BY <1>2, <1>3, <1>4, <1>5

\* ... and after it.
LEMMA SettledIsOwn ==
    ASSUME RoomTypes, NEW r \in Request, NEW status \in {"completed", "failed"},
           CallSettled(r, status)
    PROVE  /\ req[r].phase = "sent" /\ req'[r].phase = "idle"
           /\ UNCHANGED invocationCounter
           /\ \A q \in Request \ {r} : req'[q] = req[q]
           /\ \A c \in CallId : c # req[r].call => invocations'[c] = invocations[c]
           /\ \A c \in CallId : c = req[r].call =>
                  IF invocations[c] = NoInvocation
                  THEN invocations'[c] = invocations[c] /\ UNCHANGED evidenceVars
                  ELSE /\ invocations'[c].status = status
                       /\ AppendEvidence(IF status = "completed" THEN "rpc_succeeded"
                                         ELSE "rpc_failed", invocations[c].inst, c)
<1>1. /\ req \in [Request -> Handler]
      /\ invocations \in [CallId -> Invocation \cup {NoInvocation}]
    BY DEF RoomTypes
<1>2. /\ req[r].phase = "sent" /\ req'[r].phase = "idle"
      /\ \A q \in Request \ {r} : req'[q] = req[q]
      /\ UNCHANGED invocationCounter
    BY <1>1, NullTypes DEF CallSettled, Settle, historyVars
<1>3. CASE invocations[req[r].call] = NoInvocation
    BY <1>2, <1>3 DEF CallSettled, historyVars
<1>4. CASE invocations[req[r].call] # NoInvocation
  <2>1. /\ Settle(req[r].call, status)
        /\ AppendEvidence(IF status = "completed" THEN "rpc_succeeded" ELSE "rpc_failed",
                          invocations[req[r].call].inst, req[r].call)
      BY <1>4 DEF CallSettled
  <2>2. ASSUME NEW c \in CallId, c = req[r].call
        PROVE  invocations'[c].status = status
      BY <2>1, <2>2, <1>1 DEF Settle, Invocation, NoInvocation
  <2>3. \A c \in CallId : c # req[r].call => invocations'[c] = invocations[c]
      BY <2>1, <1>1 DEF Settle
  <2> QED BY <1>2, <1>4, <2>1, <2>2, <2>3
<1> QED BY <1>3, <1>4

LEMMA OutcomesKept ==
    ASSUME RoomTypes, CallsNumbered, CallsUnsettled, [Next]_vars
    PROVE  CallsUnsettled' /\ Final
<1>1. CASE SameCalls /\ OnlyDropped /\ UNCHANGED invocationCounter
    BY <1>1 DEF SameCalls, OnlyDropped, NoInvocation, CallsUnsettled, Final
<1>2. ASSUME NEW r \in Request, CallSent(r)
      PROVE  CallsUnsettled' /\ Final
  <2>1. /\ req'[r].call = invocationCounter /\ invocationCounter' = invocationCounter + 1
        /\ \A q \in Request \ {r} : req'[q] = req[q] /\ req[q].call < invocationCounter
        /\ \A c \in CallId : c # invocationCounter =>
               invocations'[c] \in {invocations[c], NoInvocation}
        /\ invocationCounter \in CallId =>
               invocations'[invocationCounter].status \in {"running", "none"}
        /\ invocationCounter \in Nat
      BY <1>2, SentIsNew DEF RoomTypes
  <2>2. \A c \in CallId : invocations[c] # NoInvocation => c # invocationCounter
      BY <2>1 DEF CallsUnsettled
  <2>3. CallsUnsettled'
    <3>1. ASSUME NEW q \in Request, NEW c \in CallId,
                 req'[q].phase = "sent", req'[q].call = c
          PROVE  invocations'[c].status \notin {"completed", "failed"}
      <4>1. CASE q = r
          BY <2>1, <3>1, <4>1
      <4>2. CASE q # r
        <5>1. /\ req[q].phase = "sent" /\ req[q].call = c /\ c # invocationCounter
              /\ invocations'[c] \in {invocations[c], NoInvocation}
            BY <2>1, <3>1, <4>2 DEF CallId
        <5> QED BY <5>1 DEF CallsUnsettled, NoInvocation
      <4> QED BY <4>1, <4>2
    <3>2. ASSUME NEW c \in CallId, invocations'[c] # NoInvocation
          PROVE  c < invocationCounter'
      <4>1. CASE c = invocationCounter
          BY <2>1, <4>1
      <4>2. CASE c # invocationCounter
        <5>1. c < invocationCounter
            BY <2>1, <3>2, <4>2 DEF CallsUnsettled
        <5> QED BY <5>1, <2>1 DEF CallId
      <4> QED BY <4>1, <4>2
    <3> QED BY <3>1, <3>2 DEF CallsUnsettled
  <2>4. Final
    <3>1. \A c \in CallId : c < invocationCounter => c # invocationCounter
        BY <2>1
    <3>2. \A c \in CallId : invocations[c].status \in {"completed", "failed"} =>
                                invocations[c] # NoInvocation
        BY DEF NoInvocation
    <3> QED BY <2>1, <2>2, <3>1, <3>2 DEF Final
  <2> QED BY <2>3, <2>4
<1>3. ASSUME NEW r \in Request, NEW status \in {"completed", "failed"},
             CallSettled(r, status)
      PROVE  CallsUnsettled' /\ Final
  <2>1. /\ req[r].phase = "sent" /\ req'[r].phase = "idle" /\ UNCHANGED invocationCounter
        /\ \A q \in Request \ {r} : req'[q] = req[q] /\ req[q].call # req[r].call
        /\ \A c \in CallId : c # req[r].call => invocations'[c] = invocations[c]
        /\ \A c \in CallId : c = req[r].call /\ invocations[c] = NoInvocation =>
               invocations'[c] = invocations[c]
      BY <1>3, SettledIsOwn DEF CallsNumbered
  <2>2. CallsUnsettled'
      BY <2>1 DEF CallsUnsettled
  <2>3. Final
      BY <2>1 DEF CallsUnsettled, Final
  <2> QED BY <2>2, <2>3
<1> QED BY <1>1, <1>2, <1>3, CallsGoOn

\* An outcome is never overwritten, and what was evicted or removed never comes
\* back when its tool answers: callInstanceTool() settles only its own invocation.
THEOREM OutcomesAreFinal == Spec => OutcomeIsFinal
<1>1. Init => CallsNumbered /\ RunningHasOwner /\ CallsUnsettled
    BY DEF Init, CallsNumbered, RunningHasOwner, CallsUnsettled, Idle, NoInvocation
<1>2. RoomTypes /\ (CallsNumbered /\ RunningHasOwner /\ CallsUnsettled) /\ [Next]_vars
          => (CallsNumbered /\ RunningHasOwner /\ CallsUnsettled)' /\ Final
    BY NumbersKept, OutcomesKept
<1>3. Final => [\A c \in CallId :
          /\ invocations[c].status \in {"completed", "failed"} =>
                 invocations'[c] \in {invocations[c], NoInvocation}
          /\ c < invocationCounter /\ invocations[c] = NoInvocation =>
                 invocations'[c] = NoInvocation]_vars
    BY DEF Final
<1> QED BY <1>1, <1>2, <1>3, RoomIsTyped, PTL DEF Spec, OutcomeIsFinal

-----------------------------------------------------------------------------
(* The evidence list is in order and tells the truth about outcomes.       *)

\* Numbered without a gap up to the counter, in the order of the revisions.
InSequence(list, counter, rev) ==
    \A j \in 1..Len(list) :
        /\ list[j].revision <= rev
        /\ list[j].id = counter - Len(list) + j - 1
        /\ \A k \in 1..j : list[k].revision <= list[j].revision

\* What a record says of an outcome is what the invocation shows.
Truthful(record) ==
    /\ record.call < invocationCounter
    /\ \A c \in CallId :
           record.call = c /\ invocations[c] # NoInvocation =>
               /\ record.event = "rpc_succeeded" => invocations[c].status = "completed"
               /\ record.event = "rpc_failed" => invocations[c].status = "failed"

EvidenceInvariant ==
    /\ evidence \in Seq(Evidence) /\ revision \in Nat /\ evidenceCounter \in Nat
    /\ InSequence(evidence, evidenceCounter, revision)
    /\ \A record \in Elements(evidence) : Truthful(record)

\* appendEvidence() and the commit that follows it.
LEMMA RecordAppended ==
    ASSUME evidence \in Seq(Evidence), revision \in Nat, evidenceCounter \in Nat,
           InSequence(evidence, evidenceCounter, revision),
           NEW event \in EvidenceEvent, NEW inst \in Instance \cup {None}, NEW call \in Nat,
           AppendEvidence(event, inst, call), revision' = revision + 1
    PROVE  /\ evidence' \in Seq(Evidence) /\ evidenceCounter' \in Nat
           /\ InSequence(evidence', evidenceCounter', revision')
           /\ \A record \in Elements(evidence') :
                  record \in Elements(evidence) \/ (record.event = event /\ record.call = call)
<1> DEFINE record == [id |-> evidenceCounter, revision |-> revision + 1,
                      event |-> event, inst |-> inst, call |-> call]
           longer == Append(evidence, record)
           len == Len(evidence)
<1>1. record \in Evidence /\ record.id = evidenceCounter /\ record.revision = revision + 1
      /\ record.event = event /\ record.call = call
    BY DEF Evidence
<1>2. /\ evidence' = Newest(longer, EvidenceHistoryLimit)
      /\ evidenceCounter' = evidenceCounter + 1 /\ EvidenceHistoryLimit \in Nat
    BY StoreAssumption DEF AppendEvidence
<1> HIDE DEF record
<1>3. /\ len \in Nat /\ longer \in Seq(Evidence) /\ Len(longer) = len + 1
      /\ longer[len + 1] = record /\ \A k \in 1..len : longer[k] = evidence[k]
      /\ Elements(longer) = Elements(evidence) \cup {record}
      /\ \A k \in 1..len : evidence[k] \in Evidence
    BY <1>1, AppendProperties, ElementsAppend, LenProperties, ElementOfSeq
<1>4. \A j \in 1..len : /\ evidence[j].revision \in Nat /\ evidence[j].revision <= revision
                        /\ evidence[j].id = evidenceCounter - len + j - 1
                        /\ \A k \in 1..j : evidence[k].revision <= evidence[j].revision
    BY <1>3 DEF InSequence, Evidence
<1> HIDE DEF longer, len
<1>5. \A k \in 1..len + 1 : k = len + 1 \/ k \in 1..len
    BY <1>3
<1>6. ASSUME NEW j \in 1..len + 1
      PROVE  /\ longer[j].revision <= revision + 1
             /\ longer[j].id = evidenceCounter' - (len + 1) + j - 1
             /\ \A k \in 1..j : longer[k].revision <= longer[j].revision
  <2>1. CASE j = len + 1
    <3>1. longer[j] = record
        BY <1>3, <2>1
    <3>2. evidenceCounter' - (len + 1) + j - 1 = evidenceCounter
        BY <1>2, <1>3, <2>1
    <3>3. ASSUME NEW k \in 1..j PROVE longer[k].revision <= revision + 1
      <4>1. CASE k = len + 1
          BY <1>1, <1>3, <4>1
      <4>2. CASE k \in 1..len
          BY <1>3, <1>4, <4>2
      <4> QED BY <1>3, <2>1, <4>1, <4>2
    <3> QED BY <1>1, <3>1, <3>2, <3>3
  <2>2. CASE j \in 1..len
    <3>1. longer[j] = evidence[j] /\ \A k \in 1..j : k \in 1..len /\ longer[k] = evidence[k]
        BY <1>3, <2>2
    <3>2. evidenceCounter' - (len + 1) + j - 1 = evidenceCounter - len + j - 1
        BY <1>2, <1>3
    <3>3. longer[j].revision <= revision + 1
        BY <1>4, <2>2, <3>1
    <3> QED BY <1>4, <2>2, <3>1, <3>2, <3>3
  <2> QED BY <1>5, <2>1, <2>2
<1> DEFINE kept == Newest(longer, EvidenceHistoryLimit)
           off == len + 1 - Len(kept)
<1>a. longer \in Seq(Evidence) /\ EvidenceHistoryLimit \in Nat
    BY <1>2, <1>3
<1>b. kept \in Seq(Evidence) /\ Elements(kept) \subseteq Elements(longer)
    BY <1>a, NewestProperties, ElementsNewest
<1>7. /\ Len(kept) = IF Len(longer) <= EvidenceHistoryLimit THEN Len(longer)
                                                            ELSE EvidenceHistoryLimit
      /\ \A k \in 1..Len(kept) : kept[k] = longer[Len(longer) - Len(kept) + k]
    BY <1>a, NewestProperties, ZenonT(60)
<1> HIDE DEF kept
<1>8. /\ Len(kept) \in Nat /\ off \in Nat
      /\ \A k \in 1..Len(kept) : off + k \in 1..len + 1 /\ kept[k] = longer[off + k]
    BY <1>2, <1>3, <1>7
<1>9. InSequence(kept, evidenceCounter', revision')
  <2>1. ASSUME NEW j \in 1..Len(kept)
        PROVE  /\ kept[j].revision <= revision'
               /\ kept[j].id = evidenceCounter' - Len(kept) + j - 1
               /\ \A k \in 1..j : kept[k].revision <= kept[j].revision
    <3>1. /\ off + j \in 1..len + 1 /\ kept[j] = longer[off + j]
          /\ evidenceCounter' - (len + 1) + (off + j) - 1 = evidenceCounter' - Len(kept) + j - 1
        BY <1>2, <1>3, <1>8
    <3>2. ASSUME NEW k \in 1..j PROVE kept[k] = longer[off + k] /\ off + k \in 1..off + j
        BY <1>8
    <3> HIDE DEF off
    <3> QED BY <1>6, <3>1, <3>2
  <2> QED BY <2>1 DEF InSequence
<1> QED BY <1>1, <1>2, <1>3, <1>b, <1>9 DEF kept

\* Every other step appends a record without an outcome, or none.
LEMMA RecordsElsewhere ==
    ASSUME RoomTypes, EvidenceInvariant, [Next]_vars,
           \A r \in Request :
               ~CallSent(r) /\ \A status \in {"completed", "failed"} : ~CallSettled(r, status)
    PROVE  \/ UNCHANGED evidenceVars /\ revision' \in {revision, revision + 1}
           \/ /\ revision' = revision + 1
              /\ \E event \in {"mount_applied", "host_report"}, inst \in Instance :
                     AppendEvidence(event, inst, 0)
<1>1. ASSUME NEW r \in Request, MountApplied(r)
      PROVE  /\ revision' = revision + 1
             /\ \E event \in {"mount_applied", "host_report"}, inst \in Instance :
                    AppendEvidence(event, inst, 0)
  <2>1. req[r].inst \in Instance
      BY <1>1 DEF MountApplied, RoomTypes
  <2> QED BY <1>1, <2>1 DEF MountApplied, Commit
<1>2. ASSUME NEW i \in Instance, ReportInstanceEvidence(i)
      PROVE  /\ revision' = revision + 1
             /\ \E event \in {"mount_applied", "host_report"}, inst \in Instance :
                    AppendEvidence(event, inst, 0)
    BY <1>2 DEF ReportInstanceEvidence, Commit
<1>3. ASSUME NEW r \in Request, Progress(r), ~MountApplied(r)
      PROVE  UNCHANGED evidenceVars /\ revision' \in {revision, revision + 1}
    BY <1>3 DEF Progress, MountInspected, MountFailed, UnmountReleased, CallAborted,
                feedVars, Commit
<1>4. ASSUME \/ \E r \in Request, i \in Instance, s \in Server : MountBegin(r, i, s)
             \/ \E r \in Request, i \in Instance : UnmountBegin(r, i) \/ CallBegin(r, i)
             \/ \E i \in Instance : UnmountShared(i) \/ Passthrough(i)
             \/ \E i \in Instance, visible \in BOOLEAN : HandleVisibility(i, visible)
             \/ \E i \in Instance \cup {None} : HandleSelect(i)
             \/ \E newOrder \in Arrangements : HandleReorder(newOrder)
             \/ \E newOrder \in Restackings, place \in [Mounted -> Cell] :
                    HandleLayout(newOrder, place)
             \/ \E s \in Server : ConnectSettles(s)
             \/ UNCHANGED vars
      PROVE  UNCHANGED evidenceVars /\ revision' \in {revision, revision + 1}
    BY <1>4 DEF MountBegin, UnmountBegin, CallBegin, UnmountShared, Passthrough,
                HandleVisibility, HandleSelect, HandleReorder, HandleLayout, ConnectSettles,
                feedVars, Commit, vars
<1> QED BY <1>1, <1>2, <1>3, <1>4 DEF Next

LEMMA EvidenceKept ==
    ASSUME RoomTypes, CallsNumbered, CallsBounded, CallsUnsettled, EvidenceInvariant,
           [Next]_vars
    PROVE  EvidenceInvariant'
<1>a. /\ evidence \in Seq(Evidence) /\ revision \in Nat /\ evidenceCounter \in Nat
      /\ InSequence(evidence, evidenceCounter, revision)
      /\ invocationCounter \in Nat \ {0}
    BY DEF EvidenceInvariant, RoomTypes
<1>b. ASSUME NEW record \in Elements(evidence)
      PROVE  record.call \in Nat /\ record.call < invocationCounter /\ Truthful(record)
  <2>1. record \in Evidence
      BY <1>a, <1>b, ElementsTyped
  <2> QED BY <1>b, <2>1 DEF EvidenceInvariant, Truthful, Evidence
\* The list as a whole, after any record.
<1>c. ASSUME NEW event \in EvidenceEvent, NEW inst \in Instance \cup {None}, NEW call \in Nat,
             AppendEvidence(event, inst, call), revision' = revision + 1,
             \A record : record.event = event /\ record.call = call => Truthful(record)',
             \A record \in Elements(evidence) : Truthful(record)'
      PROVE  EvidenceInvariant'
  <2>1. /\ evidence' \in Seq(Evidence) /\ evidenceCounter' \in Nat
        /\ InSequence(evidence', evidenceCounter', revision')
        /\ \A record \in Elements(evidence') :
               record \in Elements(evidence) \/ (record.event = event /\ record.call = call)
      BY <1>a, <1>c, RecordAppended
  <2>2. revision' \in Nat
      BY <1>a, <1>c
  <2> QED BY <1>c, <2>1, <2>2 DEF EvidenceInvariant
\* The list as it was, at this revision or the next.
<1>d. ASSUME UNCHANGED evidenceVars, revision' \in {revision, revision + 1},
             \A record \in Elements(evidence) : Truthful(record)'
      PROVE  EvidenceInvariant'
  <2>a. \A j \in 1..Len(evidence) : evidence[j] \in Evidence
      BY <1>a, ElementOfSeq
  <2>1. \A j \in 1..Len(evidence) : evidence[j].revision \in Nat
      BY <2>a DEF Evidence
  <2>2. InSequence(evidence, evidenceCounter, revision')
      BY <1>a, <1>d, <2>1 DEF InSequence
  <2> QED BY <1>a, <1>d, <2>2 DEF EvidenceInvariant, evidenceVars
<1>1. CASE OnlyDropped /\ UNCHANGED invocationCounter
           /\ \A r \in Request :
                  ~CallSent(r) /\ \A status \in {"completed", "failed"} : ~CallSettled(r, status)
  <2>1. \A record \in Elements(evidence) : Truthful(record)'
      BY <1>1, <1>b DEF OnlyDropped, Truthful
  <2>2. ASSUME NEW record, record.call = 0 PROVE Truthful(record)'
      BY <1>1, <1>a, <2>2 DEF Truthful, CallId
  <2>3. CASE UNCHANGED evidenceVars /\ revision' \in {revision, revision + 1}
      BY <2>1, <2>3, <1>d
  <2>4. ASSUME NEW event \in {"mount_applied", "host_report"}, NEW inst \in Instance,
               AppendEvidence(event, inst, 0), revision' = revision + 1
        PROVE  EvidenceInvariant'
    <3>1. event \in EvidenceEvent /\ inst \in Instance \cup {None} /\ 0 \in Nat
        BY <2>4 DEF EvidenceEvent
    <3> QED BY <2>1, <2>2, <2>4, <3>1, <1>c
  <2> QED BY <1>1, <2>3, <2>4, RecordsElsewhere
<1>2. ASSUME NEW r \in Request, CallSent(r)
      PROVE  EvidenceInvariant'
  <2>1. /\ invocationCounter' = invocationCounter + 1
        /\ \A c \in CallId : c # invocationCounter =>
               invocations'[c] \in {invocations[c], NoInvocation}
        /\ AppendEvidence("rpc_sent", req[r].inst, invocationCounter)
        /\ revision' = revision + 1
      BY <1>2, SentIsNew DEF CallSent, Commit
  <2>2. req[r].inst \in Instance \cup {None} /\ "rpc_sent" \in EvidenceEvent
      BY DEF RoomTypes, Handler, EvidenceEvent
  <2>3. ASSUME NEW record \in Elements(evidence) PROVE Truthful(record)'
    <3>1. record.call # invocationCounter /\ record.call < invocationCounter + 1
        BY <1>a, <1>b
    <3> QED BY <1>b, <2>1, <3>1 DEF Truthful
  <2>4. ASSUME NEW record, record.event = "rpc_sent", record.call = invocationCounter
        PROVE  Truthful(record)'
      BY <1>a, <2>1, <2>4 DEF Truthful
  <2> QED BY <1>a, <1>c, <2>1, <2>2, <2>3, <2>4
<1>3. ASSUME NEW r \in Request, NEW status \in {"completed", "failed"},
             CallSettled(r, status)
      PROVE  EvidenceInvariant'
  <2> DEFINE c == req[r].call
             event == IF status = "completed" THEN "rpc_succeeded" ELSE "rpc_failed"
  <2>1. /\ req[r].phase = "sent" /\ c \in 1..invocationCounter - 1
        /\ UNCHANGED invocationCounter
        /\ \A d \in CallId : d # c => invocations'[d] = invocations[d]
        /\ c \in CallId => invocations[c].status \notin {"completed", "failed"}
      BY <1>3, SettledIsOwn DEF CallsNumbered, CallsUnsettled
  <2>2. CASE invocations[c] = NoInvocation
    <3>1. UNCHANGED <<historyVars, evidenceVars, feedVars>>
        BY <1>3, <2>2 DEF CallSettled
    <3>2. \A record \in Elements(evidence) : Truthful(record)'
        BY <3>1, <1>b DEF historyVars, Truthful
    <3> QED BY <3>1, <3>2, <1>d DEF feedVars
  <2>3. CASE invocations[c] # NoInvocation
    <3>1. /\ AppendEvidence(event, invocations[c].inst, c) /\ revision' = revision + 1
          /\ c \in CallId => invocations'[c].status = status
        BY <1>3, <2>3, SettledIsOwn DEF CallSettled, Commit
    <3>2. ASSUME NEW record \in Elements(evidence) PROVE Truthful(record)'
      <4>1. c \in CallId /\ record.call = c =>
                record.event \notin {"rpc_succeeded", "rpc_failed"}
          BY <1>b, <2>1, <2>3 DEF Truthful
      <4> QED BY <1>b, <2>1, <4>1 DEF Truthful
    <3>3. ASSUME NEW record, record.event = event, record.call = c
          PROVE  Truthful(record)'
        BY <2>1, <3>1, <3>3, <1>a DEF Truthful
    <3>4. event \in EvidenceEvent /\ c \in Nat
        BY <2>1, <1>a DEF EvidenceEvent
    <3>5. invocations[c].inst \in Instance \cup {None}
        BY <2>1 DEF CallsBounded, RoomTypes, Invocation, NoInvocation
    <3> QED BY <1>c, <3>1, <3>2, <3>3, <3>4, <3>5
  <2> QED BY <2>2, <2>3
<1> QED BY <1>1, <1>2, <1>3, CallsGoOn

\* What a call needs to know of the other calls and of what is recorded.
CallInvariant == CallsNumbered /\ RunningHasOwner /\ CallsUnsettled /\ CallsBounded

LEMMA CallInvariantInit == Init => CallInvariant
<1> SUFFICES ASSUME Init PROVE CallInvariant
    OBVIOUS
<1>1. \A q \in Request : req[q].phase = "idle" /\ req[q].call = 0
    BY DEF Init, Idle
<1>2. IsFiniteSet(CallsConnecting) /\ Cardinality(CallsConnecting) = 0
  <2>1. CallsConnecting = {}
      BY <1>1 DEF CallsConnecting
  <2> QED BY <2>1, FS_EmptySet
<1>3. CallsBounded
    BY <1>1, <1>2, StoreAssumption DEF Init, CallsBounded
<1>4. CallsNumbered /\ RunningHasOwner /\ CallsUnsettled
    BY <1>1 DEF Init, CallsNumbered, RunningHasOwner, CallsUnsettled, NoInvocation
<1> QED BY <1>3, <1>4 DEF CallInvariant

LEMMA CallInvariantKept == RoomTypes /\ CallInvariant /\ [Next]_vars => CallInvariant'
BY NumbersKept, OutcomesKept, BoundKept DEF CallInvariant

LEMMA EvidenceInit == Init => EvidenceInvariant
<1> DEFINE first == [id |-> 1, revision |-> 0, event |-> "room_created",
                     inst |-> None, call |-> 0]
<1> SUFFICES ASSUME Init PROVE EvidenceInvariant
    OBVIOUS
<1>1. /\ evidence = Newest(<<first>>, EvidenceHistoryLimit) /\ evidenceCounter = 2
      /\ revision = 0 /\ invocationCounter = 1 /\ EvidenceHistoryLimit \in Nat
    BY StoreAssumption DEF Init
<1>2. first \in Evidence /\ first.id = 1 /\ first.revision = 0 /\ first.call = 0
    BY DEF Evidence, EvidenceEvent
<1> HIDE DEF first
<1>3. <<first>> \in Seq(Evidence) /\ Len(<<first>>) = 1 /\ <<first>>[1] = first
    BY <1>2
<1>4. /\ evidence \in Seq(Evidence) /\ Len(evidence) \in {0, 1}
      /\ \A k \in 1..Len(evidence) : evidence[k] = first
  <2>1. /\ evidence \in Seq(Evidence)
        /\ Len(evidence) = IF Len(<<first>>) <= EvidenceHistoryLimit
                           THEN Len(<<first>>) ELSE EvidenceHistoryLimit
        /\ \A k \in 1..Len(evidence) :
               evidence[k] = <<first>>[Len(<<first>>) - Len(evidence) + k]
      BY <1>1, <1>3, NewestProperties
  <2>2. Len(evidence) \in {0, 1}
      BY <1>1, <1>3, <2>1
  <2> QED BY <1>3, <2>1, <2>2
<1>5. InSequence(evidence, evidenceCounter, revision)
    BY <1>1, <1>2, <1>4 DEF InSequence
<1>6. \A record \in Elements(evidence) : Truthful(record)
  <2>1. \A record \in Elements(evidence) : record = first
      BY <1>4 DEF Elements
  <2> QED BY <1>1, <1>2, <2>1 DEF Truthful, CallId
<1> QED BY <1>1, <1>4, <1>5, <1>6 DEF EvidenceInvariant

LEMMA EvidenceHolds == Spec => [](CallInvariant /\ EvidenceInvariant)
<1>1. RoomTypes /\ (CallInvariant /\ EvidenceInvariant) /\ [Next]_vars
          => (CallInvariant /\ EvidenceInvariant)'
    BY CallInvariantKept, EvidenceKept DEF CallInvariant
<1> QED BY <1>1, CallInvariantInit, EvidenceInit, RoomIsTyped, PTL DEF Spec

\* The evidence list has no gap, never runs ahead of the room, and tells of no
\* outcome that its invocation does not have, whatever is trimmed or removed
\* between a call and its answer.
THEOREM EvidenceIsConsistent == Spec => []EvidenceConsistent
<1>1. EvidenceInvariant => EvidenceConsistent
  <2> SUFFICES ASSUME EvidenceInvariant PROVE EvidenceConsistent
      OBVIOUS
  <2>1. \A j \in 1..Len(evidence) : Truthful(evidence[j])
      BY DEF EvidenceInvariant, Elements
  <2> QED BY <2>1 DEF EvidenceInvariant, InSequence, Truthful, EvidenceConsistent
<1> QED BY <1>1, EvidenceHolds, PTL

-----------------------------------------------------------------------------
(* The types of the histories need their invariants.                       *)

HistoryInvariant == events \in Seq(Nat) /\ invocationOrder \in Seq(CallId)

LEMMA HistoriesKept ==
    ASSUME RoomTypes, CallsBounded, EvidenceInvariant, HistoryInvariant, [Next]_vars
    PROVE  HistoryInvariant'
<1>1. events' \in Seq(Nat)
  <2>1. revision + 1 \in Nat /\ Append(events, revision + 1) \in Seq(Nat)
      BY AppendProperties DEF EvidenceInvariant, HistoryInvariant
  <2>2. Newest(Append(events, revision + 1), EventWindowSize) \in Seq(Nat)
      BY <2>1, NewestProperties, StoreAssumption
  <2>3. events' = Newest(Append(events, revision + 1), EventWindowSize) \/ UNCHANGED events
      BY FeedStep DEF Feed!Publish, Feed!windowVars, Feed!Newest, Newest
  <2> QED BY <2>2, <2>3 DEF HistoryInvariant
<1>2. ASSUME NEW r \in Request, CallSent(r)
      PROVE  invocationOrder' \in Seq(CallId)
  <2>1. Append(invocationOrder, invocationCounter) \in Seq(CallId)
      BY <1>2, SentInBounds, AppendProperties DEF HistoryInvariant
  <2>2. InvocationsAfter(invocationCounter) \in Seq(CallId)
      BY <2>1, NewestProperties, StoreAssumption DEF InvocationsAfter
  <2> QED BY <1>2, <2>2 DEF CallSent
<1>3. ASSUME NEW i, DropInvocations(i)
      PROVE  invocationOrder' \in Seq(CallId)
    BY <1>3, WithoutElements DEF DropInvocations, HistoryInvariant
<1>4. ASSUME UNCHANGED invocationOrder
      PROVE  invocationOrder' \in Seq(CallId)
    BY <1>4 DEF HistoryInvariant
<1>5. ASSUME NEW r \in Request, Progress(r), ~CallSent(r)
      PROVE  invocationOrder' \in Seq(CallId)
    BY <1>3, <1>4, <1>5 DEF Progress, MountInspected, MountApplied, MountFailed,
                UnmountReleased, CallAborted, CallSettled, Settle, historyVars
<1>6. ASSUME NEW i \in Instance, UnmountShared(i)
      PROVE  invocationOrder' \in Seq(CallId)
    BY <1>3, <1>6 DEF UnmountShared
<1>7. ASSUME \/ \E r \in Request, i \in Instance, s \in Server : MountBegin(r, i, s)
             \/ \E r \in Request, i \in Instance : UnmountBegin(r, i) \/ CallBegin(r, i)
             \/ \E i \in Instance : ReportInstanceEvidence(i) \/ Passthrough(i)
             \/ \E i \in Instance, visible \in BOOLEAN : HandleVisibility(i, visible)
             \/ \E i \in Instance \cup {None} : HandleSelect(i)
             \/ \E newOrder \in Arrangements : HandleReorder(newOrder)
             \/ \E newOrder \in Restackings, place \in [Mounted -> Cell] :
                    HandleLayout(newOrder, place)
             \/ \E s \in Server : ConnectSettles(s)
             \/ UNCHANGED vars
      PROVE  UNCHANGED invocationOrder
    BY <1>7 DEF MountBegin, UnmountBegin, CallBegin, ReportInstanceEvidence, Passthrough,
                HandleVisibility, HandleSelect, HandleReorder, HandleLayout, ConnectSettles,
                historyVars, vars
<1>8. invocationOrder' \in Seq(CallId)
    BY <1>2, <1>4, <1>5, <1>6, <1>7 DEF Next
<1> QED BY <1>1, <1>8 DEF HistoryInvariant

\* Type correctness of the whole room, its lists included.
THEOREM TypesHold == Spec => []TypeOK
<1>1. Init => HistoryInvariant
    BY EmptySeq DEF Init, HistoryInvariant
<1>2. RoomTypes /\ (CallInvariant /\ EvidenceInvariant) /\ HistoryInvariant /\ [Next]_vars
          => HistoryInvariant'
    BY HistoriesKept DEF CallInvariant
<1>3. Init => OrderInvariant
    BY ElementsEmpty, EmptySeq DEF Init, OrderInvariant, OrderCoversMounts, Mounted
<1>4. RoomTypes /\ OrderInvariant /\ [Next]_vars => OrderInvariant'
    BY OrderKept
<1>5. RoomTypes /\ CallInvariant /\ EvidenceInvariant /\ HistoryInvariant /\ OrderInvariant
          => TypeOK
    BY DEF TypeOK, HistoryTypes, CallInvariant, CallsBounded, EvidenceInvariant,
           HistoryInvariant, OrderInvariant
<1> QED BY <1>1, <1>2, <1>3, <1>4, <1>5, RoomIsTyped, EvidenceHolds, PTL DEF Spec

-----------------------------------------------------------------------------
(* Sessions and client capabilities are those of the mounted servers, as   *)
(* long as no two mounts are in flight at once.                            *)

SerialMounts == \A q, r \in MountSlot : q = r

Mounting == {q \in Request : req[q].phase \in {"inspecting", "attaching"}}

\* A mount in flight uses its slot, its instance is not mounted, and if it found
\* no session there still is none while its configuration is staged.
MountsInFlight ==
    \A q \in Mounting :
        /\ q \in MountSlot
        /\ req[q].inst \notin Mounted
        /\ ~req[q].had => req[q].server \notin sessions /\ req[q].server \in configured

SessionInvariant == SessionBookkeeping /\ MountsInFlight

SameMounts ==
    /\ Mounting' = Mounting
    /\ \A q \in Mounting : /\ req'[q].inst = req[q].inst
                           /\ req'[q].server = req[q].server
                           /\ req'[q].had = req[q].had

\* Steps that leave the mounts in flight alone.
LEMMA MountsGoOn ==
    ASSUME RoomTypes, [Next]_vars,
           \A r \in Request : ~MountApplied(r) /\ ~MountFailed(r),
           \A r \in Request, i \in Instance, s \in Server : ~MountBegin(r, i, s)
    PROVE  SameMounts
<1>a. HandlersTyped
    BY DEF RoomTypes, HandlersTyped
<1>b. ASSUME UNCHANGED req PROVE SameMounts
    BY <1>b DEF SameMounts, Mounting
<1>c. ASSUME NEW r \in Request \ Mounting, NEW h \in Handler, req' = [req EXCEPT ![r] = h],
             h.phase \notin {"inspecting", "attaching"}
      PROVE  SameMounts
    BY <1>c, <1>a DEF SameMounts, Mounting, HandlersTyped
<1>d. ASSUME NEW handlers \in [Request -> Handler],
             \A q \in Request :
                 /\ handlers[q].phase \in {"inspecting", "attaching"} <=> q \in Mounting
                 /\ q \in Mounting => handlers[q] = req[q],
             NEW s, NEW outcome \in Wait, req' = Detached(handlers, s, outcome)
      PROVE  SameMounts
    BY <1>d, DetachedRequests DEF SameMounts, Mounting
<1>1. ASSUME NEW r \in Request, Progress(r)
      PROVE  SameMounts
  <2>a. Idle \in Handler /\ Idle.phase \notin {"inspecting", "attaching"}
      BY NullTypes
  <2>b. req[r] \in Handler
      BY <1>a DEF HandlersTyped
  <2>1. CASE MountInspected(r)
      BY <2>1, <1>a, <2>b DEF MountInspected, SameMounts, Mounting, HandlersTyped, Handler
  <2>2. CASE UnmountReleased(r) \/ CallAborted(r)
            \/ \E status \in {"completed", "failed"} : CallSettled(r, status)
      BY <2>2, <2>a, <1>c DEF UnmountReleased, CallAborted, CallSettled, Mounting
  <2>3. CASE CallSent(r)
    <3> DEFINE h == [req[r] EXCEPT !.phase = "sent", !.call = invocationCounter,
                                   !.wait = "none"]
    <3>1. h \in Handler /\ h.phase = "sent"
        BY <2>b DEF Handler, Phase, Wait, RoomTypes
    <3>2. req' = [req EXCEPT ![r] = h] /\ r \notin Mounting
        BY <2>3, <1>a DEF CallSent, Mounting, HandlersTyped
    <3> HIDE DEF h
    <3> QED BY <3>1, <3>2, <1>c
  <2> QED BY <1>1, <2>1, <2>2, <2>3 DEF Progress
<1>2. ASSUME NEW r \in Request, NEW i \in Instance, CallBegin(r, i)
      PROVE  SameMounts
  <2> DEFINE h == [Idle EXCEPT !.phase = "connecting", !.inst = i,
                               !.server = mounts[i].server, !.wait = "cached"]
  <2>1. h \in Handler /\ h.phase = "connecting"
      BY <1>2, MountedServer DEF CallBegin, Idle, Handler, Phase, Wait
  <2>2. r \notin Mounting /\ req' = [req EXCEPT ![r] = h]
      BY <1>2 DEF CallBegin, FreeSlot, Mounting
  <2> HIDE DEF h
  <2> QED BY <2>1, <2>2, <1>c
<1>3. ASSUME NEW r \in Request, NEW i \in Instance, UnmountBegin(r, i)
      PROVE  SameMounts
  <2> DEFINE h == [Idle EXCEPT !.phase = "releasing", !.inst = i,
                               !.server = mounts[i].server]
             left == [req EXCEPT ![r] = h]
  <2>1. h \in Handler /\ h.phase = "releasing" /\ r \notin Mounting
      BY <1>3, MountedServer DEF UnmountBegin, FreeSlot, Mounting, Idle, Handler, Phase, Wait
  <2>2. "dropped" \in Wait /\ req' = Detached(left, mounts[i].server, "dropped")
      BY <1>3 DEF UnmountBegin, Wait
  <2> HIDE DEF h
  <2>3. /\ left \in [Request -> Handler]
        /\ \A q \in Request :
               /\ left[q].phase \in {"inspecting", "attaching"} <=> q \in Mounting
               /\ q \in Mounting => left[q] = req[q]
      BY <2>1, <1>a DEF HandlersTyped, Mounting
  <2> HIDE DEF left
  <2> QED BY <2>2, <2>3, <1>d
<1>4. ASSUME NEW s \in Server, ConnectSettles(s)
      PROVE  SameMounts
  <2>1. UNCHANGED req \/ req' = Detached(req, s, "failed")
      BY <1>4 DEF ConnectSettles
  <2>2. "failed" \in Wait
      BY DEF Wait
  <2> QED BY <2>1, <2>2, <1>a, <1>b, <1>d DEF HandlersTyped, Mounting
<1>5. ASSUME \/ \E i \in Instance :
                   UnmountShared(i) \/ ReportInstanceEvidence(i) \/ Passthrough(i)
             \/ \E i \in Instance, visible \in BOOLEAN : HandleVisibility(i, visible)
             \/ \E i \in Instance \cup {None} : HandleSelect(i)
             \/ \E newOrder \in Arrangements : HandleReorder(newOrder)
             \/ \E newOrder \in Restackings, place \in [Mounted -> Cell] :
                    HandleLayout(newOrder, place)
             \/ UNCHANGED vars
      PROVE  SameMounts
    BY <1>5, <1>b DEF UnmountShared, ReportInstanceEvidence, Passthrough, HandleVisibility,
                      HandleSelect, HandleReorder, HandleLayout, vars
<1> QED BY <1>1, <1>2, <1>3, <1>4, <1>5 DEF Next

Staged == {req[q].server : q \in {p \in Mounting : ~req[p].had}}

LEMMA BookkeepingParts ==
    SessionBookkeeping <=> /\ sessions = {mounts[i].server : i \in Mounted}
                           /\ sessions \subseteq configured
                           /\ configured \subseteq sessions \cup Staged
BY DEF SessionBookkeeping, Staged, Mounting

\* Steps that touch neither sessions nor the servers of mounted instances.
LEMMA SessionsLeftAlone ==
    ASSUME SessionInvariant, SameMounts, UNCHANGED <<sessions, configured>>,
           Mounted' = Mounted, \A i \in Mounted : mounts'[i].server = mounts[i].server
    PROVE  SessionInvariant'
<1>1. Staged' = Staged
    BY DEF Staged, SameMounts
<1>2. {mounts[i].server : i \in Mounted}' = {mounts[i].server : i \in Mounted}
    OBVIOUS
<1>3. SessionBookkeeping'
    BY <1>1, <1>2, BookkeepingParts DEF SessionInvariant, SessionBookkeeping, Staged, Mounting
<1>4. MountsInFlight'
    BY DEF SessionInvariant, MountsInFlight, SameMounts
<1> QED BY <1>3, <1>4 DEF SessionInvariant

LEMMA MountBeginKeepsSessions ==
    ASSUME RoomTypes, SessionInvariant, NEW r \in Request, NEW i \in Instance,
           NEW s \in Server, MountBegin(r, i, s)
    PROVE  SessionInvariant'
<1>1. /\ r \in MountSlot /\ r \notin Mounting /\ i \notin Mounted
      /\ req' = [req EXCEPT ![r] = [phase |-> "inspecting", inst |-> i, server |-> s,
                                    had |-> s \in sessions, call |-> 0, wait |-> "cached"]]
      /\ configured' = configured \cup (IF s \in sessions THEN {} ELSE {s})
      /\ UNCHANGED <<mounts, sessions>>
    BY DEF MountBegin, FreeSlot, Mounting, roomVars
<1>2. /\ Mounting' = Mounting \cup {r}
      /\ \A q \in Mounting : req'[q] = req[q]
      /\ req'[r].server = s /\ req'[r].inst = i /\ (~req'[r].had => s \notin sessions)
      /\ s \notin sessions => ~req'[r].had
    BY <1>1 DEF RoomTypes, Mounting
<1>3. Mounted' = Mounted
    BY <1>1 DEF Mounted
<1>4. Staged \subseteq Staged' /\ (s \notin sessions => s \in Staged')
  <2>1. Staged \subseteq Staged'
      BY <1>1, <1>2 DEF Staged
  <2>2. ASSUME s \notin sessions PROVE s \in Staged'
      <3>1. r \in Mounting' /\ ~req'[r].had /\ s = req'[r].server
          BY <1>2, <2>2
      <3> QED BY <3>1 DEF Staged
  <2> QED BY <2>1, <2>2
<1>5. SessionBookkeeping'
  <2>1. sessions' = {mounts'[j].server : j \in Mounted'}
      BY <1>1, <1>3 DEF SessionInvariant, SessionBookkeeping
  <2>2. sessions' \subseteq configured' /\ configured' \subseteq sessions' \cup Staged'
      BY <1>1, <1>4, BookkeepingParts DEF SessionInvariant
  <2> QED BY <2>1, <2>2 DEF SessionBookkeeping, Staged, Mounting
<1>6. ASSUME NEW q \in Mounting'
      PROVE  /\ q \in MountSlot /\ req'[q].inst \notin Mounted'
             /\ ~req'[q].had => req'[q].server \notin sessions'
                               /\ req'[q].server \in configured'
  <2>1. CASE q = r
      BY <2>1, <1>1, <1>2, <1>3
  <2>2. CASE q # r
    <3>1. q \in Mounting /\ req'[q] = req[q]
        BY <2>2, <1>2
    <3> QED BY <3>1, <1>1, <1>3 DEF SessionInvariant, MountsInFlight
  <2> QED BY <2>1, <2>2
<1> QED BY <1>5, <1>6 DEF SessionInvariant, MountsInFlight

\* With one mount in flight, its end leaves none.
LEMMA MountEnds ==
    ASSUME SerialMounts, RoomTypes, MountsInFlight, NEW r \in Mounting,
           NEW s, \/ req' = [req EXCEPT ![r] = Idle]
                  \/ req' = Detached([req EXCEPT ![r] = Idle], s, "dropped")
    PROVE  Mounting' = {} /\ Staged' = {} /\ Staged \subseteq {req[r].server}
<1>1. Mounting = {r}
    BY DEF SerialMounts, MountsInFlight
<1> DEFINE left == [req EXCEPT ![r] = Idle]
<1>2. left \in [Request -> Handler] /\ "dropped" \in Wait
      /\ \A q \in Request : left[q].phase \notin {"inspecting", "attaching"}
    BY <1>1, NullTypes DEF RoomTypes, Mounting, Wait
<1>3. req' = left \/ req' = Detached(left, s, "dropped")
    OBVIOUS
<1> HIDE DEF left
<1>4. Mounting' = {}
    BY <1>2, <1>3, DetachedRequests DEF Mounting
<1> QED BY <1>1, <1>4 DEF Staged

LEMMA MountEndKeepsSessions ==
    ASSUME SerialMounts, RoomTypes, SessionInvariant, NEW r \in Request,
           MountApplied(r) \/ MountFailed(r)
    PROVE  SessionInvariant'
<1> DEFINE i == req[r].inst
           s == req[r].server
<1>1. r \in Mounting /\ i \in Instance /\ s \in Server
    BY DEF MountApplied, MountFailed, Mounting, RoomTypes
<1>2. /\ \/ req' = [req EXCEPT ![r] = Idle]
         \/ req' = Detached([req EXCEPT ![r] = Idle], s, "dropped")
    BY DEF MountApplied, MountFailed
<1>3. Mounting' = {} /\ Staged' = {} /\ Staged \subseteq {s}
    BY <1>1, <1>2, MountEnds DEF SessionInvariant
<1>4. i \notin Mounted /\ (~req[r].had => s \notin sessions /\ s \in configured)
    BY <1>1 DEF SessionInvariant, MountsInFlight
<1>5. CASE MountApplied(r)
  <2>1. /\ sessions' = sessions \cup {s}
        /\ configured' = configured \cup (IF req[r].had THEN {s} ELSE {})
        /\ \E cell \in Cell : mounts' = [mounts EXCEPT ![i] =
                                [server |-> s, visible |-> TRUE, container |-> cell]]
      BY <1>5 DEF MountApplied
  <2>2. Mounted' = Mounted \cup {i} /\ mounts'[i].server = s
        /\ \A j \in Mounted : mounts'[j] = mounts[j]
      BY <2>1, <1>1, <1>4, NullTypes DEF RoomTypes, Mounted, NotMounted
  <2>3. sessions' = {mounts'[j].server : j \in Mounted'}
      BY <2>1, <2>2 DEF SessionInvariant, SessionBookkeeping
  <2>4. sessions' \subseteq configured' /\ configured' \subseteq sessions'
      BY <2>1, <1>3, <1>4, BookkeepingParts DEF SessionInvariant
  <2> QED BY <2>3, <2>4, <1>3 DEF SessionInvariant, SessionBookkeeping, MountsInFlight
<1>6. CASE MountFailed(r)
  <2>1. /\ UNCHANGED mounts /\ Mounted' = Mounted
        /\ \/ req[r].had /\ UNCHANGED <<sessions, configured>>
           \/ ~req[r].had /\ sessions' = sessions \ {s} /\ configured' = configured \ {s}
      BY <1>6 DEF MountFailed, ForgetServer, sessionVars, roomVars, Mounted
  <2>2. sessions' = sessions
      BY <2>1, <1>4
  <2>3. sessions' = {mounts'[j].server : j \in Mounted'}
      BY <2>1, <2>2 DEF SessionInvariant, SessionBookkeeping
  <2>4. req[r].had => Staged = {}
    <3>1. Mounting = {r}
        BY <1>1 DEF SerialMounts, SessionInvariant, MountsInFlight
    <3> QED BY <3>1 DEF Staged
  <2>5. sessions' \subseteq configured' /\ configured' \subseteq sessions'
      BY <2>1, <2>2, <2>4, <1>3, <1>4, BookkeepingParts DEF SessionInvariant
  <2> QED BY <2>3, <2>5, <1>3 DEF SessionInvariant, SessionBookkeeping, MountsInFlight
<1> QED BY <1>5, <1>6

\* What an unmount does to the sessions, whether or not it gives one up.
LEMMA UnmountKeepsSessions ==
    ASSUME RoomTypes, SessionInvariant, SameMounts, NEW i \in Mounted, RemoveInstance(i),
           \/ UNCHANGED <<sessions, configured>> /\ MountedOn(mounts[i].server) # {i}
           \/ ForgetServer(mounts[i].server) /\ MountedOn(mounts[i].server) = {i}
    PROVE  SessionInvariant'
<1> DEFINE s == mounts[i].server
<1>a. i \in Instance /\ s \in Server
    BY MountedServer DEF Mounted
<1>1. Mounted' = Mounted \ {i} /\ \A j \in Mounted' : mounts'[j] = mounts[j]
    BY <1>a DEF RemoveInstance, Mounted, RoomTypes
<1>2. Staged' = Staged
    BY DEF Staged, SameMounts
<1>3. \A j \in MountedOn(s) : j \in Mounted
    BY <1>a, NullTypes DEF MountedOn, Mounted
<1>4. sessions' = {mounts'[j].server : j \in Mounted'}
  <2>1. CASE UNCHANGED sessions /\ MountedOn(s) # {i}
    <3>1. PICK j \in MountedOn(s) : j # i
        BY <2>1, <1>a DEF MountedOn
    <3>2. j \in Mounted' /\ mounts'[j].server = s
        BY <3>1, <1>1, <1>3 DEF MountedOn
    <3> QED BY <2>1, <3>2, <1>1 DEF SessionInvariant, SessionBookkeeping
  <2>2. CASE sessions' = sessions \ {s} /\ MountedOn(s) = {i}
    <3>1. \A j \in Mounted' : mounts'[j].server # s
        BY <2>2, <1>1 DEF MountedOn, Mounted
    <3> QED BY <2>2, <3>1, <1>1 DEF SessionInvariant, SessionBookkeeping
  <2> QED BY <2>1, <2>2 DEF ForgetServer
<1>5. s \notin Staged
    BY DEF Staged, SessionInvariant, SessionBookkeeping, MountsInFlight, Mounting
<1>6. sessions' \subseteq configured' /\ configured' \subseteq sessions' \cup Staged'
    BY <1>2, <1>5, BookkeepingParts DEF SessionInvariant, ForgetServer
<1>7. SessionBookkeeping'
    BY <1>4, <1>6 DEF SessionBookkeeping, Staged, Mounting
<1>8. MountsInFlight'
    BY <1>1, <1>5 DEF SessionInvariant, MountsInFlight, SameMounts, ForgetServer, Staged
<1> QED BY <1>7, <1>8 DEF SessionInvariant

LEMMA SessionInvariantKept ==
    ASSUME SerialMounts, RoomTypes, SessionInvariant, [Next]_vars
    PROVE  SessionInvariant'
<1>1. CASE \E r \in Request : MountApplied(r) \/ MountFailed(r)
    BY <1>1, MountEndKeepsSessions
<1>2. CASE \E r \in Request, i \in Instance, s \in Server : MountBegin(r, i, s)
    BY <1>2, MountBeginKeepsSessions
<1> SUFFICES ASSUME \A r \in Request : ~MountApplied(r) /\ ~MountFailed(r),
                    \A r \in Request, i \in Instance, s \in Server : ~MountBegin(r, i, s)
             PROVE  SessionInvariant'
    BY <1>1, <1>2
<1>3. SameMounts
    BY MountsGoOn
<1>4. ASSUME NEW i \in Instance, UnmountShared(i) \/ \E r \in Request : UnmountBegin(r, i)
      PROVE  SessionInvariant'
    BY <1>3, <1>4, UnmountKeepsSessions DEF UnmountShared, UnmountBegin, sessionVars
<1>5. ASSUME NEW i \in Instance, NEW visible \in BOOLEAN, HandleVisibility(i, visible)
      PROVE  SessionInvariant'
  <2>1. mounts[i] \in Mount
      BY <1>5, MountedServer DEF HandleVisibility
  <2>2. [mounts[i] EXCEPT !.visible = visible] \in Mount
        /\ [mounts[i] EXCEPT !.visible = visible].server = mounts[i].server
      BY <2>1 DEF Mount
  <2>3. Mounted' = Mounted /\ \A j \in Mounted : mounts'[j].server = mounts[j].server
      BY <1>5, <2>1, <2>2, NullTypes DEF HandleVisibility, Mounted, RoomTypes
  <2> QED BY <1>3, <1>5, <2>3, SessionsLeftAlone DEF HandleVisibility, sessionVars
<1>6. ASSUME NEW newOrder \in Restackings, NEW place \in [Mounted -> Cell],
             HandleLayout(newOrder, place)
      PROVE  SessionInvariant'
  <2>1. \A i \in Mounted : mounts[i] \in Mount
      BY MountedServer DEF Mounted
  <2>2. \A i \in Mounted : [mounts[i] EXCEPT !.container = place[i]] \in Mount
                           /\ [mounts[i] EXCEPT !.container = place[i]].server = mounts[i].server
      BY <2>1 DEF Mount
  <2>3. Mounted' = Mounted /\ \A j \in Mounted : mounts'[j].server = mounts[j].server
      BY <1>6, <2>1, <2>2, NullTypes DEF HandleLayout, Mounted
  <2> QED BY <1>3, <1>6, <2>3, SessionsLeftAlone DEF HandleLayout, sessionVars
<1>7. ASSUME \/ \E r \in Request : Progress(r)
             \/ \E r \in Request, i \in Instance : CallBegin(r, i)
             \/ \E i \in Instance : ReportInstanceEvidence(i) \/ Passthrough(i)
             \/ \E i \in Instance \cup {None} : HandleSelect(i)
             \/ \E newOrder \in Arrangements : HandleReorder(newOrder)
             \/ \E s \in Server : ConnectSettles(s)
             \/ UNCHANGED vars
      PROVE  SessionInvariant'
  <2>1. UNCHANGED <<mounts, sessions, configured>>
      BY <1>7 DEF Progress, MountInspected, UnmountReleased, CallSent, CallAborted,
                  CallSettled, CallBegin, ReportInstanceEvidence, Passthrough, HandleSelect,
                  HandleReorder, ConnectSettles, roomVars, sessionVars, vars
  <2> QED BY <1>3, <2>1, SessionsLeftAlone DEF Mounted
<1> QED BY <1>4, <1>5, <1>6, <1>7 DEF Next

\* With mounts one at a time, the sessions a room keeps are those of the servers
\* it shows, each with its capabilities; RoomSharedServer shows that the
\* assumption is needed.
THEOREM SessionsAreThoseOfMounts ==
    ASSUME SerialMounts
    PROVE  Spec => []SessionBookkeeping
<1>1. Init => SessionInvariant
    BY DEF Init, SessionInvariant, SessionBookkeeping, MountsInFlight, Mounting, Mounted, Idle
<1>2. RoomTypes /\ SessionInvariant /\ [Next]_vars => SessionInvariant'
    BY SessionInvariantKept
<1>3. SessionInvariant => SessionBookkeeping
    BY DEF SessionInvariant
<1> QED BY <1>1, <1>2, <1>3, RoomIsTyped, PTL DEF Spec

=============================================================================
