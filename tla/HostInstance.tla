---------------------------- MODULE HostInstance ----------------------------
(***************************************************************************)
(* The tile of one instance on the host's canvas (apps/host-web/src/       *)
(* room-canvas/room-app-instance.tsx): a React component whose mount       *)
(* effect fetches the UI resource, loads a sandbox frame, connects a       *)
(* bridge to it, delivers the resource and reports evidence, with an await *)
(* at each step, and whose clean-up may run at any of them.                *)
(*                                                                         *)
(* An effect starts when the tile appears or its uiResourceUri changes, so *)
(* at most once in a life of the instance: effects, frames and components  *)
(* are named by the life in which they begin.  React may skip a state: an  *)
(* unmount and a mount that arrive together are one change of props.       *)
(***************************************************************************)
EXTENDS Assurance

VARIABLES
    shown,      \* the life whose mount is rendered, 0 if there is no tile
    shownUri,   \* its uiResourceUri
    shownCall,  \* the invocation that is passed to the tile
    tile,       \* the life in which the component was created
    frame,      \* the life in which its iframe was created, 0 if it has none
    src,        \* the iframe: no src yet, loading, or its proxy has announced itself
    app,        \* the effect whose resource runs in the frame, 0 if none
    appUp,      \* whether that app has signalled its initialization
    effect,     \* the effect that has not been cleaned up, 0 if none
    setup,      \* where the setup() of each effect is
    frameOf,    \* the iframe each setup() works on
    late,       \* effects cleaned up between their bridge and its entry in the ref
    bridge,     \* the bridge of each effect
    inbox,      \* what each bridge has been told to send to its app
    bridgeRef, themeRef,        \* appBridgeRef, themeUnsubscribeRef
    themes,     \* effects whose theme listener is registered
    ready,      \* bridgeReady
    sentInput, sentResult,      \* the refs of the same names, 0 for null
    posts       \* lifecycle reports under way to roomd

tileVars == <<shown, shownUri, shownCall, tile, frame, effect, late>>
frameVars == <<src, app, appUp>>
refVars == <<bridgeRef, themeRef, ready, sentInput, sentResult>>
hostVars == <<tileVars, frameVars, refVars, setup, frameOf, bridge, inbox, themes, posts>>

-----------------------------------------------------------------------------
Step == {"none", "fetching", "loading", "asking", "connecting", "connected",
         "delivered", "done", "stopped", "failed"}

\* From the bridge to the ref nothing looks at `disposed`.
Unchecked == {"connecting", "connected", "delivered"}
Post(event, l) == [event |-> event, life |-> l]
Posts == [event : HostEvent, life : Life]

-----------------------------------------------------------------------------
(* Faulty variants; PROJECT.json names them as mutants.                    *)

CleanUp_KeepsBridge ==
    /\ late' = IF setup[effect] \in Unchecked THEN late \cup {effect} ELSE late
    /\ themes' = themes \ {themeRef}
    /\ UNCHANGED bridge

Forwarded_OneAtATime(last, ref, now) ==
    LET new == sentInput # last.id
        settled == last.status \in {"completed", "failed"} /\ sentResult # last.id IN
    IF ~now \/ ref = 0 \/ last.id = 0
    THEN [input |-> sentInput, result |-> sentResult, sent |-> <<>>]
    ELSE IF new THEN [input |-> last.id, result |-> 0,
                      sent |-> <<[kind |-> "input", id |-> last.id]>>]
    ELSE [input |-> sentInput, result |-> IF settled THEN last.id ELSE sentResult,
          sent |-> IF settled THEN <<[kind |-> "outcome", id |-> last.id]>> ELSE <<>>]

OpenOn_ClosedToo(f) == {l \in Life : bridge[l] # "none" /\ frameOf[l] = f}

-----------------------------------------------------------------------------
(* Pieces of the component.                                                *)

\* The bridges that listen to the window of a frame.
OpenOn(f) == {l \in Life : bridge[l] = "open" /\ frameOf[l] = f}

\* The effect that forwards an invocation to the app: the input once, then its
\* result or cancellation once.  `now` is bridgeReady, `ref` appBridgeRef.
Forwarded(last, ref, now) ==
    LET new == sentInput # last.id
        settled == /\ last.status \in {"completed", "failed"}
                   /\ new \/ sentResult # last.id IN
    IF ~now \/ ref = 0 \/ last.id = 0
    THEN [input |-> sentInput, result |-> sentResult, sent |-> <<>>]
    ELSE [input |-> last.id,
          result |-> IF settled THEN last.id ELSE IF new THEN 0 ELSE sentResult,
          sent |-> (IF new THEN <<[kind |-> "input", id |-> last.id]>> ELSE <<>>)
                   \o (IF settled THEN <<[kind |-> "outcome", id |-> last.id]>> ELSE <<>>)]

Forward(last, ref, now) ==
    LET f == Forwarded(last, ref, now) IN
    /\ sentInput' = f.input
    /\ sentResult' = f.result
    /\ inbox' = IF f.sent = <<>> THEN inbox ELSE [inbox EXCEPT ![ref] = @ \o f.sent]

\* The clean-up closes the bridge in the ref; a bridge that is not there yet
\* is not closed.
CleanUp ==
    /\ late' = IF setup[effect] \in Unchecked THEN late \cup {effect} ELSE late
    /\ bridge' = IF bridgeRef = 0 THEN bridge ELSE [bridge EXCEPT ![bridgeRef] = "closed"]
    /\ themes' = themes \ {themeRef}

ClearRefs ==
    /\ bridgeRef' = 0 /\ themeRef' = 0 /\ ready' = FALSE
    /\ sentInput' = 0 /\ sentResult' = 0

\* setup() of the effect that begins in life l; without a UI it returns at once.
StartSetup(l) ==
    /\ effect' = l
    /\ setup' = [setup EXCEPT ![l] = IF resource = None THEN "stopped" ELSE "fetching"]

NewFrame(l) ==
    /\ frame' = (IF resource = None THEN 0 ELSE l)
    /\ src' = "empty" /\ app' = 0 /\ appUp' = FALSE

HostInit ==
    /\ shown = 0 /\ shownUri = None /\ shownCall = NoCall /\ tile = 0
    /\ frame = 0 /\ src = "empty" /\ app = 0 /\ appUp = FALSE
    /\ effect = 0 /\ late = {}
    /\ setup = [l \in Life |-> "none"] /\ frameOf = [l \in Life |-> 0]
    /\ bridge = [l \in Life |-> "none"] /\ inbox = [l \in Life |-> <<>>]
    /\ bridgeRef = 0 /\ themeRef = 0 /\ themes = {} /\ ready = FALSE
    /\ sentInput = 0 /\ sentResult = 0 /\ posts = {}

-----------------------------------------------------------------------------
(* Renders.  The host shows the room's newest state, or none of it yet.    *)

Appears ==
    /\ mounted /\ shown = 0
    /\ shown' = life /\ shownUri' = resource /\ shownCall' = call /\ tile' = life
    /\ NewFrame(life)
    /\ StartSetup(life)
    /\ UNCHANGED <<refVars, frameOf, late, bridge, inbox, themes, posts>>

\* Same uiResourceUri: no effect but the forwarding one, even if this is the
\* mount of a later life.
Updates ==
    /\ mounted /\ shown # 0 /\ resource = shownUri
    /\ <<shown, shownCall>> # <<life, call>>
    /\ shown' = life /\ shownCall' = call
    /\ Forward(call, bridgeRef, ready)
    /\ UNCHANGED <<shownUri, tile, frame, effect, late, frameVars, bridgeRef, themeRef,
                   ready, setup, frameOf, bridge, themes, posts>>

\* Another uiResourceUri: the effect is cleaned up and starts again, in the
\* same iframe if there is one before and after.
Changes ==
    /\ mounted /\ shown # 0 /\ resource # shownUri
    /\ shown' = life /\ shownUri' = resource /\ shownCall' = call
    /\ CleanUp
    /\ ClearRefs
    /\ StartSetup(life)
    /\ IF frame # 0 /\ resource # None THEN UNCHANGED <<frame, frameVars>>
                                       ELSE NewFrame(life)
    /\ UNCHANGED <<tile, frameOf, inbox, posts>>

Disappears ==
    /\ ~mounted /\ shown # 0
    /\ shown' = 0 /\ shownUri' = None /\ shownCall' = NoCall /\ tile' = 0
    /\ frame' = 0 /\ src' = "empty" /\ app' = 0 /\ appUp' = FALSE
    /\ CleanUp
    /\ ClearRefs
    /\ effect' = 0
    /\ UNCHANGED <<setup, frameOf, inbox, posts>>

Render == Appears \/ Updates \/ Changes \/ Disappears

-----------------------------------------------------------------------------
(* The setup() of effect l.                                                *)

\* getInstanceUiResource(): that of whatever is mounted now, 404 if it has none.
Served == mounted /\ resource # None

\* fetchUiResource() answers.  loadSandboxProxy() does not touch an iframe that
\* has a src already, and does not wait for it either.
Fetched(l) ==
    /\ setup[l] = "fetching" /\ Served
    /\ UNCHANGED <<tileVars, app, appUp, refVars, bridge, inbox, themes, posts>>
    /\ IF l # effect
       THEN /\ setup' = [setup EXCEPT ![l] = "stopped"]
            /\ UNCHANGED <<frameOf, src>>
       ELSE /\ frameOf' = [frameOf EXCEPT ![l] = frame]
            /\ IF src = "empty"
               THEN src' = "loading" /\ setup' = [setup EXCEPT ![l] = "loading"]
               ELSE /\ setup' = [setup EXCEPT ![l] = IF bridgeRef # 0 THEN "stopped"
                                                     ELSE "asking"]
                    /\ UNCHANGED src

\* The proxy in the iframe announces itself, to the setup() that waits for it.
\* If the frame goes, or never says so, that setup() waits for ever.
ProxyReady ==
    /\ src = "loading"
    /\ src' = "ready"
    /\ setup' = [l \in Life |-> IF setup[l] = "loading" /\ frameOf[l] = frame
                                THEN "asking" ELSE setup[l]]
    /\ UNCHANGED <<tileVars, app, appUp, refVars, frameOf, bridge, inbox, themes, posts>>

\* fetchCapabilities() answered, with null if roomd refused.  Bridge, theme
\* listener and the call of connect() follow the last look at `disposed`.
Wire(l) ==
    /\ setup[l] = "asking"
    /\ UNCHANGED <<tileVars, frameVars, bridgeRef, ready, sentInput, sentResult,
                   frameOf, inbox, posts>>
    /\ IF l # effect
       THEN /\ setup' = [setup EXCEPT ![l] = "stopped"]
            /\ UNCHANGED <<bridge, themes, themeRef>>
       ELSE /\ setup' = [setup EXCEPT ![l] = "connecting"]
            /\ bridge' = [bridge EXCEPT ![l] = "open"]
            /\ themes' = themes \cup {l}
            /\ themeRef' = l

Connected(l) ==
    /\ setup[l] = "connecting"
    /\ setup' = [setup EXCEPT ![l] = "connected"]
    /\ posts' = posts \cup {Post("bridge_connected", l)}
    /\ UNCHANGED <<tileVars, frameVars, refVars, frameOf, bridge, inbox, themes>>

\* The report of the bridge has been answered, or has failed.  The resource
\* reaches an app only through a proxy that is there to receive it.
Deliver(l) ==
    /\ setup[l] = "connected" /\ Post("bridge_connected", l) \notin posts
    /\ setup' = [setup EXCEPT ![l] = "delivered"]
    /\ IF frameOf[l] = frame /\ src = "ready"
       THEN app' = l /\ appUp' = FALSE
       ELSE UNCHANGED <<app, appUp>>
    /\ posts' = posts \cup {Post("resource_delivered", l)}
    /\ UNCHANGED <<tileVars, src, refVars, frameOf, bridge, inbox, themes>>

\* The end of setup().  The refs of a component that is gone are nobody's.
\* bridgeReady renders, and thereby forwards, only if it was not set before.
Finish(l) ==
    /\ setup[l] = "delivered" /\ Post("resource_delivered", l) \notin posts
    /\ setup' = [setup EXCEPT ![l] = "done"]
    /\ UNCHANGED <<tileVars, frameVars, frameOf, bridge, themes, themeRef, posts>>
    /\ IF tile # 0 /\ tile <= l
       THEN /\ bridgeRef' = l /\ ready' = TRUE
            /\ IF ready THEN UNCHANGED <<sentInput, sentResult, inbox>>
                        ELSE Forward(shownCall, l, TRUE)
       ELSE UNCHANGED <<bridgeRef, ready, sentInput, sentResult, inbox>>

\* A rejected await: the catch handler reports it, disposed or not, and leaves
\* the bridge as it is.
Fails(l) ==
    /\ \/ setup[l] \in {"fetching", "asking", "connecting"}
       \/ setup[l] = "connected" /\ Post("bridge_connected", l) \notin posts
    /\ setup' = [setup EXCEPT ![l] = "failed"]
    /\ posts' = posts \cup {Post("app_error", l)}
    /\ UNCHANGED <<tileVars, frameVars, refVars, frameOf, bridge, inbox, themes>>

\* The app in the frame signals its initialization; every bridge that listens
\* to the frame hears it.
Initialized ==
    /\ app # 0 /\ ~appUp
    /\ appUp' = TRUE
    /\ posts' = posts \cup {Post("app_initialized", l) : l \in OpenOn(frame)}
    /\ UNCHANGED <<tileVars, src, app, refVars, setup, frameOf, bridge, inbox, themes>>

\* A report on its way arrives, in any order, or is lost.
Arrives(p) ==
    /\ p \in posts
    /\ posts' = posts \ {p}
    /\ \/ Report(p.event, p.life)
       \/ UNCHANGED roomVars
    /\ UNCHANGED <<tileVars, frameVars, refVars, setup, frameOf, bridge, inbox, themes>>

SetupStep(l) ==
    \/ Fetched(l) \/ Wire(l) \/ Connected(l) \/ Deliver(l) \/ Finish(l) \/ Fails(l)

HostStep ==
    \/ Render \/ ProxyReady \/ Initialized
    \/ \E l \in Life : SetupStep(l)

-----------------------------------------------------------------------------
Init == RoomInit /\ HostInit

\* Anybody may call a tool of the instance.
Next ==
    \/ (\/ Elsewhere
        \/ CallSent
        \/ \E id \in running, status \in {"completed", "failed"} : CallSettled(id, status))
       /\ UNCHANGED hostVars
    \/ HostStep /\ UNCHANGED roomVars
    \/ \E p \in posts : Arrives(p)

vars == <<roomVars, hostVars>>
Spec == Init /\ [][Next]_vars

-----------------------------------------------------------------------------
(* Properties.  `late = {}` excludes a change of uiResourceUri that reaches *)
(* the tile between the bridge and the ref of the setup() before it.       *)

TypeOK ==
    /\ RoomTypeOK
    /\ shown \in 0..MaxLives /\ shownUri \in Resource \cup {None}
    /\ shownCall \in Invocation /\ tile \in 0..MaxLives /\ frame \in 0..MaxLives
    /\ src \in {"empty", "loading", "ready"}
    /\ app \in 0..MaxLives /\ appUp \in BOOLEAN
    /\ effect \in 0..MaxLives /\ late \subseteq Life
    /\ setup \in [Life -> Step] /\ frameOf \in [Life -> 0..MaxLives]
    /\ bridge \in [Life -> {"none", "open", "closed"}]
    /\ inbox \in [Life -> Seq([kind : {"input", "outcome"}, id : Nat])]
    /\ bridgeRef \in 0..MaxLives /\ themeRef \in 0..MaxLives /\ themes \subseteq Life
    /\ ready \in BOOLEAN /\ sentInput \in Nat /\ sentResult \in Nat
    /\ posts \subseteq Posts

\* Whatever was cleaned up, at whichever await, has let go: a change of theme
\* reaches the current effect's app only, and an open bridge is the current
\* effect's, unless a setup() failed or was interrupted after its last look at
\* `disposed`: those bridges nobody ever closes.
NothingStray ==
    /\ themes \subseteq {effect}
    /\ late = {} => \A l \in Life :
                        bridge[l] = "open" => l = effect \/ setup[l] = "failed"

Told(list, kind, id) == {k \in 1..Len(list) : list[k] = [kind |-> kind, id |-> id]}

InformedOf(list, last) ==
    \E i \in 1..Len(list) :
        /\ Told(list, "input", last.id) = {i}
        /\ IF last.status = "running" THEN Told(list, "outcome", last.id) = {}
           ELSE \E o \in (i + 1)..Len(list) : Told(list, "outcome", last.id) = {o}

\* An app whose bridge is ready has been told of the invocation that is shown
\* exactly what there is to tell: its input once, then its outcome once.
AppIsInformed ==
    ready /\ bridgeRef # 0 /\ late = {} /\ shownCall.id # 0 =>
        InformedOf(inbox[bridgeRef], shownCall)

\* roomd holds one report that the app of a mount has initialized (the
\* end-to-end test roomctl-real-server-host-lifecycle rejects a second one),
\* if the mount has a frame of its own and its setup() did not fail: in a frame
\* that it took over, a bridge also hears the app that was there before, and
\* the bridge of a setup() that failed hears every app that comes after it.
OwnFrame(l) == l \in Life /\ frameOf[l] = l /\ setup[l] # "failed"

InitializedOnce ==
    late = {} => \A j, k \in 1..Len(evidence) :
        /\ evidence[j].event = "app_initialized" /\ evidence[k].event = "app_initialized"
        /\ evidence[j].inst = Here /\ evidence[k].inst = Here
        /\ evidence[j].life = evidence[k].life /\ OwnFrame(evidence[j].life)
        => j = k
=============================================================================
