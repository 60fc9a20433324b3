# Verification of the mcp-app-room control plane

`mcp-app-room` puts several MCP apps on one shared canvas. `roomd`
(`services/roomd`) is the control plane: it holds the rooms, speaks MCP to the
servers behind the mounted instances, and publishes every change as an event.
The host (`apps/host-web`) shows a room and embeds its apps; `roomctl`
(`tools/roomctl`) drives roomd from the command line. This directory holds TLA+
models of that system, the TLC runs that check them, and proofs checked by the
TLA+ proof system. Source paths below are relative to the repository.

## 1. Inventory

roomd is one Node process. Its handlers run on one JavaScript thread, so the unit
of atomicity is the code between two `await`s; at an `await` any other handler may
run. Nothing but the room configurations survives a restart.

| Component | State it keeps | Operations | Talks to |
|---|---|---|---|
| Room store (`store.ts`) | per room: mounts, order, selection, negotiated sessions, invocations, evidence, events, revision, remembered keys | mount, unmount, hide/show, select, reorder, layout, tool call, report evidence, pass-through requests | session factory (awaits), capability registry, subscribers (callbacks) |
| Event feed (`store.ts` 164-200, `server.ts` 170-210, `room-events.ts`) | bounded event window; one SSE response per subscriber; the host's snapshot | subscribe, replay, broadcast, reconnect | room store -> subscribers |
| Idempotent gate (`store.ts` 205-258) | insertion-ordered map of keys, bounded | applyCommand | room store; retried by clients |
| Session factory and inspections (`mcp.ts`, `mcp-auth.ts`, `store.ts` 278-298, 639-760) | one pending or open session per (room, server); inspections use one of a pseudo-room | getSession, releaseSession, connect over stdio or HTTP with its SSE fallback, list tools and resources page by page | MCP servers |
| Layout engine (`store/layout.ts`) | none: pure functions on containers and order | nine operations | room store |
| Evidence (`store/evidence.ts`) | bounded list in the room; assurance is derived from it | append, derive | room store, host, roomctl |
| Room configurations (`room-config/*`) | SQLite: current row and all revisions | upsert, save, plan, load | room store (a load is a sequence of commands) |
| Client capabilities (`client-capabilities/*`, `mcp-client-capabilities.ts`) | one policy per (room, server) | configure for a mount, clear, change by route, answer roots, sampling and elicitation requests, announce roots | room store, sessions, MCP servers |
| HTTP routes and schemas (`server*.ts`, `schema.ts`) | none | parse, delegate, map errors | everything above |
| Host canvas and bridge (`room-canvas*`, `implementation.ts`, `sandbox.ts`) | the state shown; per tile its bridge, frame and what it has told its app | set-up with five awaits, clean-up, forward tool input and result, report evidence | roomd over HTTP and SSE, apps over `postMessage` |
| Developer sidebar (`dev-sidebar/*`) | the chosen instance and operation, form and raw input, the run | choose, type, run through two gates | roomd, the room that the host shows |
| roomctl (`cli/*`, `roomd/client.go`) | none between runs, except the cursor its user carries along | `await` polls the evidence, `tool-call` calls and may await; all others are one request | roomd |
| Conformance scoring, server allow-lists, parsing | none | pure | - |
| Static servers, scripts, lint and architecture tools | - | tooling | - |

What is hard, and what makes each component correct:

* **Room store.** Mount awaits twice between its checks and its effects; unmount
  awaits between its map update and its commit; a tool call awaits its session and
  then its tool. Correct means: mounts, order and selection agree; every visible
  change is published; sessions and capabilities are those of the mounts; outcomes
  are final, reached, and consistent with the evidence.
* **Event feed.** Connections drop, the window forgets, the server restarts and
  counts from zero, and a host repeats its first revision for ever. Correct means: no
  gap, no stale display, no display older than the snapshot.
* **Gate.** Clients time out and resend; the map forgets. Correct means: one effect
  and one answer per key.
* **Sessions and inspections.** An entry is a promise; releases and failures overlap;
  all inspections of a server share a session that each of them releases. Correct
  means: one connection per server, none left when the last inspection is over, a
  listing that is complete or an error, and an end even when cursors go in a circle.
* **Client capabilities.** One policy serves all instances of a server in a room, and
  is cleared with the last of them. Correct means: a server is allowed what clients
  have granted since and nothing else, a mount's policy is in force when it commits,
  and a change of roots reaches the server.
* **Host tile.** A set-up can be overtaken at each await, frames are reused, reports
  are lost or reordered. Correct means: what is cleaned up lets go, the app is told
  each thing once and in order, and its initialization is reported once.
* **roomctl.** It sees the room in glimpses of a bounded list. Correct means: a chain
  of waits skips nothing, a deadline overlooks nothing, claims are true, commands end.
* **Developer sidebar.** Its form belongs to an operation and a mount that the room
  may replace at any event. Correct means: a run sends what was typed for it, its gates
  and roomd's agree, and it ends.
* **Layout.** Clamping at the grid's edges, cursors, batches. Correct means:
  instances stay inside the grid, commands are repeatable and compose.
* **Room configurations.** A load is no transaction. Correct means: what is saved is
  what a load restores; a failed load leaves a beginning of the configuration; a load
  applies the revision it reports.

`PROJECT.json` lists every hazard at its line, with the properties that would
catch it or the reason why none does.

## 2. Modules

| Module | Models | Lines of code it stands for |
|---|---|---|
| `RoomStore` | one room with every handler and await of `store.ts` | `store.ts` 52-1216, `store/evidence.ts` 26-51 |
| `EventWindow` | abstract: a revision that grows by one, a window of the newest events, what a client has missed | `store.ts` 123-200, 1131-1154 |
| `RoomEvents` | subscribers of a room on top of `EventWindow` | `server.ts` 96-373, `room-events.ts` 12-55, `room-canvas.tsx` 60-88 |
| `CommandGate` | `applyCommand()` with retrying clients | `store.ts` 131-256, `server.ts` 208-217 |
| `SessionFactory` | the session map of one (room, server) | `mcp.ts` 287-378 |
| `Inspection` | inspections of one server, on top of `SessionFactory` | `store.ts` 278-298, 639-760, `mcp.ts` 80-286, `mcp-auth.ts` |
| `ClientPolicy` | the policy of one (room, server), on top of `SessionFactory` | `client-capabilities/*`, `mcp-client-capabilities.ts`, `store.ts` 305-400, 812-960 |
| `GridLayout` | containers and order under mounts and layout commands | `store/layout.ts` 17-299, `schema.ts` 195-271 |
| `RoomConfig` | repository, save, load, and the part of a room they describe | `room-config/*`, `server-room-config-routes.ts` |
| `Assurance` | the evidence of a room with the lives of one instance, and the levels | `store/evidence.ts`, `store.ts` 401-523 |
| `HostInstance` | the tile of that instance, on top of `Assurance` | `room-app-instance.tsx`, `bridge-wiring.ts`, `invocations.ts`, `sandbox.ts`, `room-canvas.tsx` 91-145 |
| `Roomctl` | `await` and `tool-call`, on top of `Assurance` | `cli/await.go`, `cli/tool_call_cmd.go`, `cli/claims.go`, `roomd/client.go` |
| `DevSidebar` | the sidebar, the room it shows, and roomd's checks | `dev-sidebar/*`, `capabilities.ts`, `server-instance-routes.ts` 199-374 |
| `Lists` | the newest elements of an array, and a filter | `store.ts` 934-935, 1147-1149 |
| `*_proofs` | theorems, see section 4 | - |
| `MC*` | values of the constants and symmetries for TLC | - |

`RoomStore` and `RoomEvents` are composed through `EventWindow`: the room
implements it (`FeedSpec`, a refinement that is both checked and proved), and the
streams are built on it. `RoomStore` treats the containers, the gate and the session
factory as far as the room sees them; `GridLayout`, `CommandGate` and
`SessionFactory` hold the detail. `Inspection` and `ClientPolicy` extend
`SessionFactory`: their steps are its steps with what the caller does around them, so
that the connections they use fail, die and overlap as it lets them. `HostInstance`
and `Roomctl` extend `Assurance`, the writer and the reader of the same evidence.

Definitions named `X_Y` under "Faulty variants" are no part of a model. Each is `X`
with one plausible mistake, and `PROJECT.json` says which property TLC finds violated
when it takes the place of `X`.

### How state and actions correspond

* **RoomStore.** `mounts`, `order`, `selected`, `sessions`, `invocations`,
  `invocationOrder`, `evidence`, `revision`, `events` are the fields of `RoomRuntime`;
  `configured` is the capability registry; `conn` is the room's part of the session
  factory; `published` is the state in the newest event. `req[r]` is a suspended
  handler with the locals it uses after its await. `MountBegin`, `MountInspected`,
  `MountApplied` and `MountFailed` are `handleMount()` cut at its awaits and its catch
  block; `UnmountBegin`/`UnmountReleased` and `UnmountShared` are `handleUnmount()`
  with and without the await of `releaseSession()`; `CallBegin`, `CallSent`,
  `CallSettled` and `CallAborted` are `callInstanceTool()`; `HandleVisibility`,
  `HandleSelect`, `HandleReorder`, `HandleLayout` and `ReportInstanceEvidence` have no
  await. `Passthrough` stands for the list, read, prompt, completion, subscription and
  roots requests, which change one thing: they open a session. Refused requests change
  nothing and are not steps.
* **RoomEvents.** `phase[h]` is where a subscriber's connection is, `since[h]` the
  revision in its URL, `shown[h]` what it displays, `queue[h]` what has been written to
  its response. A state is named by the life of the server and the revision in which
  the room had it. Hosts in `Pinned` resume from the URL, the others from
  `Last-Event-ID`, which is how `parseSinceRevision()` decides.
* **CommandGate.** `memory` is `room.idempotency` in insertion order; `executing` the
  commands that are suspended and therefore not in the map yet; the counters
  `applied`, `forgotten` and `submissions` only observe.
* **SessionFactory.** `entry` is the attempt whose promise the map holds, `attempt` what
  became of each, `call` what each caller awaits.
* **GridLayout.** `container` and `order`; `Updated` is `computeLayoutUpdate()`: every
  container normalized, then `Apply` for one operation after the other. `Line` is the stable
  sort of "distribute", written as an insertion sort.
* **RoomConfig.** `current` and `history` are the two tables, `room` is what a
  configuration describes of a room, `memory` the command keys that loads have used.
  `load[l]` goes through `Begin`, `Read` (the repository), `PlanLoad` (the emptiness
  check), `Preflight` (the inspections), and for each command `StartCommand`,
  `FinishMount` or `Remembered`, up to `Answer`. `alone` observes whether anybody else
  has changed the room since the check.
* **Inspection.** `strategy` is what `mcp-auth.ts` makes of the server's URL, `tries`
  and `errors` are the loop of `connect()` over its transports, `insp[c]` holds the
  locals of `inspectServer()`: where it is, its cursor and the cursors it has seen, the
  tools it has. `Begins`, `Opened`, `ToolsPage`, `ToolsFail`, `ResourcesPage`,
  `ResourcesFail`, `Closes` and `Closed` cut it at its awaits; `Closes` is the `finally`.
* **ClientPolicy.** `policy` is the registry's runtime, `advertised[n]` what connection
  `n` announced when it was made, `known[n]` the roots the server last read over it,
  `news[n]` a notification under way. `req[c]` is a suspended mount (`opening`,
  `inspecting`, `finishing`, `failing`), unmount (`releasing`) or `PUT roots` (`telling`).
  `granted` and `undisturbed` only observe. A policy is a function on its fields, the
  numbers and flags that `sampling.ts` and `elicitation.ts` decide by; `Allowed` is that
  decision.
* **Assurance.** One instance, `Here`, is followed through the lives that its mounts
  begin; a record says which life it is about, in a field that the code lacks. Its
  commands are atomic.
* **HostInstance.** Effects, frames and components are named by the life in which they
  begin. `setup[l]` is the await at which the `setup()` of an effect is suspended;
  `Fetched`, `ProxyReady`, `Wire`, `Connected`, `Deliver`, `Finish` and `Fails` resume it.
  `Appears`, `Updates`, `Changes` and `Disappears` are React committing the newest state
  it has received, clean-ups and effects included; it may skip states. `posts` are
  reports under way: `Arrives` takes any of them, so that they overtake each other.
* **Roomctl.** `ctl` is the command that runs, with the baseline, the events it still
  requires and what it has matched; `user` is the cursor that a script carries from one
  `await` to the next. `Poll` is one turn of the loop in `awaitEvidence()`,
  `DeadlinePasses` the turn after which it gives up.
* **DevSidebar.** `mounts`, `order` and `selected` are the room, `shown` the state the
  component has rendered, `behind` whether an event is on its way to it. `Render`,
  `ChooseInstance`, `ChooseOperation`, `Type` and `ToggleRawMode` run the component's
  effects to their end. `run` is the run in progress: `Execute`, `CapabilitiesAnswered`,
  `GatesDecide`, `RequestArrives` (roomd's own checks), `ServerAnswers`, `BodyIsRead`,
  `RequestFails`. A mount has a life, so that an input and an answer can be compared with
  the mount they were meant for.

## 3. Runs

Limits on lists are small so that they are reached; `MaxRevision`, `MaxCalls`,
`MaxDrops`, `MaxRestarts`, `MaxSubmissions`, `MaxAttempts`, `MaxEdits`, `MaxY`, `MaxH`,
`MaxOps`, `MaxInspections`, `MaxRequests`, `MaxLives`, `MaxElsewhere`, `MaxCommands` and
`MaxReports` bound a run and occur in guards only; `MaxCursor` is the length of a listing.
Systems that end at a bound are checked without the deadlock check.

| Run | Bounds | Shows |
|---|---|---|
| `RoomRaces` | 2 instances, 2 servers, 3 handlers, all may be mounts, 2 tool calls, 3 revisions | `OrderCoversMounts`, `SelectionValid`, `StatePublished`, `RunningHasOwner`, `EvidenceConsistent` in every interleaving (0.9 million states) |
| `RoomOneMount` | as above, 4 revisions, one mount at a time, fair | `SessionBookkeeping`, `OutcomeIsFinal`, `InvocationsSettle`, and that the room implements `EventWindow` (`FeedSpec`) |
| `EventClients` | a host and a plain subscriber, window 3, 4 revisions, 2 drops, 2 restarts, fair | `StreamGapFree`, `UpToDate`, `NeverBeforeSnapshot`, `CatchesUp` |
| `GateRetries` | 3 keys, limit 2, 3 submissions per key, patient clients | `AppliedOnce`, `SameAnswer` |
| `GridCommands` | 3 instances on a grid of width 3, containers inside and across the edge | `LayoutTidies`, `RepeatChangesNothing`, `BatchIsSequence` |
| `RoomConfigs` | 2 loads, 2 keys, 2 instances, 2 revisions, 4 client specs and every saved one, 1 direct command, fair | `RevisionsAgree`, `PartialIsBeginning`, `SaveLosesNothing`, `LoadRestores`, `LoadsSettle` |
| `Inspections` | 2 callers, 3 inspections, 3 connections, every strategy of `mcp-auth.ts`, three pages of which the last names the second, fair | `OneConnection`, `NothingLeft`, `ToolsComplete`, `InspectionEnds` |
| `ClientPolicies` | 2 callers that may both mount, 2 instances, 3 connections, 4 requests | `AnswersAreGranted`, `MountPolicyHolds`, `RootsReachServer` |
| `HostEvidence` | 2 lives of the tile's instance, two resources or none, 1 tool call, an evidence list of 3 | `NothingStray`, `AppIsInformed`, `InitializedOnce` |
| `RoomctlAwaits` | 2 commands, 2 reports of the host, 1 of another instance, 1 tool call, an evidence list of 3, 1 restart, fair | `ChainSkipsNothing`, `NothingOverlooked`, `ClaimsAreTrue`, `CommandEnds` |
| `DevSidebars` | 2 instances, 2 mounts in all, two kinds of server that differ in capabilities and in the visibility of the tool, one operation of each kind of input, fair (0.9 million states) | `GatesAgree`, `InputFitsRun`, `RunEnds` |
| `RoomSharedServer` | 2 mounts of one server | a disagreement between the code and what its tests say (section 5) |

Why the bounds are enough. Two mounts that conflict need two instances of one server
or one instance twice; the third handler is the one that observes or removes what two
others do, and no handler remembers more than one instance and one server. A window of
three and four revisions reach every side of `getReplayEvents()`: nothing missed, one
missed, the edge of the window, beyond it. Two restarts let a client carry a point
across a life in which it never connected. Three keys with a limit of two evict a key
that is used again. A grid of width three has a left edge, a right edge and a column
between; three instances are the fewest for which the order in a line matters. Two
loads overlap in all the ways that commands can; one direct command comes between any
two of their steps. In `GridCommands` a command has one operation; two in one command
are the subject of `BatchIsSequence`, evaluated in every reachable state. A listing
needs a first page, one that is named twice and one that names it. Three connections
are one that is released late, the one made meanwhile, and the next. A tile's second
life is the one that meets what the first left behind, in its frame, its refs and its
evidence; three records make the list drop the first life's report. A chain of waits has
two links, and one restart comes between or within them.

The properties that hold under a restriction say so.

* `SessionBookkeeping` needs one mount in flight at a time; `RoomSharedServer` shows why.
* `AppliedOnce` and `SameAnswer` need clients that wait for an answer before they resend
  (`Patient`). With impatient ones TLC finds a command executed twice under its key.
* `UpToDate` and `CatchesUp` except a client that has `Outlived` its room: after a restart
  the revision counts from zero, and `getReplayEvents()` compares revisions only.
* `LoadRestores` and `PartialIsBeginning` speak of loads that nobody disturbs.
* `RepeatChangesNothing` names the operations that are repeatable, `BatchIsSequence` the
  one combination in which a command differs from its parts.
* `OneConnection` and `NothingLeft` are checked, and proved, with two callers of
  inspections. With three, an attempt that fails after its release deletes the entry of the
  attempt that followed it (`mcp.ts` 343), and a further caller connects a second time.
* `MountPolicyHolds` speaks of mounts that no other mount's failure, unmount or change of
  the policy disturbed. `RootsReachServer` leaves out the changes that the code announces
  to nobody: a later mount's patch, a `PUT` that is refused after it has stored the roots
  (`store.ts` 321), and one whose session could not be had.
* `NothingStray` excepts the bridges of set-ups that failed, and those cleaned up between
  the last look at `disposed` and the assignment of the ref (`late`): nobody closes them.
  `InitializedOnce` speaks of mounts with a frame of their own whose set-up did not fail.
* `ChainSkipsNothing` compares records of one run of roomd: a cursor of an earlier run
  is too high for the next.
* `RunEnds` excepts an answer whose body never ends: its timer is off by then.

### Fairness

* `RoomStore.FairSpec`: every await ends. The SDK times requests out, a connection
  attempt succeeds or fails, `releaseSession()` swallows a failing close. Nothing is
  assumed of clients.
* `RoomEvents.FairSpec`: an `EventSource` retries until it is answered, whatever the
  answer, and the browser handles events that have arrived. Commits, drops and restarts
  are not fair; their bounds end them.
* `Inspection.InspFair`: every request of an inspection, connecting included, is answered
  or fails, because the SDK times it out; settled promises wake their waiters.
* `Roomctl.CtlFairSpec`: a request is answered, refused or times out, the loop goes round and
  its clock runs. Nothing is assumed of the host, the tool or roomd's restarts.
* `DevSidebar.FairSpec`: only that the timer of a request fires unless an answer begins.
* `RoomConfig.FairSpec`: the repository, an inspection and a mount answer or fail.

All are weak: an await that has ended stays ended until its handler runs.

## 4. Proofs

TLAPS proves the following for every value of the constants, without the bounds of the runs:
every invariant and action property that a run checks, and the refinement. The assumptions
are those named in the modules, which only give the constants their types, and three that a
theorem states itself: `SerialMounts`, `Patient` and `TwoAtMost`. Each is about how clients
behave, and each property is false without it (section 3).

There are eight modules. Where one module builds on another's state their theorems are
together, so that lemmas about it are proved once.

* **Lists_proofs** has what the others rest on. The library's induction theorems take an
  operator as a parameter, which the provers cannot instantiate; `NatInduces` and `SeqInduces`
  state induction about a set instead, `StepsStay` about a function of `0..m`, and
  `RecursionExists` that a recursive function exists, each derived from the well-foundedness
  of the numbers. With them, what `Newest`, `Without` and `Elements` give is proved for all
  sequences. This is why the models write filters and loops over arrays as recursive functions.

* **RoomEvents_proofs** (`EventWindow`, `RoomEvents`). `WindowIsContiguous`: the invariant is
  inductive as it stands, and a replay is exactly the suffix a client has missed
  (`ReplayIsSuffix`). `StreamTypes`, `StreamsHaveNoGap`, `ClientsAreUpToDate`,
  `HostsNeverBeforeSnapshot`: `StreamInvariant` adds `PointsInOrder`, which says that no
  remembered point lies ahead of the room in its own life and that nothing shown or under way
  precedes the snapshot in the URL. Without it a reconnect could be answered from an arbitrary
  revision. `ConnectKeeps` rests on `ReplayShape`, the four answers of `getReplayEvents()`.

* **RoomStore_proofs**, with any number of handlers in flight.
  - `FeedIsImplemented`: every step publishes one revision or leaves the feed alone, so the
    room implements `EventWindow`. `StateIsPublished`, `SelectionIsMounted`.
  - `OrderAndMountsAgree`. The hard step is a reorder: `handleReorder()` checks that a list
    has as many entries as there are mounts, all mounted and none twice, and that this makes it
    a permutation is an argument about cardinalities (`ArrangementsCover`).
  - `RunningIsOwned`, `OutcomesAreFinal`, `EvidenceIsConsistent` share `CallInvariant`: a
    suspended call has a number below the counter, shared with nobody (`CallsNumbered`), its
    invocation has not ended (`CallsUnsettled`), and calls that still connect have their
    numbers reserved (`CallsBounded`).
    `EvidenceInvariant` adds that records are in the order of their counters and revisions and
    that each says of its invocation what its record says.
  - `RoomIsTyped` and `TypesHold`: the second adds the histories, whose types need the
    invariants above.
  - `SessionsAreThoseOfMounts`, under `SerialMounts`. `MountsInFlight` says what a suspended
    mount may rely on: its instance is not mounted, and if it found no session there is none.

* **RoomConfig_proofs.** `LoadsApplyTheirRevision` from `RepositoryInvariant`: histories are
  sequences, and a load that has begun names a configuration. `SavesLoseNothing`,
  `PartialLoadsAreBeginnings` and `LoadsRestore` from `ConfigInvariant`: `LoadsPlanned` ties
  the operations of a load to its specification, and `LoadsUndisturbed` describes the room
  after each of them (`Reached`: which operation belongs to which instance, what the mounts so
  far have made of order and visibility, when the order and the selection are right). The work
  is in the shape of the operations, a concatenation of one to three for each instance, and in
  reading "the room after the first n operations" off it. `TypesHold`.

* **Commands_proofs** (`CommandGate`, `GridLayout`). `WaitingClientsApplyOnce` and
  `WaitingClientsGetOneAnswer`, under `Patient`: `GateInvariant` adds that keys differ in the
  map and none that executes is in it, that every execution is remembered or has been
  forgotten, and that the response in the map is the one that was given.
  `GridTypes`, `LayoutsTidy`: `GridTypeOK` is inductive, and `TidyLayouts`, the layouts with all
  containers in the grid, is closed under `Apply`. `BatchesAreSequences`: normalizing again
  changes nothing, and the order that "all" stand in matters to `Line` alone.
  `RepeatsChangeNothing`: the insertion sort yields the one ascending list when coordinates
  differ, "distribute" down the y axis makes them differ, and snapping is idempotent where the
  step divides the width. `OperationsStayInGrid`, `SwapUndoesItself`: two facts about operations.

* **Sessions_proofs** (`SessionFactory` under `ClientPolicy` and `Inspection`).
  - `AllowedIsGranted`: a field nobody has granted has its default, and with no mount in place
    the policy is the default or belongs to mounts that will clear it. `MountsSetTheirPolicy`:
    a mount's patch, merged again, changes nothing. `RootsAreKnown`: `RootsInvariant` adds that a
    connection over which nobody has read roots is not waiting for news, and that whoever has
    read others than the current ones is being told.
  - `SuccessSeesEveryTool`, for any cursors and any number of inspections: what has been read
    is all that has been met but the cursor (`Tracked`), so that a listing that ends is closed
    under `After`. `InspectionTypes` with it.
  - `TwoConnectOnce` and `TwoLeaveNothing`, under `TwoAtMost`. `SessionsInvariant` says that a
    connection is in the map or being released, that who connects is awaited, that nobody
    connects while the map holds another, and that the map holds the newest. It is used in one
    step only that there are two: a caller who finds the map empty finds nobody connecting,
    because whoever started that attempt and whoever released it would be two others.

* **Assurance_proofs** (`Assurance` under `Roomctl` and `HostInstance`). In both the records of
  the list are `Ordered` by revision.
  - `AwaitsSkipNothing`, `GivesUpInTime`, `ClaimsHold`, `CtlTypes`: `CtlInvariant` adds that a
    room that roomd has forgotten has no evidence, that what a command has seen and the cursor
    its user carries are not of the future (`Seen`, `Known`), that an `await` goes on where
    its user's last one ended (`Chained`), and how far a tool call has come (`Progress`).
  - `CleanUpsLetGo`, `AppsAreInformed`, `InitializationsCountOnce`, `HostTypes`:
    `HostInvariant` says which await each set-up can be at and what is wired there (`Lives`,
    `LetGo`), that the refs are those of the current effect from its end on (`Refs`), whose apps
    a bridge can have heard (`Heard`), that invocations are numbered and end once (`Numbered`),
    and that what the app has been told is what the tile has sent (`Informed`).

* **DevSidebar_proofs.** `RunsSendTheirInput` and `GatesConcur`. `SidebarInvariant` says that
  whoever has seen a life of an instance has seen what it is (`Seen`), that both inputs are
  those of the operation and mount on display, and that a run's input is its own. The gates
  agree because the two tables of capabilities are equal (`Rule`, `RoomdNeeds`), and a
  life has one catalog.

Two proofs failed for a good reason and changed what is stated. `InitializedOnce` was false
with three lives (section 5). `GridTypeOK` did not say that an instance stands in the order
once, which removing it relies on.

Only model-checked: liveness (`InvocationsSettle`, `CatchesUp`, `LoadsSettle`,
`InspectionEnds`, `CommandEnds`, `RunEnds`), which is out of the prover's reach.

## 5. Where the code differs from what it says, or surprises

`RoomSharedServer` is the run of a violation: two mounts of one server overlap, both begun
when it had no session. One fails, and its catch block releases the session of the other,
which stays mounted. The cause is `hadSessionForServer`, read before two awaits.

The following were met while modelling. The properties except them where section 3 says so.

* Rooms. Two mounts of one id pass the check before their awaits (`store.ts` 821); the
  order then lists the id twice, which `handleReorder()` itself refuses. Two hosts that load
  the same configuration into an empty room can cause it. A request that has read its mount
  calls `getSession()` after the last unmount released the server, and nothing closes the new
  session (450). A resend while the first execution is suspended does not find the key and
  executes the command again (233).
* Room configurations. Resending a finished load under its key is refused as
  `ROOM_NOT_EMPTY`, although the flag's text says that the key makes retries idempotent
  (`room_config_commands.go:121`).
* Events. A host that reconnects is replayed events it has shown already, because the
  revision in its URL takes precedence over `Last-Event-ID`.
* Evidence. The README of roomd calls the evidence append-only; the list drops its oldest
  records, and with `app_initialized` a level falls. Levels go by instance id: a remounted
  instance starts with the level of its predecessor.
* Inspections. The first of two overlapping inspections to end releases the session under
  the other, which fails or loses its resources.
* Client capabilities. A mount into a server that is connected changes the policy of all its
  instances and announces nothing. A `PUT roots` that is refused because roots are disabled
  has stored them. When two first mounts overlap and one fails, it clears the policy of the
  other. Sampling and elicitation enabled after the connection was made are never announced.
* Tiles. `setup()` does not look at `disposed` after its third await: a change of the
  resource there leaves a bridge that nobody closes, and it may overwrite the ref of its
  successor. A frame that is taken over lets the new bridge hear the old app. The bridge of a
  set-up that failed after it was wired goes on listening to its frame: with three lives, two
  later apps in that frame are both reported for the failed mount. No run has three lives;
  the attempt to prove `InitializedOnce` showed it.
* roomctl. A tool call that failed is awaited all the same, and the answer says "Tool RPC
  completed" (`tool_call_cmd.go` 91). A room that does not exist looks like one without
  evidence until the deadline. Ids are escaped twice (`roomd/client.go` 346-362).
* Developer sidebar. Every event of the room, also one that the run itself caused, clears
  what has been typed, and the room's selection overrides the user's choice
  (`dev-sidebar.tsx` 157-163, 208-242). A body that never ends keeps the sidebar running.

## 6. Not modelled, and why

* In sessions: the SDK's transports and the spawned process, which an attempt that opens,
  fails or dies stands for; and the requests other than listings, one call of the SDK each.
* Allow-lists of servers (`server-policy.ts`, `server-target.ts`) and the rest of
  `store/parsing.ts`: comparisons of strings and URLs without state, whose outcome for a
  mount is that it is refused. Error formatting, logging and telemetry.
* `implementation.ts` apart from `newRoomAppBridge()` and `loadSandboxProxy()`: it serves a
  page that shows one tool and no room. The widgets and the suggestions of the sidebar.
* The commands of roomctl that send one request and print its answer.
* Conformance scoring, a sequential batch over files; static servers, scripts, lint and
  architecture tools, which are not part of the running system.
* Abstracted: containers and servers of a configuration (passed through unchanged); the
  keywords that make a form sensitive (a flag of the request); the label "reconnecting"
  of the canvas; in `RoomConfig` direct commands are atomic and keys are never evicted, in
  `Assurance` commands are atomic: `RoomStore` and `CommandGate` have those behaviours.

## 7. Plan

Done, the room first because everything else serves it: `EventWindow`, `RoomStore`,
`RoomEvents`, `CommandGate`, `SessionFactory`, `GridLayout`, `RoomConfig`; then `Assurance`
with `HostInstance` and `Roomctl`, `Inspection`, `ClientPolicy`, `DevSidebar`; and the proofs of
every safety property that a run checks.

Next:

1. A restriction on `OneConnection` and `NothingLeft` that speaks of attempts that fail after
   their release instead of the number of callers, with the invariant that it needs.
2. The safety half of the liveness properties: that a suspended handler always has a step, as
   a bound on how many it can still take (`RoomStore`, `Inspection`, `RoomConfig`).
3. The type invariants of `ClientPolicy` and `DevSidebar` as theorems of their own.
