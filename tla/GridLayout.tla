----------------------------- MODULE GridLayout -----------------------------
(* The containers of a room's instances on the dashboard grid, as          *)
(* services/roomd/src/store/layout.ts computes them: a layout command      *)
(* normalizes every container and then applies its operations in turn;     *)
(* mounts bring containers that no layout has normalized yet.  RoomStore   *)
(* leaves the geometry to this module.                                     *)
(*                                                                         *)
(* Coordinates are integers: schema.ts admits no fractions.  Ids named     *)
(* twice by one operation count once, so only lists without repetition     *)
(* are enumerated.                                                         *)
EXTENDS Integers, FiniteSets, SequencesExt, Lists

CONSTANTS
    Instance,       \* instance ids
    GridWidth,      \* 12 in the code
    Placement,      \* the containers that mounts and "set" ask for
    Delta,          \* the steps of "move" and "resize"
    Gap,            \* the gaps of "distribute"
    Step,           \* the steps of "snap"
    MaxY, MaxH,     \* bounds: a command that passes them is not enumerated
    MaxOps          \* bound: operations of one command

ASSUME GridAssumption ==
    /\ GridWidth \in Nat \ {0}
    /\ Placement \subseteq [x : Nat, y : Nat, w : 1..GridWidth, h : Nat \ {0}]
    /\ Delta \subseteq Int /\ Gap \subseteq Nat /\ Step \subseteq Nat \ {0}
    /\ MaxY \in Nat /\ MaxH \in Nat /\ MaxOps \in Nat

VARIABLES
    container,      \* mount.container of every mounted instance
    order           \* room.order

gridVars == <<container, order>>

Mounted == DOMAIN container
Container == [x : Int, y : Int, w : Int, h : Int]

InGrid(c) == /\ c.x >= 0 /\ c.y >= 0 /\ c.w >= 1 /\ c.h >= 1
             /\ c.x + c.w <= GridWidth

-----------------------------------------------------------------------------
(* Faulty variants, used only as mutants by PROJECT.json.                  *)

Moved_NotNormalized(c, dx, dy) == [c EXCEPT !.x = @ + dx, !.y = @ + dy]

Offset_LeadingGap(cs, line, axis, gap) ==
    LET size(c) == IF axis = "x" THEN c.w ELSE c.h
        cursor[k \in 0..Len(line)] ==
            IF k = 0 THEN cs[line[1]][axis] + gap
            ELSE cursor[k - 1] + size(cs[line[k]]) + gap
    IN cursor

Prepared_AsMounted(cs) == cs

-----------------------------------------------------------------------------
(* Containers.                                                             *)

AtLeast(low, v) == IF v < low THEN low ELSE v
Clamp(v, low, high) == IF v < low THEN low ELSE IF v > high THEN high ELSE v

\* normalizeGrid12(): clamp the width, then the column the width leaves.
Normalize(c) ==
    LET w == Clamp(c.w, 1, GridWidth) IN
    [x |-> Clamp(c.x, 0, GridWidth - w), y |-> AtLeast(0, c.y),
     w |-> w, h |-> AtLeast(1, c.h)]

Moved(c, dx, dy) == Normalize([c EXCEPT !.x = @ + dx, !.y = @ + dy])
Resized(c, dw, dh) == Normalize([c EXCEPT !.w = @ + dw, !.h = @ + dh])
Aligned(c, axis, value) == Normalize([c EXCEPT ![axis] = value])

\* Math.round(v / step) * step: halves go up.
SnapTo(v, step) == ((2 * v + step) \div (2 * step)) * step
Snapped(c, stepX, stepY) ==
    Normalize([x |-> AtLeast(0, SnapTo(c.x, stepX)), y |-> AtLeast(0, SnapTo(c.y, stepY)),
               w |-> AtLeast(1, SnapTo(c.w, stepX)), h |-> AtLeast(1, SnapTo(c.h, stepY))])

-----------------------------------------------------------------------------
(* Operations.  cs holds the containers so far, all normalized.            *)

Swapped(cs, first, second) ==
    [cs EXCEPT ![first] = Normalize(cs[second]), ![second] = Normalize(cs[first])]

\* The stable sort of "distribute", by insertion: each id comes behind those
\* that are not right of it, or below it.
Line(cs, ids, axis) ==
    LET behind(s, i) ==
            Cardinality({k \in 1..Len(s) : cs[s[k]][axis] <= cs[i][axis]})
        line[n \in 0..Len(ids)] ==
            IF n = 0 THEN <<>>
            ELSE InsertAt(line[n - 1], behind(line[n - 1], ids[n]) + 1, ids[n])
    IN line[Len(ids)]

\* The cursor after k containers: each starts where the one before ends, plus the
\* gap.  The grid's edge stops a container but not the cursor.
Offset(cs, line, axis, gap) ==
    LET size(c) == IF axis = "x" THEN c.w ELSE c.h
        cursor[k \in 0..Len(line)] ==
            IF k = 0 THEN cs[line[1]][axis]
            ELSE cursor[k - 1] + size(cs[line[k]]) + gap
    IN cursor

Distributed(cs, ids, axis, gap) ==
    LET line == Line(cs, ids, axis)
        cursor == Offset(cs, line, axis, gap)
        place(i) == cursor[(CHOOSE k \in 1..Len(line) : line[k] = i) - 1]
    IN [i \in DOMAIN cs |-> IF Len(ids) >= 2 /\ i \in Elements(ids)
                            THEN Aligned(cs[i], axis, place(i))
                            ELSE cs[i]]

\* The computation starts from normalized containers.
Prepared(cs) == [i \in DOMAIN cs |-> Normalize(cs[i])]

\* resolveLayoutInstanceIds(): all, in the order before the command, if an
\* operation names none.
Targets(ids, all) == IF ids = <<>> THEN all ELSE ids

\* What the operations on one container after the other make of each.
Changed(c, op) ==
    CASE op.op = "set" -> Normalize(op.container)
      [] op.op = "move" -> Moved(c, op.dx, op.dy)
      [] op.op = "resize" -> Resized(c, op.dw, op.dh)
      [] op.op = "align" -> Aligned(c, op.axis, op.value)
      [] op.op = "snap" -> Snapped(c, op.stepX, op.stepY)

ChangedEach(cs, ids, op) ==
    [i \in DOMAIN cs |-> IF i \in Elements(ids) THEN Changed(cs[i], op) ELSE cs[i]]

\* One operation on a layout: containers and order so far; all is the order
\* before the command.
Apply(layout, op, all) ==
    LET cs == layout.container
        ids == Targets(op.ids, all)
        others == Without(layout.order, {op.ids[1]}) IN
    CASE op.op = "swap" ->
            [layout EXCEPT !.container = Swapped(cs, op.ids[1], op.ids[2])]
      [] op.op = "bring-to-front" ->
            [layout EXCEPT !.order = Append(others, op.ids[1])]
      [] op.op = "send-to-back" ->
            [layout EXCEPT !.order = <<op.ids[1]>> \o others]
      [] op.op = "distribute" ->
            [layout EXCEPT !.container = Distributed(cs, ids, op.axis, op.gap)]
      [] OTHER ->
            [layout EXCEPT !.container = ChangedEach(cs, ids, op)]

\* computeLayoutUpdate()
Updated(layout, ops) ==
    LET after[n \in 0..Len(ops)] ==
            IF n = 0 THEN [layout EXCEPT !.container = Prepared(layout.container)]
            ELSE Apply(after[n - 1], ops[n], layout.order)
    IN after[Len(ops)]

-----------------------------------------------------------------------------
Layout == [container |-> container, order |-> order]

Axis == {"x", "y"}
One == {<<i>> : i \in Mounted}
Two == {<<i, j>> : i \in Mounted, j \in Mounted} \ {<<i, i>> : i \in Mounted}
Listed == {<<>>} \cup Two

\* The operations that the room accepts now: ids are mounted, a swap has two.
Restack == [op : {"bring-to-front", "send-to-back"}, ids : One]
Exchange == [op : {"swap"}, ids : Two]
Move == [op : {"move"}, ids : One, dx : Delta, dy : Delta]
Resize == [op : {"resize"}, ids : One, dw : Delta, dh : Delta]
Place == [op : {"set"}, ids : One, container : Placement]
Align == [op : {"align"}, ids : Listed, axis : Axis, value : {1}]
Distribute == [op : {"distribute"}, ids : Listed, axis : Axis, gap : Gap]
Snap == [op : {"snap"}, ids : Listed, stepX : Step, stepY : Step]
Op == Restack \cup Exchange \cup Move \cup Resize \cup Place \cup Align
      \cup Distribute \cup Snap

GridInit == container = <<>> /\ order = <<>>

\* A mount takes the container of the command as it is.
Mount(i, c) ==
    /\ i \notin Mounted
    /\ container' = [j \in Mounted \cup {i} |-> IF j = i THEN c ELSE container[j]]
    /\ order' = Append(order, i)

Unmount(i) ==
    /\ i \in Mounted
    /\ container' = [j \in Mounted \ {i} |-> container[j]]
    /\ order' = Without(order, {i})

\* handleLayout(): all operations or, if one is refused, none.
HandleLayout(ops) ==
    LET after == Updated(Layout, ops) IN
    /\ \A i \in Mounted : after.container[i].y <= MaxY /\ after.container[i].h <= MaxH
    /\ container' = after.container
    /\ order' = after.order

GridNext ==
    \/ \E i \in Instance, c \in Placement : Mount(i, c)
    \/ \E i \in Instance : Unmount(i)
    \/ \E n \in 1..MaxOps : \E ops \in [1..n -> Op] : HandleLayout(ops)

GridSpec == GridInit /\ [][GridNext]_gridVars

-----------------------------------------------------------------------------
(* Properties.                                                             *)

GridTypeOK ==
    /\ Mounted \subseteq Instance
    /\ container \in [Mounted -> Container]
    /\ \A i \in Mounted : /\ container[i].x >= 0 /\ container[i].y >= 0
                          /\ container[i].w \in 1..GridWidth /\ container[i].h >= 1
    /\ order \in Seq(Mounted) /\ Elements(order) = Mounted
    /\ \A j, k \in 1..Len(order) : order[j] = order[k] => j = k

\* A layout command that changes anything leaves every instance inside the
\* grid, those too that were mounted across its right edge and not named.
LayoutTidies ==
    [][DOMAIN container' = DOMAIN container /\ container' # container =>
           \A i \in DOMAIN container' : InGrid(container'[i])]_gridVars

\* Sending a command again commits nothing: true of every operation that does
\* not shift or swap, of "distribute" down the y axis only, and of "snap" with
\* horizontal steps that divide the width.
RepeatChangesNothing ==
    \A op \in Restack \cup Place \cup Align \cup Snap
              \cup {d \in Distribute : d.axis = "y"} :
        LET once == Updated(Layout, <<op>>) IN
        (op.op = "snap" => GridWidth % op.stepX = 0) => Updated(once, <<op>>) = once

\* A restack or move followed by an operation on all instances does the same in
\* one command as in two, with one exception: "all" are taken in the order before
\* the command, which "distribute" sees after a restack of the same command.
BatchIsSequence ==
    \A first \in Restack \cup Move,
       second \in {op \in Align \cup Distribute \cup Snap : op.ids = <<>>} :
        \/ Updated(Layout, <<first, second>>) = Updated(Updated(Layout, <<first>>), <<second>>)
        \/ first \in Restack /\ second.op = "distribute"
=============================================================================
