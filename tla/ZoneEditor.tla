------------------------------- MODULE ZoneEditor -------------------------------
(***************************************************************************)
(* A watch zone being shaped on the map: the draft that Dashboard.tsx      *)
(* holds, the gestures of ZoneShapeEditor.tsx on it, and the buttons of    *)
(* WatchZonePanel.tsx.  A gesture is a press that lives in a closure on    *)
(* window until its pointer is released, while buttons, a second finger    *)
(* and other presses change the draft underneath it.                       *)
(*                                                                         *)
(* A handler and the render it causes are one step: both are flushed       *)
(* before the next event of a press, a click or a key.                     *)
(***************************************************************************)
EXTENDS ShapeEdits

CONSTANTS
    Places,        \* where a pointer can be
    Start,         \* the place a drawn line starts from and stays at
    RadiusStep,    \* RADIUS_STEP_M, the slider's step and least value
    MaxRadius,     \* MAX_CIRCLE_RADIUS_M
    NewRadius,     \* the radius of a new zone's circle
    DrawnRadii,    \* radii the server may have given a drawn zone
    MaxPulls,      \* bound on the points pulled out of a circle
    MaxCorners,    \* bound on the points of an outline drawn by hand
    MaxPieces,     \* bounds on the pieces of a line
    MaxPiece       \* and on the points of a piece

ASSUME EditorAssumption ==
    /\ Start \in Places
    /\ DrawnRadii \subseteq Nat \ {0} /\ MaxPulls \in Nat /\ MaxCorners \in Nat
    /\ RadiusStep \in Nat \ {0} /\ MaxRadius \in Nat
    /\ NewRadius % RadiusStep = 0 /\ NewRadius \in RadiusStep..MaxRadius

VARIABLES
    draft,      \* zoneDraft
    saved,      \* editingZone, of which only the radius matters here
    mode,       \* zoneMode
    penDown,
    pieces,     \* freehandPieces
    stray,      \* startedAwayFromEnd
    stroke,     \* the piece being drawn: endStroke, before, piece
    drag,       \* the handle being dragged: endDrag and what drag() closed over
    hold,       \* the point a long-press timer is running for, or 0
    pin,        \* pinStart
    panning,    \* map.dragging.enabled()
    restore     \* wasDraggable of the effect that turns panning off to draw

panelVars == <<draft, saved, mode, penDown, pieces, stray>>
vars == <<draft, saved, mode, penDown, pieces, stray,
          stroke, drag, hold, pin, panning, restore>>

Modes == {"pull", "freehand"}
Radii == {r \in RadiusStep..MaxRadius : r % RadiusStep = 0}
Circle == [center : Places, radius : Nat]
NoZone == 0

NoDraft == [open |-> FALSE, shape |-> NoShape]
Draft(center, radius, shape) ==
    [open |-> TRUE, center |-> center, radius |-> radius, shape |-> shape]

NoStroke == [on |-> FALSE]
NoDrag == [on |-> FALSE]
NoPin == [on |-> FALSE]

Drawing == draft.open /\ mode = "freehand" /\ penDown
Active == draft.open /\ mode = "pull"

Init ==
    /\ draft = NoDraft /\ saved = NoZone
    /\ mode = "pull" /\ penDown = FALSE /\ pieces = <<>> /\ stray = FALSE
    /\ stroke = NoStroke /\ drag = NoDrag /\ hold = 0 /\ pin = NoPin
    /\ panning = TRUE /\ restore = FALSE
-----------------------------------------------------------------------------
(* Fault: a drag that is cut short leaves the map as it is.                *)
FaultyPanningAfterDrag == panning

(* end() of a drag: the map pans again if it did when the drag began.      *)
PanningAfterDrag == panning \/ (drag.on /\ drag.was)

(* What follows from a render: the editor unmounts with the draft and its  *)
(* drag ends; the effect of "drawing" starts, goes on or is cleaned up.    *)
Settle ==
    LET free == IF draft'.open THEN panning ELSE PanningAfterDrag
    IN /\ drag' = (IF draft'.open THEN drag ELSE NoDrag)
       /\ hold' = IF draft'.open THEN hold ELSE 0
       /\ pin' = IF draft'.open THEN pin ELSE NoPin
       /\ stroke' = IF Drawing' THEN stroke ELSE NoStroke
       /\ CASE Drawing /\ Drawing'   -> UNCHANGED <<panning, restore>>
            [] ~Drawing /\ Drawing'  -> restore' = free /\ panning' = FALSE
            [] Drawing /\ ~Drawing'  -> restore' = FALSE /\ panning' = (free \/ restore)
            [] ~Drawing /\ ~Drawing' -> restore' = FALSE /\ panning' = free
-----------------------------------------------------------------------------
(* resetFreehand                                                           *)
ResetFreehand == mode' = "pull" /\ pieces' = <<>> /\ penDown' = FALSE /\ stray' = FALSE

(* startNewZone, from a panel that is away while a draft is open.          *)
StartNewZone(at) ==
    /\ ~draft.open
    /\ draft' = Draft(at, NewRadius, NoShape)
    /\ saved' = NoZone
    /\ ResetFreehand /\ Settle

(* Zones that can be saved: circles, and drawn zones whose centre is the   *)
(* average of the outline's vertices and whose radius is its reach.        *)
SavedZones ==
    {Draft(c, r, NoShape) : c \in Places, r \in Radii}
      \cup {Draft(c, r, Pulled([center |-> Start, radius |-> NewRadius], <<p>>)) :
               p \in Places, c \in Places, r \in DrawnRadii}
      \cup {Draft(c, r, Freehand([i \in 1..MinPoints |->
                                     [at |-> Start, handle |-> i = 1]])) :
               c \in Places, r \in DrawnRadii}

StartEditZone(zone) ==
    /\ ~draft.open
    /\ draft' = zone
    /\ saved' = zone.radius
    /\ ResetFreehand /\ Settle

(* handleSwitchToZone: the report form may be open beside a draft.         *)
SwitchToZone(at) ==
    /\ draft' = Draft(at, NewRadius, NoShape)
    /\ ResetFreehand /\ Settle
    /\ UNCHANGED saved

(* closeZone, for Close, Cancel, Escape and a save that was answered.      *)
CloseZone ==
    /\ draft.open
    /\ draft' = NoDraft /\ saved' = NoZone
    /\ ResetFreehand /\ Settle

(* Fault: a click moves the centre of a drawn zone.                        *)
FaultyMapClick(at) ==
    /\ draft.open
    /\ ~Drawing
    /\ draft' = [draft EXCEPT !.center = at]
    /\ UNCHANGED <<saved, mode, penDown, pieces, stray>> /\ Settle

(* handleMapClick with a draft: a click on the map, or the key "n", which  *)
(* may be struck in the middle of a drag.                                  *)
MapClick(at) ==
    /\ draft.open
    /\ ~Drawing
    /\ draft.shape = NoShape
    /\ draft' = [draft EXCEPT !.center = at]
    /\ UNCHANGED <<saved, mode, penDown, pieces, stray>> /\ Settle

ModeChange(m) ==
    /\ draft.open
    /\ mode' = m /\ penDown' = (m = "freehand") /\ stray' = FALSE
    /\ UNCHANGED <<draft, saved, pieces>> /\ Settle

(* The panel's freehand buttons.                                           *)
Freehanding == draft.open /\ mode = "freehand"

PenToggle ==
    /\ Freehanding
    /\ penDown' = ~penDown /\ stray' = FALSE
    /\ UNCHANGED <<draft, saved, mode, pieces>> /\ Settle

UndoPiece ==
    /\ Freehanding
    /\ pieces # <<>>
    /\ pieces' = Front(pieces) /\ stray' = FALSE
    /\ UNCHANGED <<draft, saved, mode, penDown>> /\ Settle

ClearPieces ==
    /\ Freehanding
    /\ pieces # <<>>
    /\ pieces' = <<>> /\ stray' = FALSE
    /\ UNCHANGED <<draft, saved, mode, penDown>> /\ Settle

(* handleZoneRadius; the slider is there for a circle only.                *)
ZoneRadius(r) ==
    /\ draft.open
    /\ draft.shape = NoShape
    /\ draft' = [draft EXCEPT !.radius = r]
    /\ UNCHANGED <<saved, mode, penDown, pieces, stray>> /\ Settle

(* freehandShape thins the line to n of its points, or throws; the centre  *)
(* becomes the outline's centroid.                                         *)
FinishFreehand(n, at) ==
    /\ Freehanding
    /\ CanFinishPieces(pieces)
    /\ n \in MinPoints..MaxCorners /\ n <= Len(JoinPieces(pieces))
    /\ draft' = [draft EXCEPT
          !.center = at,
          !.shape = Freehand([i \in 1..n |-> [at |-> Start, handle |-> FALSE]])]
    /\ ResetFreehand /\ Settle
    /\ UNCHANGED saved
-----------------------------------------------------------------------------
(* The slider's value nearest to a radius.                                 *)
OnSlider(r) ==
    LET capped == IF r > MaxRadius THEN MaxRadius ELSE r
    IN ((2 * capped + RadiusStep) \div (2 * RadiusStep)) * RadiusStep

(* The circles resetToCircle may come to.                                  *)
Circles(d, radius) ==
    CASE d.shape.kind = "none" -> {d}
      [] d.shape.kind = "pulled" ->
            {Draft(d.shape.circle.center, d.shape.circle.radius, NoShape)}
      [] d.shape.kind = "freehand" -> {Draft(at, OnSlider(radius), NoShape) : at \in Places}

(* handleResetToCircle                                                     *)
ResetToCircle ==
    /\ draft.open
    /\ draft.shape # NoShape
    /\ draft' \in Circles(draft, IF saved = NoZone THEN draft.radius ELSE saved)
    /\ UNCHANGED <<saved, mode, penDown, pieces, stray>> /\ Settle

(* removeAt; removeHandle throws where there is no such point.             *)
WithoutPoint(d, index) ==
    IF d.shape = NoShape \/ ~CanRemove(d.shape) \/ ~IsHandle(d.shape, index) THEN {d}
    ELSE LET next == RemoveHandle(d.shape, index)
         IN IF next = NoShape THEN Circles(d, d.radius) ELSE {[d EXCEPT !.shape = next]}
-----------------------------------------------------------------------------
(* Fault: the timer of the press before goes on.                           *)
FaultyTimer(index) == IF hold # 0 THEN hold ELSE index

(* The press before has its timer cleared; this one gets its own.          *)
Timer(index) == index

(* drag(): another press ends the one before.  "timed" is the point that   *)
(* holding the press still takes out, if it may.                           *)
BeginDrag(base, shape, index, created, timed) ==
    /\ drag' = [on |-> TRUE, base |-> base, shape |-> shape, index |-> index,
                created |-> created, moved |-> FALSE, held |-> FALSE,
                was |-> PanningAfterDrag]
    /\ hold' = Timer(timed)
    /\ panning' = FALSE
    /\ UNCHANGED <<saved, mode, penDown, pieces, stray, stroke, pin, restore>>

(* grabEdge, on a circle or in the gap after a point.                      *)
GrabEdge(at, after) ==
    LET size == IF draft.shape.kind = "freehand" THEN Len(draft.shape.points)
                ELSE Cardinality(Handles(draft.shape))
        new == IF draft.shape = NoShape
               THEN [shape |-> Pulled([center |-> draft.center, radius |-> draft.radius], <<at>>),
                     index |-> 1]
               ELSE InsertPointAt(draft.shape, after, at)
    IN /\ Active
       /\ IF draft.shape = NoShape THEN after = 0 ELSE after \in 1..size
       /\ size < (IF draft.shape.kind = "freehand" THEN MaxCorners ELSE MaxPulls)
       /\ draft' = [draft EXCEPT !.shape = new.shape]
       /\ BeginDrag(draft, new.shape, new.index, TRUE, 0)

GrabHandle(index) ==
    /\ Active
    /\ IsHandle(draft.shape, index)
    /\ BeginDrag(draft, draft.shape, index, FALSE, IF CanRemove(draft.shape) THEN index ELSE 0)
    /\ UNCHANGED draft

(* move(): what it was given when it was pressed, and the pointer.         *)
DragTo(at) ==
    /\ drag.on /\ ~drag.held
    /\ drag' = [drag EXCEPT !.moved = TRUE]
    /\ hold' = 0
    /\ draft' = [drag.base EXCEPT !.shape = MoveHandle(drag.shape, drag.index, at)]
    /\ UNCHANGED <<saved, mode, penDown, pieces, stray, stroke, pin, panning, restore>>

(* onLongPress                                                             *)
LongPress ==
    /\ hold # 0
    /\ hold' = 0
    /\ drag' = [drag EXCEPT !.held = TRUE]
    /\ draft' \in WithoutPoint(draft, hold)
    /\ UNCHANGED <<saved, mode, penDown, pieces, stray, stroke, pin, panning, restore>>

(* up(), and a cancelled pointer: a tap takes its new point back.          *)
Release ==
    /\ drag.on
    /\ draft' = IF drag.created /\ ~drag.moved /\ ~drag.held THEN drag.base ELSE draft
    /\ drag' = NoDrag /\ hold' = 0
    /\ panning' = PanningAfterDrag
    /\ UNCHANGED <<saved, mode, penDown, pieces, stray, stroke, pin, restore>>

(* onRemove                                                                *)
DoubleClick(index) ==
    /\ Active /\ ~drag.on
    /\ IsHandle(draft.shape, index)
    /\ CanRemove(draft.shape)
    /\ draft' \in WithoutPoint(draft, index)
    /\ UNCHANGED <<saved, mode, penDown, pieces, stray,
                   stroke, drag, hold, pin, panning, restore>>
-----------------------------------------------------------------------------
(* A place shifted along with the pin.                                     *)
Shifts == {f \in [Places -> Places] : \A p, q \in Places : f[p] = f[q] => p = q}

TranslateDraft(d, f) == [d EXCEPT !.center = f[@], !.shape = TranslateShape(@, f)]

PinStart ==
    /\ Active /\ ~drag.on /\ ~pin.on
    /\ pin' = [on |-> TRUE, draft |-> draft]
    /\ UNCHANGED <<panelVars, stroke, drag, hold, panning, restore>>

(* The draft the pin was on when it was pressed, and not the present one;  *)
(* Leaflet drags no marker while a second finger is down.                  *)
PinMove(f) ==
    /\ Active /\ pin.on /\ ~drag.on
    /\ draft' = TranslateDraft(pin.draft, f)
    /\ UNCHANGED <<saved, mode, penDown, pieces, stray,
                   stroke, drag, hold, pin, panning, restore>>

PinEnd ==
    /\ pin.on
    /\ pin' = NoPin
    /\ UNCHANGED <<panelVars, stroke, drag, hold, panning, restore>>
-----------------------------------------------------------------------------
(* A line that is not near the place it started from on the screen.        *)
PressAs(action) ==
    \E nearFirst, nearLast \in BOOLEAN :
        PenDownAction(pieces, nearFirst, nearLast) = action

(* down() of the one primary pointer; a stroke it finds is ended.          *)
PenStart ==
    /\ Drawing /\ ~drag.on
    /\ Len(pieces) < MaxPieces
    /\ PressAs("start")
    /\ stroke' = [on |-> TRUE, before |-> pieces, piece |-> <<Start>>]
    /\ UNCHANGED <<panelVars, drag, hold, pin, panning, restore>>

PenStray ==
    /\ Drawing /\ ~drag.on
    /\ PressAs("stray")
    /\ stray' = TRUE
    /\ UNCHANGED <<draft, saved, mode, penDown, pieces,
                   stroke, drag, hold, pin, panning, restore>>

PenFinish(n, at) ==
    /\ Drawing /\ ~drag.on
    /\ PressAs("finish")
    /\ FinishFreehand(n, at)

(* move(): the pieces as they were when the pen went down, and this one.   *)
PenMove ==
    /\ stroke.on
    /\ Len(stroke.piece) < MaxPiece
    /\ stroke' = [stroke EXCEPT !.piece = Append(@, Start)]
    /\ pieces' = Append(stroke.before, stroke'.piece)
    /\ stray' = FALSE
    /\ UNCHANGED <<draft, saved, mode, penDown, drag, hold, pin, panning, restore>>

(* endStroke: the pen goes up, or a second finger comes down.              *)
PenUp ==
    /\ stroke.on
    /\ stroke' = NoStroke
    /\ UNCHANGED <<panelVars, drag, hold, pin, panning, restore>>
-----------------------------------------------------------------------------
Panel ==
    \/ \E at \in Places : StartNewZone(at) \/ SwitchToZone(at) \/ MapClick(at)
    \/ \E zone \in SavedZones : StartEditZone(zone)
    \/ CloseZone \/ PenToggle \/ UndoPiece \/ ClearPieces \/ ResetToCircle
    \/ \E m \in Modes : ModeChange(m)
    \/ \E r \in Radii : ZoneRadius(r)
    \/ \E n \in MinPoints..MaxCorners, at \in Places : FinishFreehand(n, at)

Gesture ==
    \/ \E at \in Places, after \in 0..MaxCorners : GrabEdge(at, after)
    \/ \E index \in 1..MaxCorners : GrabHandle(index) \/ DoubleClick(index)
    \/ \E at \in Places : DragTo(at)
    \/ LongPress \/ Release
    \/ PinStart \/ PinEnd
    \/ \E f \in Shifts : PinMove(f)
    \/ PenStart \/ PenStray \/ PenMove \/ PenUp
    \/ \E n \in MinPoints..MaxCorners, at \in Places : PenFinish(n, at)

Next == Panel \/ Gesture

Spec == Init /\ [][Next]_vars
-----------------------------------------------------------------------------
(* What is dragged after a press on the edge is the point the press added: *)
(* all the others, handles or not, stay where they were before it.         *)
DragMovesOnlyNew ==
    [][(drag.on /\ drag.created /\ \E at \in Places : DragTo(at))
          => RemoveHandle(draft'.shape, drag.index) = drag.base.shape]_vars

(* When a long press goes off, its index still means the point that was    *)
(* pressed, or no point: whatever was done meanwhile with buttons and other *)
(* fingers, it does not take out another one.                              *)
HoldIsFresh ==
    (hold # 0 /\ IsHandle(draft.shape, hold))
        => /\ drag.on /\ ~drag.moved /\ drag.index = hold
           /\ Handles(draft.shape) = Handles(drag.shape)

(* A pulled shape lies round the circle of its draft, unless the server    *)
(* gave the draft a centre of its own: "reset" then finds the circle the   *)
(* user had, wherever clicks, pins and drags have put it since.            *)
CircleMatches ==
    (draft.open /\ saved = NoZone /\ draft.shape.kind = "pulled")
        => draft.shape.circle = [center |-> draft.center, radius |-> draft.radius]

(* No press outlives the editor: with the draft closed nothing is left     *)
(* that could put it back.  And panning, which a drag and the pen turn     *)
(* off, each restoring what it found, is on when neither is at work.       *)
NothingOutlives ==
    /\ ~draft.open => ~drag.on /\ ~stroke.on /\ ~pin.on /\ hold = 0
    /\ (~drag.on /\ ~Drawing) => panning

=============================================================================
