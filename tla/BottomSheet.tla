------------------------------ MODULE BottomSheet ------------------------------
(***************************************************************************)
(* useBottomSheet.ts: on phones the rail is a sheet that is dragged, or    *)
(* tapped, from one resting place to the next.  Lengths are whole units of *)
(* a few pixels, large enough that a flick of one unit counts as travel.   *)
(***************************************************************************)
EXTENDS Integers, Sequences, FiniteSets

CONSTANTS
    Heights,    \* of the viewport; multiples of 25, to have whole percents
    Peek,       \* PEEK_PX
    Places,     \* of a finger on the screen
    Fingers,
    NoOffset

ASSUME SheetAssumption ==
    /\ Peek \in Nat /\ Places \subseteq Int /\ NoOffset \notin Int
    /\ \A h \in Heights : h \in Nat /\ h % 25 = 0

VARIABLES
    viewport,   \* innerHeight
    narrow,     \* whether the media query matches now ...
    isSheet,    \* ... and did when React last heard of it
    snap,
    dragging,
    grip,       \* dragRef
    offset,     \* --sheet-y, or NoOffset where it is removed
    touching    \* the fingers whose pointer the handle has captured

sheetVars == <<viewport, narrow, isSheet, snap, dragging, grip, offset, touching>>

Order == <<"full", "half", "peek">>
Snap == {"full", "half", "peek"}
IndexOf(point) == CHOOSE i \in DOMAIN Order : Order[i] = point

AtLeast(low, x) == IF x < low THEN low ELSE x
AtMost(high, x) == IF x > high THEN high ELSE x
Distance(x, y) == IF x < y THEN y - x ELSE x - y
Percent(p, h) == (p * h) \div 100

OffsetIn(h, point) ==
    CASE point = "full" -> 0
      [] point = "half" -> AtLeast(0, Percent(88, h) - Percent(52, h))
      [] point = "peek" -> AtLeast(0, Percent(88, h) - Peek)

OffsetFor(point) == OffsetIn(viewport, point)

(* Where the grip has the sheet when the finger is at y.                   *)
Dragged(y) == AtMost(OffsetFor("peek"), AtLeast(0, grip.startOffset + y - grip.startY))

NoGrip == [startY |-> 0, startOffset |-> 0, lastY |-> 0, velocity |-> "slow"]

SheetInit ==
    /\ viewport \in Heights /\ narrow \in BOOLEAN /\ isSheet = FALSE
    /\ snap = "peek" /\ dragging = FALSE /\ grip = NoGrip
    /\ offset = NoOffset /\ touching = {}

(* The effect: settle, unless the finger has the sheet.                    *)
Settled(sheet, h, point, held) ==
    IF ~sheet THEN NoOffset ELSE IF held THEN offset ELSE OffsetIn(h, point)
-----------------------------------------------------------------------------
(* Fault: nobody listens to "resize".                                      *)
FaultyResize(h) ==
    /\ viewport' = h /\ narrow' \in BOOLEAN
    /\ UNCHANGED <<isSheet, snap, dragging, grip, offset, touching>>

(* The window is resized or the phone turned.                              *)
Resize(h) ==
    /\ viewport' = h /\ narrow' \in BOOLEAN
    /\ offset' = IF isSheet THEN Settled(isSheet, h, snap, dragging) ELSE offset
    /\ UNCHANGED <<isSheet, snap, dragging, grip, touching>>

Sync ==
    /\ isSheet # narrow /\ isSheet' = narrow
    /\ offset' = Settled(narrow, viewport, snap, dragging)
    /\ UNCHANGED <<viewport, narrow, snap, dragging, grip, touching>>

(* onPointerDown; a second finger takes the sheet over.                    *)
Press(f, y) ==
    /\ narrow /\ f \notin touching /\ touching' = touching \cup {f}
    /\ IF isSheet
       THEN /\ dragging' = TRUE
            /\ grip' = [startY |-> y, startOffset |-> OffsetFor(snap),
                        lastY |-> y, velocity |-> "slow"]
       ELSE UNCHANGED <<dragging, grip>>
    /\ UNCHANGED <<viewport, narrow, isSheet, snap, offset>>

(* onPointerMove, by whichever finger; two events of one instant leave the *)
(* velocity alone.                                                         *)
Drag(y) ==
    /\ dragging /\ touching # {}
    /\ offset' = Dragged(y)
    /\ \/ UNCHANGED grip
       \/ \E v \in {"slow"} \cup (IF y < grip.lastY THEN {"up"} ELSE {})
                            \cup (IF y > grip.lastY THEN {"down"} ELSE {}) :
             grip' = [grip EXCEPT !.lastY = y, !.velocity = v]
    /\ UNCHANGED <<viewport, narrow, isSheet, snap, dragging, touching>>

Nearest(x) ==
    CHOOSE p \in Snap : \A q \in Snap :
        \/ Distance(OffsetFor(p), x) < Distance(OffsetFor(q), x)
        \/ Distance(OffsetFor(p), x) = Distance(OffsetFor(q), x) /\ IndexOf(p) <= IndexOf(q)

(* A flick goes one step from where the sheet rested last.                 *)
Released(y) ==
    IF grip.velocity # "slow" /\ y # grip.startY
    THEN LET i == IndexOf(snap) + (IF grip.velocity = "down" THEN 1 ELSE -1)
         IN Order[AtMost(Len(Order), AtLeast(1, i))]
    ELSE Nearest(Dragged(y))

(* endDrag: up or cancel, by whichever finger.                             *)
Release(f, y) ==
    /\ f \in touching /\ touching' = touching \ {f}
    /\ IF dragging
       THEN /\ dragging' = FALSE /\ snap' = Released(y)
            /\ offset' = Settled(isSheet, viewport, snap', FALSE)
       ELSE UNCHANGED <<dragging, snap, offset>>
    /\ UNCHANGED <<viewport, narrow, isSheet, grip>>

(* The click of a tap or of a mouse that let go, or the keyboard's.        *)
Cycle ==
    /\ narrow
    /\ snap' = CASE snap = "peek" -> "half" [] snap = "half" -> "full" [] OTHER -> "peek"
    /\ offset' = Settled(isSheet, viewport, snap', dragging)
    /\ UNCHANGED <<viewport, narrow, isSheet, dragging, grip, touching>>

SheetNext ==
    \/ \E h \in Heights : Resize(h)
    \/ Sync \/ Cycle
    \/ \E y \in Places : Drag(y) \/ \E f \in Fingers : Press(f, y) \/ Release(f, y)

SheetSpec == SheetInit /\ [][SheetNext]_sheetVars
-----------------------------------------------------------------------------
(* The sheet never stops half way: while no finger has it, it stands where *)
(* its resting place is in the viewport as it is now, or nowhere when the  *)
(* rail is a rail; and a drag has a finger on the handle that can end it.  *)
SheetSettles ==
    /\ ~dragging => offset = IF isSheet THEN OffsetFor(snap) ELSE NoOffset
    /\ dragging => touching # {}
=============================================================================
