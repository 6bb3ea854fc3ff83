------------------------------ MODULE ShapeEdits ------------------------------
(***************************************************************************)
(* Hand-shaped zones as data (lib/types.ts, lib/zoneShape.ts): a circle    *)
(* with points pulled out of its edge, or an outline drawn by hand of which *)
(* some points are handles.  What a point is does not matter here; indices  *)
(* count from 1.                                                            *)
(***************************************************************************)
EXTENDS Integers, Sequences, FiniteSets, SequencesExt

CONSTANT MinPoints  \* MIN_POINTS, MIN_FREEHAND_POINTS: 3

ASSUME MinPointsAssumption == MinPoints \in Nat \ {0}

NoShape == [kind |-> "none"]
Pulled(circle, pulls) == [kind |-> "pulled", circle |-> circle, pulls |-> pulls]
Freehand(points) == [kind |-> "freehand", points |-> points]

(* The points that are handles, by their place among the others.           *)
Handles(shape) ==
    CASE shape.kind = "none" -> {}
      [] shape.kind = "pulled" -> DOMAIN shape.pulls
      [] shape.kind = "freehand" -> {i \in DOMAIN shape.points : shape.points[i].handle}

(* checkHandleIndex throws a RangeError where this is false.               *)
IsHandle(shape, index) == index \in 1..Cardinality(Handles(shape))

(* The handles among the first n points.                                   *)
HandleCount(points, n) == Cardinality({i \in 1..n : points[i].handle})

(* The point that is the index-th handle.                                  *)
FreehandPosition(points, index) ==
    CHOOSE i \in DOMAIN points : points[i].handle /\ HandleCount(points, i) = index

(* Fault: the handles before the new point are counted without it.         *)
FaultyInsertPointAt(shape, after, grab) ==
    IF shape.kind = "pulled"
    THEN [shape |-> Pulled(shape.circle, InsertAt(shape.pulls, after + 1, grab)),
          index |-> after + 1]
    ELSE LET points == InsertAt(shape.points, after + 1, [at |-> grab, handle |-> TRUE])
         IN [shape |-> Freehand(points), index |-> HandleCount(points, after)]

(* Fault: the new pull goes before the one its gap belongs to.             *)
FaultyInsertGap(shape, after, grab) ==
    IF shape.kind = "pulled"
    THEN [shape |-> Pulled(shape.circle, InsertAt(shape.pulls, after, grab)),
          index |-> after]
    ELSE LET points == InsertAt(shape.points, after + 1, [at |-> grab, handle |-> TRUE])
         IN [shape |-> Freehand(points), index |-> HandleCount(points, after + 1)]

(* insertPointAt, once the nearest segment is known: "after" is the pull   *)
(* its gap belongs to, or the point it starts from.                        *)
InsertPointAt(shape, after, grab) ==
    IF shape.kind = "pulled"
    THEN [shape |-> Pulled(shape.circle, InsertAt(shape.pulls, after + 1, grab)),
          index |-> after + 1]
    ELSE LET points == InsertAt(shape.points, after + 1, [at |-> grab, handle |-> TRUE])
         IN [shape |-> Freehand(points), index |-> HandleCount(points, after + 1)]

MoveHandle(shape, index, to) ==
    IF shape.kind = "pulled"
    THEN [shape EXCEPT !.pulls[index] = to]
    ELSE [shape EXCEPT !.points[FreehandPosition(shape.points, index)].at = to]

(* removeHandle's null, when the last pull goes, is NoShape.               *)
RemoveHandle(shape, index) ==
    CASE shape.kind = "freehand" ->
            Freehand(RemoveAt(shape.points, FreehandPosition(shape.points, index)))
      [] shape.kind = "pulled" /\ Len(shape.pulls) > 1 ->
            Pulled(shape.circle, RemoveAt(shape.pulls, index))
      [] OTHER -> NoShape

(* removeHandle throws where this is false.                                *)
CanRemove(shape) ==
    \/ shape.kind = "pulled"
    \/ shape.kind = "freehand" /\ Len(shape.points) > MinPoints

(* Every point, and the circle's centre, moved along by the function f.    *)
TranslateShape(shape, f) ==
    CASE shape.kind = "none" -> NoShape
      [] shape.kind = "pulled" ->
            Pulled([shape.circle EXCEPT !.center = f[@]],
                   [i \in DOMAIN shape.pulls |-> f[shape.pulls[i]]])
      [] shape.kind = "freehand" ->
            Freehand([i \in DOMAIN shape.points |-> [shape.points[i] EXCEPT !.at = f[@]]])
-----------------------------------------------------------------------------
(* Pieces of a freehand line.  A piece after the first starts where the    *)
(* one before it ends.                                                     *)
JoinPieces(pieces) ==
    FlattenSeq([i \in DOMAIN pieces |-> IF i = 1 THEN pieces[i] ELSE Tail(pieces[i])])

CanFinishPieces(pieces) == Len(FlattenSeq(pieces)) >= MinPoints

(* penDownAction: what a press does, given what it is near to.             *)
PenDownAction(pieces, nearFirst, nearLast) ==
    CASE pieces = <<>> -> "start"
      [] pieces # <<>> /\ CanFinishPieces(pieces) /\ nearFirst -> "finish"
      [] pieces # <<>> /\ ~(CanFinishPieces(pieces) /\ nearFirst) ->
            IF nearLast THEN "start" ELSE "stray"
=============================================================================
