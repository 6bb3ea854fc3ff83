---------------------------- MODULE MCZoneEditor ----------------------------
(* ZoneEditor with two places, one of which lines are drawn at.            *)
EXTENDS ZoneEditor

(* Bounds: one point of a shape has been moved at most, and none while a   *)
(* line is drawn; while the pin is held nothing else is.                   *)
MovedPoints ==
    LET At(i) == IF draft.shape.kind = "pulled" THEN draft.shape.pulls[i]
                 ELSE draft.shape.points[i].at
    IN Cardinality({i \in Handles(draft.shape) : At(i) # Start})

Simple ==
    /\ pin.on => pieces = <<>> /\ ~drag.on
    /\ pieces # <<>> => MovedPoints = 0
    /\ MovedPoints <= 1
=============================================================================
