------------------------------- MODULE ZoneShape -------------------------------
(***************************************************************************)
(* The geometry of a hand-shaped zone (lib/zoneShape.ts) on whole numbers: *)
(* a freehand line is thinned to an outline, an outline is validated,      *)
(* points are put on it, moved and taken away, and the worker asks whether *)
(* an alert lies inside.                                                   *)
(*                                                                         *)
(* A point of an outline is a place [x, y] of the local projection.  A     *)
(* pulled point is given by what pulledRing computes of it: its bearing    *)
(* from the centre and the half-angle of its cone, 0 on the circle; angles *)
(* are whole and a full turn is Turn.                                      *)
(***************************************************************************)
EXTENDS ShapeEdits, SeqFolds

CONSTANTS
    Grid,        \* places where a line is drawn and a handle put
    Probes,      \* places of which the worker asks whether they are inside
    MaxLine,     \* bound on the points of a drawn line
    MaxPoints,   \* MAX_POINTS
    Tolerance,   \* what thinning starts with
    MinReach, MaxReach,
    Turn, ArcStep,
    Cones,       \* half-angles of the pulled points: 0, INWARD_SPAN_DEG, ...
    MaxPulls     \* bound on the pulled points

(* A cone's half-angle is less than a quarter of a turn (an arc cosine, or *)
(* INWARD_SPAN_DEG): of half a turn is enough here.                        *)
ASSUME ShapeAssumption ==
    /\ Grid \cup Probes \subseteq [x : Int, y : Int]
    /\ Tolerance \in Nat /\ MaxPoints \in Nat /\ MaxLine \in Nat
    /\ Turn \in Nat /\ ArcStep \in 1..(Turn - 1)
    /\ Cones \subseteq Nat /\ \A cone \in Cones : 2 * cone < Turn

VARIABLES
    shape,  \* the draft's shape
    line,   \* the line freehandShape was called with; <<>> when it was not
    thin    \* simplify at work

vars == <<shape, line, thin>>

Pull == [bearing : 0..(Turn - 1), cone : Cones]
Circle == "circle"

(* The item after the i-th of a closed ring.                               *)
After(ring, i) == ring[(i % Len(ring)) + 1]
-----------------------------------------------------------------------------
Square(n) == n * n
Gap(p, q) == Square(p.x - q.x) + Square(p.y - q.y)

Orientation(a, b, c) == (b.x - a.x) * (c.y - a.y) - (b.y - a.y) * (c.x - a.x)

Between(n, m, k) == (n <= k /\ k <= m) \/ (m <= k /\ k <= n)
OnSegment(a, b, c) == Between(a.x, b.x, c.x) /\ Between(a.y, b.y, c.y)

Opposite(d, e) == (d > 0 /\ e < 0) \/ (d < 0 /\ e > 0)

(* Fault: only edges that cross in their middle count.                     *)
FaultySegmentsIntersect(p1, p2, p3, p4) ==
    /\ Opposite(Orientation(p3, p4, p1), Orientation(p3, p4, p2))
    /\ Opposite(Orientation(p1, p2, p3), Orientation(p1, p2, p4))

SegmentsIntersect(p1, p2, p3, p4) ==
    LET d1 == Orientation(p3, p4, p1)  d2 == Orientation(p3, p4, p2)
        d3 == Orientation(p1, p2, p3)  d4 == Orientation(p1, p2, p4)
    IN \/ Opposite(d1, d2) /\ Opposite(d3, d4)
       \/ d1 = 0 /\ OnSegment(p3, p4, p1)
       \/ d2 = 0 /\ OnSegment(p3, p4, p2)
       \/ d3 = 0 /\ OnSegment(p1, p2, p3)
       \/ d4 = 0 /\ OnSegment(p1, p2, p4)

(* Pairs of edges, by their first points, that have no point in common.    *)
ApartEdges(ring) ==
    {e \in (DOMAIN ring) \X (DOMAIN ring) :
        e[1] + 1 < e[2] /\ ~(e[1] = 1 /\ e[2] = Len(ring))}

HasCrossingEdges(ring) ==
    \E e \in ApartEdges(ring) :
        SegmentsIntersect(ring[e[1]], After(ring, e[1]), ring[e[2]], After(ring, e[2]))

(* n times the distance of a point from the centroid, squared: the         *)
(* centroid's coordinates are the sums divided by n.                       *)
ReachSq(ring, p) ==
    Square(Len(ring) * p.x - SumOf([i \in DOMAIN ring |-> ring[i].x]))
      + Square(Len(ring) * p.y - SumOf([i \in DOMAIN ring |-> ring[i].y]))

(* Nobody's edges are further than MaxReach from the middle; the rules in  *)
(* their order.                                                            *)
ValidateOutline(ring) ==
    LET Further(r) == \E p \in ToSet(ring) : ReachSq(ring, p) > Square(r * Len(ring))
        Reaches(r) == \E p \in ToSet(ring) : ReachSq(ring, p) >= Square(r * Len(ring))
    IN CASE Len(ring) < MinPoints -> "few"
         [] Len(ring) > MaxPoints -> "many"
         [] OTHER -> IF HasCrossingEdges(ring) THEN "crossing"
                     ELSE IF Further(MaxReach) THEN "big"
                     ELSE IF ~Reaches(MinReach) THEN "small" ELSE "none"

TwiceArea(ring) ==
    LET n == SumOf([i \in DOMAIN ring |-> ring[i].x * After(ring, i).y
                                            - After(ring, i).x * ring[i].y])
    IN IF n < 0 THEN -n ELSE n

(* GeoMath.ContainsPoint: the edges to the right of p at its height.       *)
ContainsPoint(ring, p) ==
    LET Crosses(a, b) ==
            /\ (a.y > p.y) # (b.y > p.y)
            /\ IF b.y > a.y THEN Orientation(a, b, p) > 0 ELSE Orientation(a, b, p) < 0
    IN Cardinality({i \in DOMAIN ring : Crosses(ring[i], After(ring, i))}) % 2 = 1
-----------------------------------------------------------------------------
(* Fault: the distance to the line through a and b.                        *)
FaultyDistanceToSegment(p, a, b) ==
    IF Gap(a, b) = 0 THEN [num |-> Gap(p, a), den |-> 1]
                     ELSE [num |-> Square(Orientation(a, b, p)), den |-> Gap(a, b)]

(* The square of the distance, as a fraction.                              *)
DistanceToSegment(p, a, b) ==
    LET along == (p.x - a.x) * (b.x - a.x) + (p.y - a.y) * (b.y - a.y)
    IN CASE along <= 0 -> [num |-> Gap(p, a) * IF Gap(a, b) = 0 THEN 1 ELSE Gap(a, b),
                           den |-> IF Gap(a, b) = 0 THEN 1 ELSE Gap(a, b)]
         [] along > 0 /\ along >= Gap(a, b) ->
              [num |-> Gap(p, b) * Gap(a, b), den |-> Gap(a, b)]
         [] along > 0 /\ along < Gap(a, b) ->
              [num |-> Square(Orientation(a, b, p)), den |-> Gap(a, b)]

Nearer(d, e) == d.num * e.den < e.num * d.den

(* Fault: the ring is taken for an open line.                              *)
FaultyNearestSegment(ring, p) ==
    LET D(i) == DistanceToSegment(p, ring[i], After(ring, i))
    IN CHOOSE i \in 1..(Len(ring) - 1) :
          \A j \in 1..(Len(ring) - 1) :
              ~Nearer(D(j), D(i)) /\ (j < i => Nearer(D(i), D(j)))

NearestSegment(ring, p) ==
    LET D(i) == DistanceToSegment(p, ring[i], After(ring, i))
    IN CHOOSE i \in DOMAIN ring :
          \A j \in DOMAIN ring : ~Nearer(D(j), D(i)) /\ (j < i => Nearer(D(i), D(j)))

(* The points strictly between two of a line that are beyond tolerance of  *)
(* the segment that would stand for them; the first of the farthest.       *)
Beyond(first, last, tolerance) ==
    {i \in (first + 1)..(last - 1) :
        Nearer([num |-> Square(tolerance), den |-> 1],
               DistanceToSegment(line[i], line[first], line[last]))}

Farthest(first, last, tolerance) ==
    LET D(i) == DistanceToSegment(line[i], line[first], line[last])
        far == Beyond(first, last, tolerance)
    IN CHOOSE i \in far : \A j \in far : ~Nearer(D(i), D(j)) /\ (j < i => Nearer(D(j), D(i)))
-----------------------------------------------------------------------------
(* simplify(points, tolerance): the points kept so far, and a stack of the *)
(* stretches still to be looked at.                                        *)
Thinning(tolerance) ==
    [phase |-> "running", tolerance |-> tolerance,
     keep |-> {1, Len(line)}, pending |-> <<<<1, Len(line)>>>>]
Idle(phase) == [phase |-> phase, tolerance |-> 0, keep |-> {}, pending |-> <<>>]

(* The pen adds a point only when it has moved.                            *)
Lines == {l \in SeqOf(Grid, MaxLine) : \A i \in 2..Len(l) : l[i] # l[i - 1]}

(* A zone starts as a circle, or freehandShape is called.                  *)
Init ==
    /\ shape = NoShape
    /\ line \in Lines
    /\ thin = Idle("called")

StartThin ==
    /\ thin.phase = "called"
    /\ line # <<>>
    /\ thin' = IF Len(line) < MinPoints THEN Idle("failed") ELSE Thinning(Tolerance)
    /\ UNCHANGED <<shape, line>>

Split(first, last) ==
    IF Beyond(first, last, thin.tolerance) = {}
    THEN [keep |-> {}, pending |-> <<>>]
    ELSE LET i == Farthest(first, last, thin.tolerance)
         IN [keep |-> {i}, pending |-> <<<<first, i>>, <<i, last>>>>]

ThinStep ==
    /\ thin.phase = "running"
    /\ thin.pending # <<>>
    /\ \E split \in {Split(Last(thin.pending)[1], Last(thin.pending)[2])} :
          thin' = [thin EXCEPT !.keep = @ \cup split.keep,
                               !.pending = Front(@) \o split.pending]
    /\ UNCHANGED <<shape, line>>

(* Fault: the tolerance stays.                                             *)
FaultyThinAgain ==
    /\ thin.phase = "running"
    /\ thin.pending = <<>>
    /\ Cardinality(thin.keep) > MaxPoints
    /\ thin' = Thinning(thin.tolerance)
    /\ UNCHANGED <<shape, line>>

(* Too many points are left: twice the tolerance.                          *)
ThinAgain ==
    /\ thin.phase = "running"
    /\ thin.pending = <<>>
    /\ Cardinality(thin.keep) > MaxPoints
    /\ thin' = Thinning(2 * thin.tolerance)
    /\ UNCHANGED <<shape, line>>

Kept == Those([i \in DOMAIN line |-> i], thin.keep)

(* The outline, of which no point is a handle, or "needs at least 3".      *)
ThinDone ==
    /\ thin.phase = "running"
    /\ thin.pending = <<>>
    /\ Cardinality(thin.keep) <= MaxPoints
    /\ IF Cardinality(thin.keep) < MinPoints
       THEN thin' = Idle("failed") /\ UNCHANGED shape
       ELSE /\ thin' = [thin EXCEPT !.phase = "done"]
            /\ shape' = Freehand([i \in DOMAIN Kept |->
                                     [at |-> line[Kept[i]], handle |-> FALSE]])
    /\ UNCHANGED line
-----------------------------------------------------------------------------
(* Fault: the arc is drawn even where two cones overlap.                   *)
FaultyStretch(pulls, i) ==
    LET here == pulls[i]
        next == After(pulls, i)
        ccw == (next.bearing - here.bearing) % Turn
        from == here.bearing + here.cone
        to == here.bearing + (IF ccw = 0 THEN Turn ELSE ccw) - next.cone
        Arc(a) == <<[bearing |-> a % Turn, gap |-> i]>>
        inner == IF to <= from THEN 0 ELSE (to - from - 1) \div ArcStep
    IN <<[bearing |-> here.bearing, gap |-> i]>>
         \o (IF here.cone > 0 THEN Arc(from) ELSE <<>>)
         \o [k \in 1..inner |-> Arc(from + k * ArcStep)[1]]
         \o (IF next.cone > 0 THEN Arc(to) ELSE <<>>)

(* pulledRing's step for pull i: the pull, and the circle from where its   *)
(* cone leaves it to where the next pull's begins, or nothing if they meet. *)
Stretch(pulls, i) ==
    LET here == pulls[i]
        next == After(pulls, i)
        ccw == (next.bearing - here.bearing) % Turn
        from == here.bearing + here.cone
        to == here.bearing + (IF ccw = 0 THEN Turn ELSE ccw) - next.cone
        Arc(a) == <<[bearing |-> a % Turn, gap |-> i]>>
        pull == <<[bearing |-> here.bearing, gap |-> i]>>
    IN IF to <= from THEN pull
       ELSE pull \o (IF here.cone > 0 THEN Arc(from) ELSE <<>>)
                 \o [k \in 1..((to - from - 1) \div ArcStep) |-> Arc(from + k * ArcStep)[1]]
                 \o (IF next.cone > 0 THEN Arc(to) ELSE <<>>)

PulledRing(pulls) == FlattenSeq([i \in DOMAIN pulls |-> Stretch(pulls, i)])

(* freehandShape has returned: its line and its stack are gone.            *)
Returned == line' = <<>> /\ thin' = Idle("called")

(* The corners of a freehand outline.                                      *)
Outline == [i \in DOMAIN shape.points |-> shape.points[i].at]

StartPull(grab) ==
    /\ line = <<>>
    /\ shape = NoShape
    /\ grab.cone = 0
    /\ shape' = Pulled(Circle, <<grab>>)
    /\ Returned

(* A press on the edge of a pulled shape, beside its points: the segment   *)
(* whose bearings hold the grab's is the nearest.                          *)
InsertPull(grab) ==
    /\ shape.kind = "pulled"
    /\ Len(shape.pulls) < MaxPulls
    /\ \A i \in DOMAIN shape.pulls : shape.pulls[i].bearing # grab.bearing
    /\ LET ring == PulledRing(shape.pulls)
           Off(k) == (grab.bearing - ring[k].bearing) % Turn
           Width(k) == (After(ring, k).bearing - ring[k].bearing) % Turn
       IN \E k \in DOMAIN ring :
             /\ Off(k) < Width(k)
             /\ shape' = InsertPointAt(shape, ring[k].gap, grab).shape
    /\ Returned

InsertCorner(grab) ==
    /\ shape.kind = "freehand"
    /\ Len(shape.points) <= MaxPoints
    /\ shape' = InsertPointAt(shape, NearestSegment(Outline, grab), grab).shape
    /\ Returned

Move(index) ==
    /\ IsHandle(shape, index)
    /\ \/ shape.kind = "pulled" /\ \E to \in Pull : shape' = MoveHandle(shape, index, to)
       \/ shape.kind = "freehand" /\ \E to \in Grid : shape' = MoveHandle(shape, index, to)
    /\ Returned

TakeOut(index) ==
    /\ IsHandle(shape, index)
    /\ CanRemove(shape)
    /\ shape' = RemoveHandle(shape, index)
    /\ Returned

Thin == StartThin \/ ThinStep \/ ThinAgain \/ ThinDone

Next ==
    \/ Thin
    \/ \E grab \in Pull : StartPull(grab) \/ InsertPull(grab)
    \/ \E grab \in Grid : InsertCorner(grab)
    \/ \E index \in 1..(MaxPoints + 1) : Move(index) \/ TakeOut(index)

(* simplify is a loop: nothing else happens until it is over.              *)
Spec == Init /\ [][Next]_vars /\ WF_vars(Thin)
-----------------------------------------------------------------------------
(* p is no further from the segment a-b than t: nearer than t to an end,   *)
(* or beside it in a band of that width.                                   *)
InBand(p, a, b, t) ==
    \/ Gap(p, a) <= Square(t) \/ Gap(p, b) <= Square(t)
    \/ /\ Square(Orientation(a, b, p)) <= Square(t) * Gap(a, b)
       /\ Gap(p, a) <= Gap(p, b) + Gap(a, b)
       /\ Gap(p, b) <= Gap(p, a) + Gap(a, b)

(* What simplify keeps, by recursion on the stretch.                       *)
Simplified(tolerance) ==
    LET part[r \in (DOMAIN line) \X (DOMAIN line)] ==
            IF Beyond(r[1], r[2], tolerance) = {} THEN {r[1], r[2]}
            ELSE LET i == Farthest(r[1], r[2], tolerance)
                 IN part[<<r[1], i>>] \cup part[<<i, r[2]>>]
    IN part[<<1, Len(line)>>]

(* The loop with its stack keeps what the recursive definition keeps, in   *)
(* whichever order it looks at the stretches; and however often a line was *)
(* split and thinned anew, no point it lost lies further than the          *)
(* tolerance from the outline that is left.                                *)
WithinTolerance ==
    thin.phase = "done" =>
        /\ thin.keep = Simplified(thin.tolerance)
        /\ \A i \in (DOMAIN line) \ thin.keep :
            LET a == CHOOSE k \in thin.keep : k < i /\ \A j \in thin.keep : ~(k < j /\ j < i)
                b == CHOOSE k \in thin.keep : k > i /\ \A j \in thin.keep : ~(i < j /\ j < k)
            IN InBand(line[i], line[a], line[b], thin.tolerance)

(* Doubling the tolerance comes to an end, with an outline or the error.   *)
ThinningEnds == thin.phase = "running" ~> thin.phase \in {"done", "failed"}

(* Two closed segments meet, by their boxes and sides.                     *)
Meet(a, b, c, d) ==
    LET Overlap(n, m, k, l) == Between(n, m, k) \/ Between(n, m, l) \/ Between(k, l, n)
        Apart(e, f) == (e > 0 /\ f > 0) \/ (e < 0 /\ f < 0)
    IN /\ Overlap(a.x, b.x, c.x, d.x) /\ Overlap(a.y, b.y, c.y, d.y)
       /\ ~Apart(Orientation(a, b, c), Orientation(a, b, d))
       /\ ~Apart(Orientation(c, d, a), Orientation(c, d, b))

OnEdge(p) ==
    \E i \in DOMAIN Outline :
        /\ Orientation(Outline[i], After(Outline, i), p) = 0
        /\ OnSegment(Outline[i], After(Outline, i), p)

Turned(p) == [x |-> p.y, y |-> p.x]

(* An outline that is accepted has no two edges that meet, other than      *)
(* neighbours at their common corner; and the worker, which matches alerts *)
(* against it, finds the same places inside whether its ray goes to the    *)
(* right or upwards.                                                       *)
AcceptedIsSimple ==
    (shape.kind = "freehand" /\ ValidateOutline(Outline) = "none") =>
        /\ \A e \in ApartEdges(Outline) :
              ~Meet(Outline[e[1]], After(Outline, e[1]), Outline[e[2]], After(Outline, e[2]))
        /\ \A p \in Probes : OnEdge(p) \/
              (ContainsPoint(Outline, p)
                 <=> ContainsPoint([i \in DOMAIN Outline |-> Turned(Outline[i])], Turned(p)))

(* A handle put on an edge, on its nearest segment, leaves the area as it  *)
(* was: the outline does not fold back to reach it.                        *)
GrabKeepsArea ==
    shape.kind = "freehand" =>
        \A grab \in {p \in Probes : OnEdge(p)} :
            TwiceArea(InsertAt(Outline, NearestSegment(Outline, grab) + 1, grab))
                = TwiceArea(Outline)

(* The turn from bearing to bearing, all the way round.                    *)
Winding(ring) ==
    SumOf([k \in DOMAIN ring |-> (After(ring, k).bearing - ring[k].bearing) % Turn])

InOrder(pulls) ==
    /\ \A i, j \in DOMAIN pulls : pulls[i].bearing = pulls[j].bearing => i = j
    /\ Len(pulls) > 1 => Winding(pulls) = Turn

(* The outline of pulls that go round the circle in order, wide cones and  *)
(* narrow, goes round it exactly once, so that it cannot cross itself.     *)
GoesRoundOnce ==
    (shape.kind = "pulled" /\ InOrder(shape.pulls))
        => Winding(PulledRing(shape.pulls)) = Turn

(* Pulling out a new point and taking one away never tangle pulls that are *)
(* in order; only dragging one past another does.                          *)
EditsKeepOrder ==
    [][(/\ shape.kind = "pulled" /\ shape'.kind = "pulled"
        /\ InOrder(shape.pulls)
        /\ Len(shape'.pulls) # Len(shape.pulls)) => InOrder(shape'.pulls)]_vars
=============================================================================
