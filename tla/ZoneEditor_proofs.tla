---------------------------- MODULE ZoneEditor_proofs ----------------------------
(***************************************************************************)
(* Proofs about ZoneEditor for any places, zones and radii and any number  *)
(* of pulls and corners.  Four of its properties follow from one inductive *)
(* invariant, EditorInv: what a long press holds is fresh, a new zone's    *)
(* pulled shape lies round its circle, nothing outlives the panel, and a   *)
(* drag that began on an edge moves the new point only.  The last rests on *)
(* TakenBack: a point put into any shape of any length, moved and taken    *)
(* out again leaves it as it was.                                          *)
(***************************************************************************)
EXTENDS ZoneEditor, DataLemmas

-----------------------------------------------------------------------------
(* What is put in, changed and taken out again leaves the sequence as it   *)
(* was.                                                                    *)
LEMMA InsertMoveRemove ==
    ASSUME NEW S, NEW s \in Seq(S), NEW i \in 1..(Len(s) + 1), NEW e \in S, NEW d \in S
    PROVE  RemoveAt([InsertAt(s, i, e) EXCEPT ![i] = d], i) = s
<1> DEFINE grown == InsertAt(s, i, e)
           moved == [grown EXCEPT ![i] = d]
<1>0. Len(s) \in Nat
    BY LenProperties
<1>1. /\ grown \in Seq(S) /\ Len(grown) = Len(s) + 1
      /\ \A j \in 1..(Len(s) + 1) :
            grown[j] = IF j < i THEN s[j] ELSE IF j = i THEN e ELSE s[j - 1]
    BY InsertAtIs
<1> HIDE DEF grown
<1>2. /\ moved \in Seq(S) /\ Len(moved) = Len(s) + 1 /\ i \in 1..Len(grown)
      /\ \A j \in 1..(Len(s) + 1) : moved[j] = IF j = i THEN d ELSE grown[j]
    BY <1>1, ExceptSeq
<1> HIDE DEF moved
<1>3. /\ RemoveAt(moved, i) \in Seq(S) /\ Len(RemoveAt(moved, i)) = Len(s)
      /\ \A j \in 1..Len(s) : RemoveAt(moved, i)[j] = IF j < i THEN moved[j] ELSE moved[j + 1]
  <2>1. i \in 1..Len(moved) /\ Len(moved) - 1 = Len(s)
    BY <1>0, <1>1, <1>2
  <2> QED BY <1>2, <2>1, RemoveAtIs
<1>4. ASSUME NEW j \in 1..Len(s) PROVE RemoveAt(moved, i)[j] = s[j]
  <2>1. CASE j < i
    BY <1>0, <1>1, <1>2, <1>3, <2>1
  <2>2. CASE j >= i
    <3>1. j + 1 \in 1..(Len(s) + 1) /\ j + 1 # i /\ ~(j + 1 < i) /\ (j + 1) - 1 = j
      BY <1>0, <2>2
    <3>2. moved[j + 1] = grown[j + 1] /\ grown[j + 1] = s[(j + 1) - 1]
      BY <1>1, <1>2, <3>1
    <3>3. RemoveAt(moved, i)[j] = moved[j + 1]
      BY <1>0, <1>3, <2>2
    <3> QED BY <3>1, <3>2, <3>3
  <2> QED BY <1>0, <2>1, <2>2
<1>5. RemoveAt(moved, i) = s
    BY <1>3, <1>4, SeqEqual
<1> QED BY <1>5 DEF moved, grown
-----------------------------------------------------------------------------
(* The points of a freehand shape.                                         *)
Points == [at : Places, handle : BOOLEAN]

(* The handles are counted one at a time.                                  *)
LEMMA CountIs ==
    ASSUME NEW points \in Seq(Points), NEW n \in Nat
    PROVE  /\ HandleCount(points, n) \in Nat
           /\ HandleCount(points, 0) = 0
           /\ n > 0 => HandleCount(points, n) = HandleCount(points, n - 1)
                                                + (IF points[n].handle THEN 1 ELSE 0)
<1> DEFINE H(k) == {i \in 1..k : points[i].handle}
<1>1. \A k \in Nat : IsFiniteSet(H(k))
  <2> SUFFICES ASSUME NEW k \in Nat PROVE IsFiniteSet(H(k))
    OBVIOUS
  <2>1. IsFiniteSet(1..k) /\ H(k) \in SUBSET (1..k)
    BY FS_Interval
  <2> HIDE DEF H
  <2> QED BY <2>1, FS_Subset
<1>2. HandleCount(points, n) \in Nat
    BY <1>1, FS_CardinalityType DEF HandleCount
<1>3. HandleCount(points, 0) = 0
  <2>1. H(0) = {}
    OBVIOUS
  <2> QED BY <2>1, FS_EmptySet DEF HandleCount
<1>4. ASSUME n > 0
      PROVE  HandleCount(points, n) = HandleCount(points, n - 1)
                                      + (IF points[n].handle THEN 1 ELSE 0)
  <2>0. n - 1 \in Nat /\ IsFiniteSet(H(n - 1))
    BY <1>1, <1>4
  <2>1. CASE points[n].handle
    <3>1. H(n) = H(n - 1) \cup {n} /\ n \notin H(n - 1)
      BY <1>4, <2>1
    <3>2. Cardinality(H(n - 1)) \in Nat
      BY <2>0, FS_CardinalityType
    <3>3. Cardinality(H(n)) = Cardinality(H(n - 1)) + 1
      <4> HIDE DEF H
      <4> QED BY <2>0, <3>1, FS_AddElement
    <3>4. HandleCount(points, n) = Cardinality(H(n))
          /\ HandleCount(points, n - 1) = Cardinality(H(n - 1))
      BY DEF HandleCount
    <3> HIDE DEF H
    <3> QED BY <2>1, <3>3, <3>4
  <2>2. CASE ~points[n].handle
    <3>1. H(n) = H(n - 1)
      BY <1>4, <2>2
    <3>2. Cardinality(H(n - 1)) \in Nat
      BY <2>0, FS_CardinalityType
    <3>4. HandleCount(points, n) = Cardinality(H(n))
          /\ HandleCount(points, n - 1) = Cardinality(H(n - 1))
      BY DEF HandleCount
    <3> HIDE DEF H
    <3> QED BY <2>2, <3>1, <3>2, <3>4
  <2> QED BY <2>1, <2>2
<1> QED BY <1>2, <1>3, <1>4

(* Between two handles the count has grown.                                *)
LEMMA CountGrows ==
    ASSUME NEW points \in Seq(Points), NEW k \in Nat, NEW n \in Nat, k < n, points[n].handle
    PROVE  HandleCount(points, k) < HandleCount(points, n)
<1> DEFINE H(m) == {i \in 1..m : points[i].handle}
<1>1. IsFiniteSet(H(n))
  <2>1. IsFiniteSet(1..n) /\ H(n) \in SUBSET (1..n)
    BY FS_Interval
  <2> HIDE DEF H
  <2> QED BY <2>1, FS_Subset
<1>2. H(k) \in SUBSET H(n) /\ n \in H(n) /\ n \notin H(k)
    OBVIOUS
<1>3. /\ Cardinality(H(k)) <= Cardinality(H(n)) /\ Cardinality(H(n)) # Cardinality(H(k))
      /\ Cardinality(H(k)) \in Nat /\ Cardinality(H(n)) \in Nat
  <2> HIDE DEF H
  <2>1. IsFiniteSet(H(k))
    BY <1>1, <1>2, FS_Subset
  <2> QED BY <1>1, <1>2, <2>1, FS_Subset, FS_CardinalityType
<1> QED BY <1>3 DEF HandleCount

(* There is one index-th handle, if there are as many.                     *)
LEMMA PositionIs ==
    ASSUME NEW points \in Seq(Points), NEW i \in DOMAIN points, points[i].handle
    PROVE  FreehandPosition(points, HandleCount(points, i)) = i
<1> DEFINE index == HandleCount(points, i)
           pos == FreehandPosition(points, index)
<1>0. DOMAIN points = 1..Len(points) /\ Len(points) \in Nat
    BY LenProperties
<1>1. pos \in DOMAIN points /\ points[pos].handle /\ HandleCount(points, pos) = index
    BY DEF FreehandPosition
<1> HIDE DEF pos
<1>2. \A k \in Nat : HandleCount(points, k) \in Nat
    BY CountIs
<1>3. ~(pos < i) /\ ~(i < pos)
  <2>1. pos \in Nat /\ i \in Nat
    BY <1>0, <1>1
  <2>2. HandleCount(points, pos) = HandleCount(points, i) /\ HandleCount(points, i) \in Nat
    BY <1>1, <1>2, <2>1
  <2> HIDE DEF index
  <2>3. ~(HandleCount(points, pos) < HandleCount(points, i))
        /\ ~(HandleCount(points, i) < HandleCount(points, pos))
    BY <2>2
  <2> QED BY <1>1, <2>1, <2>3, CountGrows
<1>4. pos = i
    BY <1>0, <1>1, <1>3
<1> QED BY <1>4 DEF pos

(* Every handle has a place among the points: the least at which so many   *)
(* have been counted.                                                      *)
LEMMA PositionExists ==
    ASSUME NEW points \in Seq(Points), NEW index \in Nat, index > 0,
           index <= Cardinality({i \in DOMAIN points : points[i].handle})
    PROVE  /\ FreehandPosition(points, index) \in DOMAIN points
           /\ points[FreehandPosition(points, index)].handle
<1> DEFINE H == {i \in DOMAIN points : points[i].handle}
<1>0. DOMAIN points = 1..Len(points) /\ Len(points) \in Nat
    BY LenProperties
<1>1. PICK i \in H : Cardinality({j \in 1..i : j \in H}) = index
  <2>1. H \in SUBSET (1..Len(points)) /\ index \in Nat \ {0} /\ index <= Cardinality(H)
    BY <1>0
  <2> HIDE DEF H
  <2> QED BY <1>0, <2>1, CountedMember
<1>2. {j \in 1..i : j \in H} = {j \in 1..i : points[j].handle}
    BY <1>0
<1>3. i \in DOMAIN points /\ points[i].handle /\ HandleCount(points, i) = index
    BY <1>1, <1>2 DEF HandleCount
<1> QED BY <1>3 DEF FreehandPosition
-----------------------------------------------------------------------------
(* Shapes, and what the edits make of them.                                *)
Pulleds ==
    [kind : {"pulled"}, circle : [center : Places, radius : Int], pulls : Seq(Places)]
Freehands == [kind : {"freehand"}, points : Seq(Points)]
Shapes == {NoShape} \cup Pulleds \cup Freehands

(* The kinds of shapes, and their parts.                                   *)
LEMMA ShapeIs ==
    /\ NoShape.kind = "none" /\ NoShape \notin Pulleds \cup Freehands
    /\ \A s \in Pulleds : /\ s.kind = "pulled" /\ s.pulls \in Seq(Places)
                          /\ s.circle \in [center : Places, radius : Int]
                          /\ s = Pulled(s.circle, s.pulls)
    /\ \A s \in Freehands : s.kind = "freehand" /\ s.points \in Seq(Points) /\ s = Freehand(s.points)
    /\ \A c \in [center : Places, radius : Int], p \in Seq(Places) :
          /\ Pulled(c, p) \in Pulleds /\ Pulled(c, p).circle = c /\ Pulled(c, p).pulls = p
    /\ \A p \in Seq(Points) : Freehand(p) \in Freehands /\ Freehand(p).points = p
<1>1. NoShape.kind = "none"
    BY DEF NoShape
<1>2. \A s \in Pulleds : /\ s.kind = "pulled" /\ s.pulls \in Seq(Places)
                         /\ s.circle \in [center : Places, radius : Int]
                         /\ s = Pulled(s.circle, s.pulls)
    BY DEF Pulleds, Pulled
<1>3. \A s \in Freehands : s.kind = "freehand" /\ s.points \in Seq(Points) /\ s = Freehand(s.points)
    BY DEF Freehands, Freehand
<1>4. \A c \in [center : Places, radius : Int], p \in Seq(Places) :
          /\ Pulled(c, p) \in Pulleds /\ Pulled(c, p).circle = c /\ Pulled(c, p).pulls = p
    BY DEF Pulleds, Pulled
<1>5. \A p \in Seq(Points) : Freehand(p) \in Freehands /\ Freehand(p).points = p
    BY DEF Freehands, Freehand
<1> QED BY <1>1, <1>2, <1>3, <1>4, <1>5

(* How many gaps or points an edge can be grabbed after.                   *)
Size(shape) ==
    IF shape.kind = "freehand" THEN Len(shape.points) ELSE Cardinality(Handles(shape))

(* The size of each kind of shape.                                         *)
LEMMA SizeIs ==
    /\ Size(NoShape) = 0
    /\ \A s \in Pulleds : Size(s) = Len(s.pulls)
    /\ \A s \in Freehands : Size(s) = Len(s.points)
<1>1. Size(NoShape) = 0
    BY ShapeIs, FS_EmptySet DEF Size, Handles
<1>2. ASSUME NEW s \in Pulleds PROVE Size(s) = Len(s.pulls)
  <2>1. Size(s) = Cardinality(DOMAIN s.pulls)
    BY ShapeIs DEF Size, Handles
  <2>2. DOMAIN s.pulls = 1..Len(s.pulls) /\ Len(s.pulls) \in Nat
    BY ShapeIs, LenProperties
  <2> QED BY <2>1, <2>2, FS_Interval
<1>3. \A s \in Freehands : Size(s) = Len(s.points)
    BY ShapeIs DEF Size
<1> QED BY <1>1, <1>2, <1>3

(* The point that is put in.                                               *)
NewPoint(at) == [at |-> at, handle |-> TRUE]

(* A shape with a point put in is of the same kind and round the same      *)
(* circle.                                                                 *)
LEMMA InsertedIs ==
    ASSUME NEW s \in Pulleds \cup Freehands, NEW after \in 1..Size(s), NEW at \in Places
    PROVE  /\ InsertPointAt(s, after, at).shape \in Pulleds \cup Freehands
           /\ InsertPointAt(s, after, at).index \in Nat
           /\ InsertPointAt(s, after, at).shape.kind = s.kind
           /\ s \in Pulleds => InsertPointAt(s, after, at).shape.circle = s.circle
<1>1. CASE s \in Pulleds
  <2>0. s.kind = "pulled" /\ s.pulls \in Seq(Places) /\ s.circle \in [center : Places, radius : Int]
        /\ Len(s.pulls) \in Nat /\ after \in 1..Len(s.pulls)
    BY <1>1, ShapeIs, SizeIs, LenProperties
  <2>1. InsertPointAt(s, after, at)
          = [shape |-> Pulled(s.circle, InsertAt(s.pulls, after + 1, at)), index |-> after + 1]
    BY <2>0 DEF InsertPointAt
  <2>2. InsertAt(s.pulls, after + 1, at) \in Seq(Places)
    BY <2>0, InsertAtIs, SMTT(40)
  <2>3. Pulled(s.circle, InsertAt(s.pulls, after + 1, at)) \in Pulleds
        /\ Pulled(s.circle, InsertAt(s.pulls, after + 1, at)).circle = s.circle
    BY <2>0, <2>2, ShapeIs
  <2> QED BY <2>0, <2>1, <2>3, ShapeIs
<1>2. CASE s \in Freehands
  <2>0. s.kind = "freehand" /\ s.points \in Seq(Points)
        /\ Len(s.points) \in Nat /\ after \in 1..Len(s.points)
    BY <1>2, ShapeIs, SizeIs, LenProperties
  <2> DEFINE points == InsertAt(s.points, after + 1, NewPoint(at))
  <2>1. InsertPointAt(s, after, at)
          = [shape |-> Freehand(points), index |-> HandleCount(points, after + 1)]
    BY <2>0 DEF InsertPointAt, NewPoint
  <2>2. NewPoint(at) \in Points
    BY DEF NewPoint, Points
  <2>3. points \in Seq(Points)
    <3>1. after + 1 \in 1..(Len(s.points) + 1)
      BY <2>0
    <3> DEFINE e == NewPoint(at)
    <3> HIDE DEF e
    <3>2. InsertAt(s.points, after + 1, e) \in Seq(Points)
      BY <2>0, <2>2, <3>1, InsertAtIs DEF e
    <3> QED BY <3>2 DEF e
  <2> HIDE DEF points
  <2>4. Freehand(points) \in Freehands /\ HandleCount(points, after + 1) \in Nat
    <3>1. after + 1 \in Nat
      BY <2>0
    <3>2. HandleCount(points, after + 1) \in Nat
      BY <2>3, <3>1, CountIs
    <3> QED BY <2>3, <3>2, ShapeIs
  <2> QED BY <1>2, <2>0, <2>1, <2>4, ShapeIs
<1> QED BY <1>1, <1>2

(* A shape with a handle moved is of the same kind and round the same      *)
(* circle.                                                                 *)
LEMMA MovedIs ==
    ASSUME NEW s \in Pulleds \cup Freehands, NEW index, NEW to \in Places
    PROVE  /\ MoveHandle(s, index, to) \in Pulleds \cup Freehands
           /\ MoveHandle(s, index, to).kind = s.kind
           /\ s \in Pulleds =>
                 /\ MoveHandle(s, index, to).circle = s.circle
                 /\ MoveHandle(s, index, to) = Pulled(s.circle, [s.pulls EXCEPT ![index] = to])
           /\ s \in Freehands =>
                 MoveHandle(s, index, to)
                   = Freehand([s.points EXCEPT
                                  ![FreehandPosition(s.points, index)] = [@ EXCEPT !.at = to]])
<1>1. CASE s \in Pulleds
  <2>0. s.kind = "pulled" /\ s.pulls \in Seq(Places) /\ s.circle \in [center : Places, radius : Int]
    BY <1>1, ShapeIs
  <2>1. MoveHandle(s, index, to) = [s EXCEPT !.pulls = [@ EXCEPT ![index] = to]]
    BY <2>0 DEF MoveHandle
  <2> DEFINE pulls == [s.pulls EXCEPT ![index] = to]
  <2>2. pulls \in Seq(Places)
    <3>1. s.pulls \in [1..Len(s.pulls) -> Places] /\ Len(s.pulls) \in Nat
      BY <2>0, LenProperties
    <3>2. pulls \in [1..Len(s.pulls) -> Places]
      BY <3>1
    <3> HIDE DEF pulls
    <3> QED BY <3>1, <3>2
  <2>3. MoveHandle(s, index, to) = [s EXCEPT !.pulls = pulls]
    BY <2>1
  <2> HIDE DEF pulls
  <2>4. [s EXCEPT !.pulls = pulls] = Pulled(s.circle, pulls)
    BY <1>1 DEF Pulleds, Pulled
  <2>5. MoveHandle(s, index, to) = Pulled(s.circle, pulls)
    BY <2>3, <2>4
  <2>6. Pulled(s.circle, pulls) \in Pulleds /\ Pulled(s.circle, pulls).circle = s.circle
    BY <2>0, <2>2, ShapeIs
  <2>7. s \notin Freehands
    BY <2>0, ShapeIs
  <2> QED BY <2>0, <2>5, <2>6, <2>7, ShapeIs DEF pulls
<1>2. CASE s \in Freehands
  <2>0. s.kind = "freehand" /\ s.points \in Seq(Points)
    BY <1>2, ShapeIs
  <2> DEFINE pos == FreehandPosition(s.points, index)
             points == [s.points EXCEPT ![pos] = [@ EXCEPT !.at = to]]
  <2>1. MoveHandle(s, index, to) = [s EXCEPT !.points = points]
    BY <2>0 DEF MoveHandle
  <2>2. points \in Seq(Points)
    <3>1. s.points \in [1..Len(s.points) -> Points] /\ Len(s.points) \in Nat
      BY <2>0, LenProperties
    <3>2. \A p \in Points : [p EXCEPT !.at = to] \in Points
      BY DEF Points
    <3> HIDE DEF pos
    <3>3. points \in [1..Len(s.points) -> Points]
      BY <3>1, <3>2
    <3> HIDE DEF points
    <3> QED BY <3>1, <3>3
  <2> HIDE DEF points
  <2>4. [s EXCEPT !.points = points] = Freehand(points)
    BY <1>2 DEF Freehands, Freehand
  <2>5. MoveHandle(s, index, to) = Freehand(points)
    BY <2>1, <2>4
  <2>6. Freehand(points) \in Freehands
    BY <2>2, ShapeIs
  <2>7. s \notin Pulleds
    BY <2>0, ShapeIs
  <2> QED BY <2>0, <2>5, <2>6, <2>7, ShapeIs DEF points, pos
<1> QED BY <1>1, <1>2

(* What moving a handle makes of a pulled circle.                          *)
LEMMA MovedPull ==
    ASSUME NEW s \in Pulleds, NEW index, NEW to \in Places
    PROVE  MoveHandle(s, index, to) = Pulled(s.circle, [s.pulls EXCEPT ![index] = to])
<1>1. s \in Pulleds \cup Freehands
    OBVIOUS
<1> QED BY <1>1, MovedIs, Zenon

(* What moving a handle makes of a freehand shape.                         *)
LEMMA MovedPoint ==
    ASSUME NEW s \in Freehands, NEW index, NEW to \in Places
    PROVE  MoveHandle(s, index, to)
             = Freehand([s.points EXCEPT
                            ![FreehandPosition(s.points, index)] = [@ EXCEPT !.at = to]])
<1>1. s \in Pulleds \cup Freehands
    OBVIOUS
<1> QED BY <1>1, MovedIs, Zenon

(* A shape with a handle taken out is none, or round the same circle.      *)
LEMMA RemovedIs ==
    ASSUME NEW s \in Pulleds \cup Freehands, NEW index \in Nat, IsHandle(s, index)
    PROVE  /\ RemoveHandle(s, index) \in Shapes
           /\ RemoveHandle(s, index) \in Pulleds =>
                 s \in Pulleds /\ RemoveHandle(s, index).circle = s.circle
<1>1. CASE s \in Pulleds
  <2>0. s.kind = "pulled" /\ s.pulls \in Seq(Places) /\ s.circle \in [center : Places, radius : Int]
        /\ Len(s.pulls) \in Nat /\ DOMAIN s.pulls = 1..Len(s.pulls)
    BY <1>1, ShapeIs, LenProperties
  <2>1. index \in 1..Len(s.pulls)
    <3>1. Handles(s) = 1..Len(s.pulls)
      BY <2>0 DEF Handles
    <3>2. Cardinality(Handles(s)) = Len(s.pulls)
      BY <2>0, <3>1, FS_Interval, SMTT(40)
    <3> QED BY <2>0, <3>2 DEF IsHandle
  <2>2. CASE Len(s.pulls) > 1
    <3>1. RemoveHandle(s, index) = Pulled(s.circle, RemoveAt(s.pulls, index))
      BY <2>0, <2>2 DEF RemoveHandle
    <3>2. RemoveAt(s.pulls, index) \in Seq(Places)
      BY <2>0, <2>1, RemoveAtIs
    <3>3. Pulled(s.circle, RemoveAt(s.pulls, index)) \in Pulleds
          /\ Pulled(s.circle, RemoveAt(s.pulls, index)).circle = s.circle
      BY <2>0, <3>2, ShapeIs
    <3> QED BY <1>1, <3>1, <3>3 DEF Shapes
  <2>3. CASE ~(Len(s.pulls) > 1)
    <3>1. RemoveHandle(s, index) = NoShape
      BY <2>0, <2>3 DEF RemoveHandle
    <3> QED BY <3>1, ShapeIs DEF Shapes
  <2> QED BY <2>2, <2>3
<1>2. CASE s \in Freehands
  <2>0. s.kind = "freehand" /\ s.points \in Seq(Points)
        /\ Len(s.points) \in Nat /\ DOMAIN s.points = 1..Len(s.points)
    BY <1>2, ShapeIs, LenProperties
  <2> DEFINE pos == FreehandPosition(s.points, index)
  <2>1. pos \in 1..Len(s.points)
    <3>1. Handles(s) = {i \in DOMAIN s.points : s.points[i].handle}
      BY <2>0 DEF Handles
    <3>2. Cardinality(Handles(s)) \in Nat
      <4>1. IsFiniteSet(DOMAIN s.points)
        BY <2>0, FS_Interval
      <4>2. Handles(s) \in SUBSET (DOMAIN s.points)
        BY <3>1
      <4> QED BY <4>1, <4>2, FS_Subset, FS_CardinalityType
    <3>3. index > 0 /\ index <= Cardinality(Handles(s))
      BY <3>2 DEF IsHandle
    <3> QED BY <2>0, <3>1, <3>3, PositionExists
  <2>2. RemoveHandle(s, index) = Freehand(RemoveAt(s.points, pos))
    BY <2>0 DEF RemoveHandle
  <2> HIDE DEF pos
  <2>3. RemoveAt(s.points, pos) \in Seq(Points)
    BY <2>0, <2>1, RemoveAtIs
  <2>4. Freehand(RemoveAt(s.points, pos)) \in Freehands
    BY <2>3, ShapeIs
  <2>5. Freehand(RemoveAt(s.points, pos)) \notin Pulleds
    BY <2>4, ShapeIs
  <2> QED BY <2>2, <2>4, <2>5 DEF Shapes
<1> QED BY <1>1, <1>2

(* A shape that is shifted takes its circle along.                         *)
LEMMA TranslatedIs ==
    ASSUME NEW s \in Shapes, NEW f \in [Places -> Places]
    PROVE  /\ TranslateShape(s, f) \in Shapes
           /\ TranslateShape(s, f) \in Pulleds =>
                 s \in Pulleds /\ TranslateShape(s, f).circle
                                    = [center |-> f[s.circle.center], radius |-> s.circle.radius]
<1>1. CASE s = NoShape
    BY <1>1, ShapeIs DEF TranslateShape, Shapes
<1>2. CASE s \in Pulleds
  <2>0. s.kind = "pulled" /\ s.pulls \in Seq(Places) /\ s.circle \in [center : Places, radius : Int]
    BY <1>2, ShapeIs
  <2> DEFINE pulls == [i \in DOMAIN s.pulls |-> f[s.pulls[i]]]
             circle == [s.circle EXCEPT !.center = f[@]]
  <2>1. TranslateShape(s, f) = Pulled(circle, pulls)
    BY <2>0 DEF TranslateShape
  <2>2. circle \in [center : Places, radius : Int]
        /\ circle = [center |-> f[s.circle.center], radius |-> s.circle.radius]
    BY <2>0
  <2>3. pulls \in Seq(Places)
    <3>1. s.pulls \in [1..Len(s.pulls) -> Places] /\ Len(s.pulls) \in Nat
      BY <2>0, LenProperties
    <3>2. pulls \in [1..Len(s.pulls) -> Places]
      BY <3>1
    <3> HIDE DEF pulls
    <3> QED BY <3>1, <3>2
  <2> HIDE DEF pulls, circle
  <2>4. Pulled(circle, pulls) \in Pulleds /\ Pulled(circle, pulls).circle = circle
    BY <2>2, <2>3, ShapeIs
  <2> QED BY <1>2, <2>1, <2>2, <2>4 DEF Shapes
<1>3. CASE s \in Freehands
  <2>0. s.kind = "freehand" /\ s.points \in Seq(Points)
    BY <1>3, ShapeIs
  <2> DEFINE points == [i \in DOMAIN s.points |-> [s.points[i] EXCEPT !.at = f[@]]]
  <2>1. TranslateShape(s, f) = Freehand(points)
    BY <2>0 DEF TranslateShape
  <2>3. points \in Seq(Points)
    <3>1. s.points \in [1..Len(s.points) -> Points] /\ Len(s.points) \in Nat
      BY <2>0, LenProperties
    <3>2. \A p \in Points : [p EXCEPT !.at = f[@]] \in Points
      BY DEF Points
    <3>3. points \in [1..Len(s.points) -> Points]
      BY <3>1, <3>2
    <3> HIDE DEF points
    <3> QED BY <3>1, <3>3
  <2> HIDE DEF points
  <2>4. Freehand(points) \in Freehands /\ Freehand(points) \notin Pulleds
    BY <2>3, ShapeIs
  <2> QED BY <2>1, <2>4 DEF Shapes
<1> QED BY <1>1, <1>2, <1>3 DEF Shapes

(* A point put into a shape, dragged and taken out leaves the shape.       *)
LEMMA TakenBack ==
    ASSUME NEW s \in Pulleds \cup Freehands, NEW after \in 1..Size(s),
           NEW at \in Places, NEW to \in Places
    PROVE  LET new == InsertPointAt(s, after, at)
           IN RemoveHandle(MoveHandle(new.shape, new.index, to), new.index) = s
<1> DEFINE new == InsertPointAt(s, after, at)
<1>0. new.shape \in Pulleds \cup Freehands /\ new.shape.kind = s.kind
    BY InsertedIs
<1>1. CASE s \in Pulleds
  <2>0. s.kind = "pulled" /\ s.pulls \in Seq(Places) /\ s.circle \in [center : Places, radius : Int]
        /\ Len(s.pulls) \in Nat /\ after \in 1..Len(s.pulls) /\ s = Pulled(s.circle, s.pulls)
    BY <1>1, ShapeIs, SizeIs, LenProperties
  <2> DEFINE i == after + 1
             pulls == InsertAt(s.pulls, i, at)
             moved == [pulls EXCEPT ![i] = to]
  <2>1. new.shape = Pulled(s.circle, pulls) /\ new.index = i
    BY <2>0 DEF InsertPointAt
  <2>2. i \in 1..(Len(s.pulls) + 1)
    BY <2>0
  <2> HIDE DEF i
  <2>3. /\ pulls \in Seq(Places) /\ Len(pulls) = Len(s.pulls) + 1
    BY <2>0, <2>2, InsertAtIs, SMTT(40)
  <2>4. RemoveAt(moved, i) = s.pulls
    BY <2>0, <2>2, InsertMoveRemove
  <2> HIDE DEF pulls
  <2>5. moved \in Seq(Places) /\ Len(moved) = Len(s.pulls) + 1
    <3>1. i \in 1..Len(pulls)
      BY <2>2, <2>3
    <3>2. moved \in Seq(Places) /\ Len(moved) = Len(pulls)
      BY <2>3, <3>1, ExceptSeq
    <3> QED BY <2>3, <3>2
  <2>6. new.shape \in Pulleds /\ new.shape.circle = s.circle /\ new.shape.pulls = pulls
    BY <2>0, <2>1, <2>3, ShapeIs
  <2> HIDE DEF new
  <2>7. MoveHandle(new.shape, i, to) = Pulled(s.circle, moved)
    <3>1. MoveHandle(new.shape, i, to)
            = Pulled(new.shape.circle, [new.shape.pulls EXCEPT ![i] = to])
      BY <2>6, MovedPull, Zenon
    <3> QED BY <2>6, <3>1
  <2> HIDE DEF moved
  <2>8. Pulled(s.circle, moved) \in Pulleds /\ Pulled(s.circle, moved).circle = s.circle
        /\ Pulled(s.circle, moved).pulls = moved /\ Pulled(s.circle, moved).kind = "pulled"
    BY <2>0, <2>5, ShapeIs
  <2>9. RemoveHandle(Pulled(s.circle, moved), i) = Pulled(s.circle, RemoveAt(moved, i))
    <3>1. Len(moved) > 1
      BY <2>0, <2>5
    <3> HIDE DEF i
    <3> QED BY <2>8, <3>1 DEF RemoveHandle
  <2> QED BY <2>0, <2>1, <2>4, <2>7, <2>9 DEF new
<1>2. CASE s \in Freehands
  <2>0. s.kind = "freehand" /\ s.points \in Seq(Points) /\ s = Freehand(s.points)
        /\ Len(s.points) \in Nat /\ after \in 1..Len(s.points)
    BY <1>2, ShapeIs, SizeIs, LenProperties
  <2> DEFINE i == after + 1
             points == InsertAt(s.points, i, NewPoint(at))
             there == [points[i] EXCEPT !.at = to]
             moved == [points EXCEPT ![i] = there]
  <2>1. new.shape = Freehand(points) /\ new.index = HandleCount(points, i)
    BY <2>0 DEF InsertPointAt, NewPoint
  <2>2. i \in 1..(Len(s.points) + 1) /\ i \in Nat
    BY <2>0
  <2>3. NewPoint(at) \in Points /\ NewPoint(at).handle
        /\ [NewPoint(at) EXCEPT !.at = to] \in Points /\ [NewPoint(at) EXCEPT !.at = to].handle
    BY DEF NewPoint, Points
  <2> HIDE DEF i
  <2>4. /\ points \in Seq(Points) /\ Len(points) = Len(s.points) + 1
        /\ points[i] = NewPoint(at)
    <3>1. /\ points \in Seq(Points) /\ Len(points) = Len(s.points) + 1
          /\ \A j \in 1..(Len(s.points) + 1) :
                points[j] = IF j < i THEN s.points[j]
                            ELSE IF j = i THEN NewPoint(at) ELSE s.points[j - 1]
      <4> DEFINE e == NewPoint(at)
                 q == s.points
      <4>1. e \in Points /\ q \in Seq(Points) /\ i \in 1..(Len(q) + 1)
        BY <2>0, <2>2, <2>3
      <4> HIDE DEF e, q
      <4>2. /\ InsertAt(q, i, e) \in Seq(Points) /\ Len(InsertAt(q, i, e)) = Len(q) + 1
            /\ \A j \in 1..(Len(q) + 1) :
                  InsertAt(q, i, e)[j] = IF j < i THEN q[j] ELSE IF j = i THEN e ELSE q[j - 1]
        BY <4>1, InsertAtIs
      <4> QED BY <4>2 DEF e, q
    <3> HIDE DEF points
    <3> QED BY <2>0, <2>2, <3>1
  <2>5. there \in Points /\ there.handle
    <3> HIDE DEF points
    <3> QED BY <2>3, <2>4
  <2>6. RemoveAt(moved, i) = s.points
    <3> HIDE DEF there
    <3> QED BY <2>0, <2>2, <2>3, <2>5, InsertMoveRemove
  <2> HIDE DEF points
  <2>7. DOMAIN points = 1..Len(points) /\ i \in DOMAIN points /\ points[i].handle
    BY <2>0, <2>2, <2>3, <2>4, LenProperties
  <2>8. FreehandPosition(points, new.index) = i
    BY <2>1, <2>4, <2>7, PositionIs
  <2>9. new.shape \in Freehands /\ new.shape.points = points
    BY <2>1, <2>4, ShapeIs
  <2> HIDE DEF new
  <2>10. MoveHandle(new.shape, new.index, to) = Freehand(moved)
    <3>1. MoveHandle(new.shape, new.index, to)
            = Freehand([points EXCEPT ![FreehandPosition(points, new.index)]
                                          = [@ EXCEPT !.at = to]])
      <4> DEFINE n == new.shape
                 k == new.index
      <4>1. n \in Freehands /\ n.points = points
        BY <2>9
      <4> HIDE DEF n, k
      <4>2. MoveHandle(n, k, to)
              = Freehand([n.points EXCEPT ![FreehandPosition(n.points, k)]
                                              = [@ EXCEPT !.at = to]])
        BY <4>1, MovedPoint, Zenon
      <4>3. MoveHandle(n, k, to)
              = Freehand([points EXCEPT ![FreehandPosition(points, k)]
                                            = [@ EXCEPT !.at = to]])
        BY <4>1, <4>2
      <4> QED BY <4>3 DEF n, k
    <3>2. [points EXCEPT ![i] = [@ EXCEPT !.at = to]] = moved
      OBVIOUS
    <3> QED BY <2>8, <3>1, <3>2
  <2> HIDE DEF there
  <2>11. moved \in Seq(Points) /\ i \in DOMAIN moved /\ moved[i].handle
         /\ DOMAIN moved = DOMAIN points
         /\ \A j \in DOMAIN points : moved[j].handle = points[j].handle
    <3>1. /\ moved \in Seq(Points) /\ Len(moved) = Len(points)
          /\ \A j \in 1..Len(points) : moved[j] = IF j = i THEN there ELSE points[j]
      BY <2>4, <2>5, <2>7, ExceptSeq
    <3>2. DOMAIN moved = 1..Len(moved)
      BY <3>1, LenProperties
    <3>3. moved[i] = there
      BY <2>7, <3>1
    <3>4. ASSUME NEW j \in DOMAIN points PROVE moved[j].handle = points[j].handle
      <4>1. CASE j = i
        <5>1. there.handle = TRUE /\ points[i].handle = TRUE
          BY <2>4, <2>3 DEF there, NewPoint
        <5> QED BY <3>3, <4>1, <5>1
      <4>2. CASE j # i
        BY <2>7, <3>1, <4>2
      <4> QED BY <4>1, <4>2
    <3> QED BY <2>5, <2>7, <3>1, <3>2, <3>3, <3>4
  <2> HIDE DEF moved
  <2>12. HandleCount(moved, i) = HandleCount(points, i)
    <3>1. \A j \in 1..i : j \in DOMAIN points
      BY <2>2, <2>7, <2>4
    <3>2. {j \in 1..i : moved[j].handle} = {j \in 1..i : points[j].handle}
      BY <2>11, <3>1
    <3> QED BY <3>2 DEF HandleCount
  <2>13. FreehandPosition(moved, new.index) = i
    <3>1. new.index = HandleCount(moved, i)
      BY <2>1, <2>12
    <3> QED BY <2>11, <3>1, PositionIs
  <2>14. RemoveHandle(Freehand(moved), new.index) = Freehand(RemoveAt(moved, i))
    <3>1. Freehand(moved).kind = "freehand" /\ Freehand(moved).points = moved
      BY <2>11, ShapeIs
    <3> QED BY <2>13, <3>1 DEF RemoveHandle
  <2> QED BY <2>0, <2>6, <2>10, <2>14 DEF new
<1> QED BY <1>1, <1>2
-----------------------------------------------------------------------------
(* The editor's state.                                                     *)
Drafts == [open : {TRUE}, center : Places, radius : Int, shape : Shapes]

(* The presses on the map: of a handle or an edge, of the pin, of the pen. *)
Drags ==
    [on : {TRUE}, base : Drafts, shape : Pulleds \cup Freehands, index : Nat,
     created : BOOLEAN, moved : BOOLEAN, held : BOOLEAN, was : BOOLEAN]
Pins == [on : {TRUE}, draft : Drafts]
Strokes == [on : {TRUE}, before : Seq(Seq(Places)), piece : Seq(Places)]

(* What the variables of the editor can be.                                *)
EditorTypeOK ==
    /\ draft \in Drafts \cup {NoDraft} /\ saved \in Int
    /\ mode \in Modes /\ penDown \in BOOLEAN /\ stray \in BOOLEAN
    /\ pieces \in Seq(Seq(Places))
    /\ stroke \in Strokes \cup {NoStroke} /\ drag \in Drags \cup {NoDrag}
    /\ pin \in Pins \cup {NoPin} /\ hold \in Nat
    /\ panning \in BOOLEAN /\ restore \in BOOLEAN

(* With the draft closed no press is left.                                 *)
NoPressLeft == ~draft.open => ~drag.on /\ ~stroke.on /\ ~pin.on /\ hold = 0

(* The map pans, or whatever stops it will let it pan again.               *)
PansAgain == panning \/ (Drawing /\ restore) \/ (drag.on /\ drag.was)

(* A press that is held is the drag's, on the shape that the drag began    *)
(* with; or the shape has no handles now.                                  *)
HeldShape ==
    hold # 0 => /\ drag.on /\ ~drag.moved /\ drag.index = hold
                /\ draft.shape = drag.shape \/ Handles(draft.shape) = {}

(* What is dragged has been put into the shape from before the press.      *)
PutIn(base, shape, index) ==
    IF base.shape = NoShape
    THEN \E at \in Places :
            /\ shape = Pulled([center |-> base.center, radius |-> base.radius], <<at>>)
            /\ index = 1
    ELSE \E at \in Places, after \in 1..Size(base.shape) :
            /\ shape = InsertPointAt(base.shape, after, at).shape
            /\ index = InsertPointAt(base.shape, after, at).index

(* A drag that made its handle holds the draft from before the press.      *)
DragIsNew == drag.on /\ drag.created => PutIn(drag.base, drag.shape, drag.index)

(* A pulled shape lies round the circle of its draft; and so do those that *)
(* a drag or the pin may bring back.                                       *)
Lies(shape, d) ==
    shape.kind = "pulled" => shape.circle = [center |-> d.center, radius |-> d.radius]

(* In a new zone every shape there is, or may be again, lies round its     *)
(* draft's circle.                                                         *)
AllLie ==
    saved = NoZone =>
        /\ draft.open => Lies(draft.shape, draft)
        /\ drag.on => Lies(drag.base.shape, drag.base) /\ Lies(drag.shape, drag.base)
        /\ pin.on => Lies(pin.draft.shape, pin.draft)

(* The inductive invariant of the editor.                                  *)
EditorInv ==
    /\ EditorTypeOK /\ NoPressLeft /\ PansAgain /\ HeldShape /\ DragIsNew /\ AllLie

(* The parts of drafts and presses.                                        *)
LEMMA RecordsAre ==
    /\ NoDraft.open = FALSE /\ NoDraft.shape = NoShape
    /\ NoDrag.on = FALSE /\ NoStroke.on = FALSE /\ NoPin.on = FALSE
    /\ \A d \in Drafts : /\ d.open = TRUE /\ d.center \in Places /\ d.radius \in Int
                         /\ d.shape \in Shapes
    /\ \A g \in Drags : /\ g.on = TRUE /\ g.base \in Drafts /\ g.shape \in Pulleds \cup Freehands
                        /\ g.index \in Nat /\ g.created \in BOOLEAN /\ g.moved \in BOOLEAN
                        /\ g.held \in BOOLEAN /\ g.was \in BOOLEAN
    /\ \A p \in Pins : p.on = TRUE /\ p.draft \in Drafts
    /\ \A s \in Strokes : s.on = TRUE /\ s.before \in Seq(Seq(Places)) /\ s.piece \in Seq(Places)
<1>1. NoDraft.open = FALSE /\ NoDraft.shape = NoShape
    BY DEF NoDraft
<1>2. NoDrag.on = FALSE /\ NoStroke.on = FALSE /\ NoPin.on = FALSE
    BY DEF NoDrag, NoStroke, NoPin
<1>3. \A d \in Drafts : /\ d.open = TRUE /\ d.center \in Places /\ d.radius \in Int
                        /\ d.shape \in Shapes
    BY DEF Drafts
<1>4. \A g \in Drags : /\ g.on = TRUE /\ g.base \in Drafts /\ g.shape \in Pulleds \cup Freehands
                       /\ g.index \in Nat /\ g.created \in BOOLEAN /\ g.moved \in BOOLEAN
                       /\ g.held \in BOOLEAN /\ g.was \in BOOLEAN
    BY DEF Drags
<1>5. \A p \in Pins : p.on = TRUE /\ p.draft \in Drafts
    BY DEF Pins
<1>6. \A s \in Strokes : s.on = TRUE /\ s.before \in Seq(Seq(Places)) /\ s.piece \in Seq(Places)
    BY DEF Strokes
<1> QED BY <1>1, <1>2, <1>3, <1>4, <1>5, <1>6

(* What is open, or on, is a record of its kind.                           *)
LEMMA TypesAre ==
    ASSUME EditorTypeOK
    PROVE  /\ draft.open \in BOOLEAN /\ draft.open = TRUE <=> draft \in Drafts
           /\ drag.on \in BOOLEAN /\ drag.on = TRUE <=> drag \in Drags
           /\ pin.on \in BOOLEAN /\ pin.on = TRUE <=> pin \in Pins
           /\ stroke.on \in BOOLEAN /\ stroke.on = TRUE <=> stroke \in Strokes
           /\ draft.shape \in Shapes
           /\ Drawing \in BOOLEAN
<1>1. NoShape \in Shapes
    BY DEF Shapes
<1>2. draft.open \in BOOLEAN /\ draft.open = TRUE <=> draft \in Drafts
    BY RecordsAre DEF EditorTypeOK
<1>3. Drawing \in BOOLEAN
    BY <1>2 DEF Drawing, EditorTypeOK
<1> QED BY <1>1, <1>2, <1>3, RecordsAre DEF EditorTypeOK

(* A draft has what it is made of.                                         *)
LEMMA DraftIs ==
    ASSUME NEW c \in Places, NEW r \in Int, NEW s \in Shapes
    PROVE  /\ Draft(c, r, s) \in Drafts /\ Draft(c, r, s).center = c
           /\ Draft(c, r, s).radius = r /\ Draft(c, r, s).shape = s
BY DEF Draft, Drafts

(* A draft with one part changed is a draft, and keeps the others.         *)
LEMMA DraftMoved ==
    ASSUME NEW d \in Drafts, NEW c \in Places
    PROVE  [d EXCEPT !.center = c] \in Drafts /\ [d EXCEPT !.center = c].shape = d.shape
BY DEF Drafts

(* The same, of the radius.                                                *)
LEMMA DraftRadius ==
    ASSUME NEW d \in Drafts, NEW r \in Int
    PROVE  [d EXCEPT !.radius = r] \in Drafts /\ [d EXCEPT !.radius = r].shape = d.shape
BY DEF Drafts

(* The same, of the shape.                                                 *)
LEMMA DraftShape ==
    ASSUME NEW d \in Drafts, NEW s \in Shapes
    PROVE  /\ [d EXCEPT !.shape = s] \in Drafts /\ [d EXCEPT !.shape = s].shape = s
           /\ [d EXCEPT !.shape = s].center = d.center /\ [d EXCEPT !.shape = s].radius = d.radius
BY DEF Drafts

(* A radius on the slider is a number.                                     *)
LEMMA OnSliderIs ==
    ASSUME NEW r \in Int
    PROVE  OnSlider(r) \in Int
<1> DEFINE capped == IF r > MaxRadius THEN MaxRadius ELSE r
<1>1. capped \in Int /\ 2 * capped + RadiusStep \in Int
      /\ 2 * RadiusStep \in Nat \ {0} /\ RadiusStep \in Int
    BY EditorAssumption
<1>2. \A a \in Int, b \in Nat \ {0} : (a \div b) \in Int
    OBVIOUS
<1> DEFINE q == (2 * capped + RadiusStep) \div (2 * RadiusStep)
<1>3. q \in Int
    BY <1>1, <1>2
<1>4. OnSlider(r) = q * RadiusStep
    BY DEF OnSlider
<1> HIDE DEF q
<1> QED BY <1>1, <1>3, <1>4

(* What a draft is reset to has no shape.                                  *)
LEMMA CirclesAre ==
    ASSUME NEW d \in Drafts, NEW r \in Int, NEW c \in Circles(d, r)
    PROVE  c \in Drafts /\ c.shape = NoShape
<1>0. NoShape \in Shapes /\ d.shape \in Shapes
    BY RecordsAre DEF Shapes
<1>1. CASE d.shape = NoShape
  <2>1. c = d
    BY <1>1, ShapeIs DEF Circles
  <2> QED BY <1>1, <2>1
<1>2. CASE d.shape \in Pulleds
  <2>1. c = Draft(d.shape.circle.center, d.shape.circle.radius, NoShape)
    BY <1>2, ShapeIs DEF Circles
  <2>2. d.shape.circle.center \in Places /\ d.shape.circle.radius \in Int
    BY <1>2, ShapeIs
  <2> QED BY <1>0, <2>1, <2>2, DraftIs
<1>3. CASE d.shape \in Freehands
  <2>1. PICK at \in Places : c = Draft(at, OnSlider(r), NoShape)
    BY <1>3, ShapeIs DEF Circles
  <2> QED BY <1>0, <2>1, OnSliderIs, DraftIs
<1> QED BY <1>0, <1>1, <1>2, <1>3 DEF Shapes

(* What is left when a point is taken out of a draft.                      *)
LEMMA WithoutPointIs ==
    ASSUME NEW d \in Drafts, NEW index \in Nat, NEW u \in WithoutPoint(d, index)
    PROVE  u \in Drafts /\ (Lies(d.shape, d) => Lies(u.shape, u))
<1> DEFINE next == RemoveHandle(d.shape, index)
<1>1. CASE d.shape = NoShape \/ ~CanRemove(d.shape) \/ ~IsHandle(d.shape, index)
  <2>1. u = d
    BY <1>1 DEF WithoutPoint
  <2> QED BY <2>1
<1>2. CASE ~(d.shape = NoShape \/ ~CanRemove(d.shape) \/ ~IsHandle(d.shape, index))
  <2>1. d.shape \in Pulleds \cup Freehands /\ IsHandle(d.shape, index)
    BY <1>2, RecordsAre DEF Shapes
  <2>2. /\ next \in Shapes
        /\ next \in Pulleds => d.shape \in Pulleds /\ next.circle = d.shape.circle
    BY <2>1, RemovedIs
  <2>3. CASE next = NoShape
    <3>1. u \in Circles(d, d.radius)
      BY <1>2, <2>3 DEF WithoutPoint
    <3>2. u \in Drafts /\ u.shape = NoShape
      BY <3>1, CirclesAre, RecordsAre
    <3> QED BY <3>2, ShapeIs DEF Lies
  <2>4. CASE next # NoShape
    <3>1. u = [d EXCEPT !.shape = next]
      BY <1>2, <2>4 DEF WithoutPoint
    <3> HIDE DEF next
    <3>2. u \in Drafts /\ u.shape = next /\ u.center = d.center /\ u.radius = d.radius
      <4>1. /\ [d EXCEPT !.shape = next] \in Drafts /\ [d EXCEPT !.shape = next].shape = next
            /\ [d EXCEPT !.shape = next].center = d.center
            /\ [d EXCEPT !.shape = next].radius = d.radius
        BY <2>2, DraftShape, Zenon
      <4> QED BY <3>1, <4>1
    <3>3. u.shape.kind = "pulled" => u.shape \in Pulleds
      BY <2>2, <3>2, ShapeIs DEF Shapes
    <3>4. d.shape \in Pulleds => d.shape.kind = "pulled"
      BY ShapeIs
    <3> QED BY <2>2, <3>2, <3>3, <3>4 DEF Lies
  <2> QED BY <2>3, <2>4
<1> QED BY <1>1, <1>2
-----------------------------------------------------------------------------
(* Editor's initial states satisfy the invariant.                          *)
LEMMA EditorInitOK == Init => EditorInv
<1> SUFFICES ASSUME Init PROVE EditorInv
    OBVIOUS
<1>1. EditorTypeOK
  <2>1. <<>> \in Seq(Seq(Places))
    BY EmptySeq
  <2>2. draft \in Drafts \cup {NoDraft} /\ stroke \in Strokes \cup {NoStroke}
        /\ drag \in Drags \cup {NoDrag} /\ pin \in Pins \cup {NoPin}
    BY DEF Init
  <2>3. saved \in Int /\ mode \in Modes /\ hold \in Nat
    BY DEF Init, NoZone, Modes
  <2>5. penDown \in BOOLEAN /\ stray \in BOOLEAN /\ panning \in BOOLEAN /\ restore \in BOOLEAN
    BY Zenon DEF Init
  <2>4. pieces = <<>>
    BY DEF Init
  <2> QED BY <2>1, <2>2, <2>3, <2>4, <2>5 DEF EditorTypeOK
<1>2. ~draft.open /\ ~drag.on /\ ~pin.on /\ ~stroke.on /\ hold = 0 /\ panning = TRUE
    BY RecordsAre DEF Init
<1> QED BY <1>1, <1>2
        DEF EditorInv, NoPressLeft, PansAgain, HeldShape, DragIsNew, AllLie

(* A button of the panel: what it makes of the draft, with what follows    *)
(* from the render.                                                        *)
LEMMA PanelStep ==
    ASSUME EditorInv, Settle,
           draft' \in Drafts \cup {NoDraft}, saved' \in Int, mode' \in Modes,
           penDown' \in BOOLEAN, stray' \in BOOLEAN, pieces' \in Seq(Seq(Places)),
           drag.on /\ draft'.open
               => draft'.shape = draft.shape \/ Handles(draft'.shape) = {},
           saved' = NoZone /\ draft'.open => Lies(draft'.shape, draft'),
           saved' = NoZone /\ saved # NoZone => ~draft.open \/ ~draft'.open
    PROVE  EditorInv'
<1>0. /\ EditorTypeOK /\ NoPressLeft /\ PansAgain /\ HeldShape /\ DragIsNew /\ AllLie
    BY DEF EditorInv
<1>1. draft'.open \in BOOLEAN /\ Drawing' \in BOOLEAN
    BY RecordsAre DEF Drawing
<1>2. /\ draft'.open => drag' = drag /\ hold' = hold /\ pin' = pin
      /\ ~draft'.open => drag' = NoDrag /\ hold' = 0 /\ pin' = NoPin
      /\ Drawing' => stroke' = stroke
      /\ ~Drawing' => stroke' = NoStroke
    BY DEF Settle
<1> DEFINE free == IF draft'.open THEN panning ELSE PanningAfterDrag
<1>t. panning \in BOOLEAN /\ restore \in BOOLEAN
    BY <1>0 DEF EditorTypeOK
<1>3. PanningAfterDrag \in BOOLEAN
    BY DEF PanningAfterDrag
<1>4. free \in BOOLEAN
  <2>1. CASE draft'.open
    BY <1>t, <2>1
  <2>2. CASE ~draft'.open
    BY <1>3, <2>2
  <2> QED BY <2>1, <2>2
<1>f. panning \/ (drag.on /\ drag.was) => free \/ (drag'.on /\ drag'.was)
  <2>1. CASE draft'.open
    <3>1. free = panning /\ drag' = drag
      BY <1>2, <2>1
    <3> QED BY <3>1, Zenon
  <2>2. CASE ~draft'.open
    <3>1. free = PanningAfterDrag
      BY <2>2
    <3> QED BY <3>1, Zenon DEF PanningAfterDrag
  <2> QED BY <2>1, <2>2
<1>p. panning \/ (Drawing /\ restore) \/ (drag.on /\ drag.was)
    BY <1>0 DEF PansAgain
<1>9. panning' \in BOOLEAN /\ restore' \in BOOLEAN /\ PansAgain'
  <2>5. CASE Drawing /\ Drawing'
    <3>1. panning' = panning /\ restore' = restore
      BY <2>5 DEF Settle
    <3>2. drag' = drag
      BY <1>2, <2>5 DEF Drawing
    <3>3. PansAgain'
      BY <1>p, <2>5, <3>1, <3>2, Zenon DEF PansAgain
    <3> QED BY <1>t, <3>1, <3>3
  <2>6. CASE ~Drawing /\ Drawing'
    <3>1. restore' = free /\ panning' = FALSE
      BY <2>6 DEF Settle
    <3> HIDE DEF free
    <3>2. PansAgain'
      BY <1>p, <1>f, <2>6, <3>1, Zenon DEF PansAgain
    <3> QED BY <1>4, <3>1, <3>2
  <2>7. CASE Drawing /\ ~Drawing'
    <3>1. restore' = FALSE /\ panning' = (free \/ restore)
      BY <2>7 DEF Settle
    <3> HIDE DEF free
    <3>2. PansAgain'
      BY <1>p, <1>f, <3>1, Zenon DEF PansAgain
    <3>3. (free \/ restore) \in BOOLEAN
      OBVIOUS
    <3> QED BY <3>1, <3>2, <3>3
  <2>8. CASE ~Drawing /\ ~Drawing'
    <3>1. restore' = FALSE /\ panning' = free
      BY <2>8 DEF Settle
    <3> HIDE DEF free
    <3>2. PansAgain'
      BY <1>p, <1>f, <2>8, <3>1, Zenon DEF PansAgain
    <3> QED BY <1>4, <3>1, <3>2
  <2> QED BY <2>5, <2>6, <2>7, <2>8
<1>10. EditorTypeOK'
    BY <1>0, <1>1, <1>2, <1>9 DEF EditorTypeOK
<1>11. NoPressLeft'
  <2>1. ~draft'.open => ~Drawing'
    BY DEF Drawing
  <2> QED BY <1>2, <2>1, RecordsAre DEF NoPressLeft
<1>12. HeldShape'
    BY <1>0, <1>1, <1>2 DEF HeldShape
<1>13. DragIsNew'
    BY <1>0, <1>1, <1>2, RecordsAre DEF DragIsNew
<1>14. AllLie'
  <2> SUFFICES ASSUME saved' = NoZone, draft'.open = TRUE
               PROVE  /\ drag.on => Lies(drag.base.shape, drag.base) /\ Lies(drag.shape, drag.base)
                      /\ pin.on => Lies(pin.draft.shape, pin.draft)
    BY <1>1, <1>2, RecordsAre DEF AllLie, Lies
  <2>1. CASE saved = NoZone
    BY <1>0, <2>1 DEF AllLie
  <2>2. CASE saved # NoZone
    BY <1>0, <2>2 DEF NoPressLeft
  <2> QED BY <2>1, <2>2
<1> QED BY <1>9, <1>10, <1>11, <1>12, <1>13, <1>14 DEF EditorInv

(* A button that leaves the draft alone.                                   *)
LEMMA PanelSame ==
    ASSUME EditorInv, Settle, draft' = draft, saved' = saved, mode' \in Modes,
           penDown' \in BOOLEAN, stray' \in BOOLEAN, pieces' \in Seq(Seq(Places))
    PROVE  EditorInv'
<1>1. draft' \in Drafts \cup {NoDraft} /\ saved' \in Int
    BY DEF EditorInv, EditorTypeOK
<1>2. saved' = NoZone /\ draft'.open => Lies(draft'.shape, draft')
    BY DEF EditorInv, AllLie
<1> QED BY <1>1, <1>2, PanelStep

(* A button that makes the draft one without handles.                      *)
LEMMA PanelBare ==
    ASSUME EditorInv, Settle, draft' \in Drafts, saved' = saved, mode' \in Modes,
           penDown' \in BOOLEAN, stray' \in BOOLEAN, pieces' \in Seq(Seq(Places)),
           draft'.shape.kind # "pulled", Handles(draft'.shape) = {}
    PROVE  EditorInv'
<1>1. saved' \in Int
    BY DEF EditorInv, EditorTypeOK
<1>2. saved' = NoZone /\ draft'.open => Lies(draft'.shape, draft')
    BY DEF Lies
<1> QED BY <1>1, <1>2, PanelStep

(* A shape as it is drawn has no handles.                                  *)
LEMMA BareIs ==
    /\ NoShape \in Shapes /\ NoShape.kind # "pulled" /\ Handles(NoShape) = {}
    /\ \A points \in Seq(Points) :
          (\A i \in DOMAIN points : ~points[i].handle)
             => Handles(Freehand(points)) = {}
<1>1. NoShape \in Shapes
    BY DEF Shapes
<1>2. NoShape.kind # "pulled" /\ Handles(NoShape) = {}
    BY ShapeIs DEF Handles
<1>3. ASSUME NEW points \in Seq(Points), \A i \in DOMAIN points : ~points[i].handle
      PROVE  Handles(Freehand(points)) = {}
    BY <1>3, ShapeIs DEF Handles
<1> QED BY <1>1, <1>2, <1>3

(* Resetting the pen leaves its variables of their types.                  *)
LEMMA ResetIs ==
    ASSUME ResetFreehand
    PROVE  /\ mode' \in Modes /\ penDown' \in BOOLEAN /\ stray' \in BOOLEAN
           /\ pieces' \in Seq(Seq(Places))
<1>1. mode' \in Modes
    BY DEF ResetFreehand, Modes
<1>2. penDown' \in BOOLEAN /\ stray' \in BOOLEAN
    BY Zenon DEF ResetFreehand
<1>3. pieces' \in Seq(Seq(Places))
    BY EmptySeq DEF ResetFreehand
<1> QED BY <1>1, <1>2, <1>3

(* StartNewZone keeps the invariant.                                       *)
LEMMA StartNewZoneOK ==
    ASSUME EditorInv, NEW at \in Places, StartNewZone(at) PROVE EditorInv'
<1>1. ~draft.open /\ draft' = Draft(at, NewRadius, NoShape) /\ saved' = NoZone /\ Settle
    BY DEF StartNewZone
<1>2. NewRadius \in Int
    BY EditorAssumption
<1>n. NoShape \in Shapes
    BY BareIs
<1>3. draft' \in Drafts /\ draft'.shape = NoShape
  <2>1. /\ Draft(at, NewRadius, NoShape) \in Drafts
        /\ Draft(at, NewRadius, NoShape).shape = NoShape
    BY <1>2, <1>n, DraftIs
  <2>2. draft' = Draft(at, NewRadius, NoShape)
    BY <1>1
  <2> QED BY <2>1, <2>2, Zenon
<1>4. /\ mode' \in Modes /\ penDown' \in BOOLEAN /\ stray' \in BOOLEAN
      /\ pieces' \in Seq(Seq(Places))
    BY ResetIs DEF StartNewZone
<1>5. Lies(draft'.shape, draft') /\ Handles(draft'.shape) = {}
    BY <1>3, BareIs DEF Lies
<1>6. saved' \in Int
    BY <1>1 DEF NoZone
<1> QED BY <1>1, <1>3, <1>4, <1>5, <1>6, PanelStep

(* What the server may have is a draft, with a radius of its own.          *)
LEMMA SavedIs ==
    ASSUME NEW zone \in SavedZones
    PROVE  zone \in Drafts /\ zone.radius # NoZone
<1>1. MinPoints \in Nat \ {0} /\ RadiusStep \in Nat \ {0} /\ MaxRadius \in Nat /\ Start \in Places
      /\ NewRadius \in Int
    BY EditorAssumption, MinPointsAssumption
<1>2. \A r \in Radii : r \in Int /\ r # NoZone
    BY <1>1 DEF Radii, NoZone
<1>3. \A r \in DrawnRadii : r \in Int /\ r # NoZone
    BY EditorAssumption DEF NoZone
<1> DEFINE pulled(p, c, r) ==
             Draft(c, r, Pulled([center |-> Start, radius |-> NewRadius], <<p>>))
           points == [i \in 1..MinPoints |-> [at |-> Start, handle |-> i = 1]]
           A == {Draft(c, r, NoShape) : c \in Places, r \in Radii}
           B == {pulled(p, c, r) : p \in Places, c \in Places, r \in DrawnRadii}
           C == {Draft(c, r, Freehand(points)) : c \in Places, r \in DrawnRadii}
<1>4. zone \in A \/ zone \in B \/ zone \in C
  <2>1. zone \in (A \cup B) \cup C
    BY SMTT(40) DEF SavedZones
  <2> HIDE DEF A, B, C
  <2> QED BY <2>1
<1>5. CASE zone \in A
  <2>1. PICK c \in Places, r \in Radii : zone = Draft(c, r, NoShape)
    BY <1>5
  <2> QED BY <1>2, <2>1, BareIs, DraftIs
<1>6. CASE zone \in B
  <2>1. PICK p \in Places, c \in Places, r \in DrawnRadii : zone = pulled(p, c, r)
    <3> HIDE DEF pulled
    <3> QED BY <1>6
  <2>2. <<p>> \in Seq(Places)
    OBVIOUS
  <2>3. [center |-> Start, radius |-> NewRadius] \in [center : Places, radius : Int]
    BY <1>1
  <2>4. Pulled([center |-> Start, radius |-> NewRadius], <<p>>) \in Shapes
    BY <2>2, <2>3, ShapeIs DEF Shapes
  <2> QED BY <1>3, <2>1, <2>4, DraftIs
<1>7. CASE zone \in C
  <2>1. PICK c \in Places, r \in DrawnRadii : zone = Draft(c, r, Freehand(points))
    <3> HIDE DEF points
    <3> QED BY <1>7
  <2>2. points \in Seq(Points)
    <3>1. ASSUME NEW i \in 1..MinPoints PROVE [at |-> Start, handle |-> i = 1] \in Points
      <4>1. (i = 1) \in BOOLEAN
        OBVIOUS
      <4> DEFINE b == (i = 1)
      <4> HIDE DEF b
      <4>2. [at |-> Start, handle |-> b] \in Points
        BY <1>1, <4>1 DEF Points, b
      <4> QED BY <4>2 DEF b
    <3>2. points \in [1..MinPoints -> Points]
      BY <3>1
    <3> QED BY <1>1, <3>2, SeqDef
  <2>3. Freehand(points) \in Shapes
    <3> HIDE DEF points
    <3> QED BY <2>2, ShapeIs DEF Shapes
  <2> HIDE DEF points
  <2> QED BY <1>3, <2>1, <2>3, DraftIs
<1> HIDE DEF A, B, C
<1> QED BY <1>4, <1>5, <1>6, <1>7

(* StartEditZone keeps the invariant.                                      *)
LEMMA StartEditZoneOK ==
    ASSUME EditorInv, NEW zone \in SavedZones, StartEditZone(zone) PROVE EditorInv'
<1>1. ~draft.open /\ draft' = zone /\ saved' = zone.radius /\ Settle
    BY DEF StartEditZone
<1>2. ~drag.on
    BY <1>1 DEF EditorInv, NoPressLeft
<1>3. draft' \in Drafts /\ saved' # NoZone /\ saved' \in Int
    BY <1>1, SavedIs, RecordsAre
<1>4. /\ mode' \in Modes /\ penDown' \in BOOLEAN /\ stray' \in BOOLEAN
      /\ pieces' \in Seq(Seq(Places))
    BY ResetIs DEF StartEditZone
<1> QED BY <1>1, <1>2, <1>3, <1>4, PanelStep

(* SwitchToZone keeps the invariant.                                       *)
LEMMA SwitchToZoneOK ==
    ASSUME EditorInv, NEW at \in Places, SwitchToZone(at) PROVE EditorInv'
<1>1. draft' = Draft(at, NewRadius, NoShape) /\ saved' = saved /\ Settle
    BY DEF SwitchToZone
<1>2. NewRadius \in Int
    BY EditorAssumption
<1>n. NoShape \in Shapes
    BY BareIs
<1>3. draft' \in Drafts /\ draft'.shape = NoShape
  <2>1. /\ Draft(at, NewRadius, NoShape) \in Drafts
        /\ Draft(at, NewRadius, NoShape).shape = NoShape
    BY <1>2, <1>n, DraftIs
  <2>2. draft' = Draft(at, NewRadius, NoShape)
    BY <1>1
  <2> QED BY <2>1, <2>2, Zenon
<1>4. /\ mode' \in Modes /\ penDown' \in BOOLEAN /\ stray' \in BOOLEAN
      /\ pieces' \in Seq(Seq(Places))
    BY ResetIs DEF SwitchToZone
<1> QED BY <1>1, <1>3, <1>4, BareIs, PanelBare

(* CloseZone keeps the invariant.                                          *)
LEMMA CloseZoneOK ==
    ASSUME EditorInv, CloseZone PROVE EditorInv'
<1>1. draft' = NoDraft /\ saved' = NoZone /\ Settle
    BY DEF CloseZone
<1>2. ~draft'.open /\ saved' \in Int
    BY <1>1, RecordsAre DEF NoZone
<1>3. /\ mode' \in Modes /\ penDown' \in BOOLEAN /\ stray' \in BOOLEAN
      /\ pieces' \in Seq(Seq(Places))
    BY ResetIs DEF CloseZone
<1> QED BY <1>1, <1>2, <1>3, PanelStep

(* MapClick keeps the invariant.                                           *)
LEMMA MapClickOK ==
    ASSUME EditorInv, NEW at \in Places, MapClick(at) PROVE EditorInv'
<1>1. /\ draft.open /\ draft.shape = NoShape /\ draft' = [draft EXCEPT !.center = at]
      /\ UNCHANGED <<saved, mode, penDown, pieces, stray>> /\ Settle
    BY DEF MapClick
<1>2. draft \in Drafts
    BY <1>1, TypesAre DEF EditorInv
<1>3. draft' \in Drafts /\ draft'.shape = NoShape
    BY <1>1, <1>2, DraftMoved, Zenon
<1>4. /\ mode' \in Modes /\ penDown' \in BOOLEAN /\ stray' \in BOOLEAN
      /\ pieces' \in Seq(Seq(Places)) /\ saved' = saved
    BY <1>1 DEF EditorInv, EditorTypeOK
<1> QED BY <1>1, <1>3, <1>4, BareIs, PanelBare

(* ZoneRadius keeps the invariant.                                         *)
LEMMA ZoneRadiusOK ==
    ASSUME EditorInv, NEW r \in Radii, ZoneRadius(r) PROVE EditorInv'
<1>1. /\ draft.open /\ draft.shape = NoShape /\ draft' = [draft EXCEPT !.radius = r]
      /\ UNCHANGED <<saved, mode, penDown, pieces, stray>> /\ Settle
    BY DEF ZoneRadius
<1>2. draft \in Drafts
    BY <1>1, TypesAre DEF EditorInv
<1>3. draft' \in Drafts /\ draft'.shape = NoShape
  <2>1. r \in Int
    BY EditorAssumption DEF Radii
  <2> QED BY <1>1, <1>2, <2>1, DraftRadius, Zenon
<1>4. /\ mode' \in Modes /\ penDown' \in BOOLEAN /\ stray' \in BOOLEAN
      /\ pieces' \in Seq(Seq(Places)) /\ saved' = saved
    BY <1>1 DEF EditorInv, EditorTypeOK
<1> QED BY <1>1, <1>3, <1>4, BareIs, PanelBare

(* ModeChange keeps the invariant.                                         *)
LEMMA ModeChangeOK ==
    ASSUME EditorInv, NEW m \in Modes, ModeChange(m) PROVE EditorInv'
<1>1. /\ mode' = m /\ UNCHANGED <<draft, saved, pieces>> /\ Settle
    BY DEF ModeChange
<1>2. penDown' \in BOOLEAN /\ stray' \in BOOLEAN
    BY Zenon DEF ModeChange
<1>3. pieces' \in Seq(Seq(Places))
    BY <1>1 DEF EditorInv, EditorTypeOK
<1> QED BY <1>1, <1>2, <1>3, PanelSame

(* PenToggle keeps the invariant.                                          *)
LEMMA PenToggleOK ==
    ASSUME EditorInv, PenToggle PROVE EditorInv'
<1>1. /\ UNCHANGED <<draft, saved, mode, pieces>> /\ Settle
    BY DEF PenToggle
<1>2. penDown' \in BOOLEAN /\ stray' \in BOOLEAN
    BY Zenon DEF PenToggle
<1>3. pieces' \in Seq(Seq(Places)) /\ mode' \in Modes
    BY <1>1 DEF EditorInv, EditorTypeOK
<1> QED BY <1>1, <1>2, <1>3, PanelSame

(* UndoPiece keeps the invariant.                                          *)
LEMMA UndoPieceOK ==
    ASSUME EditorInv, UndoPiece PROVE EditorInv'
<1>1. /\ UNCHANGED <<draft, saved, mode, penDown>> /\ Settle
      /\ pieces # <<>> /\ pieces' = Front(pieces)
    BY DEF UndoPiece
<1>2. stray' \in BOOLEAN
    BY Zenon DEF UndoPiece
<1>3. pieces \in Seq(Seq(Places)) /\ penDown' \in BOOLEAN /\ mode' \in Modes
    BY <1>1 DEF EditorInv, EditorTypeOK
<1>4. Len(pieces) \in Nat /\ Len(pieces) # 0
    BY <1>1, <1>3, LenProperties, EmptySeq
<1>5. pieces' \in Seq(Seq(Places))
  <2>1. \A i \in 1..(Len(pieces) - 1) : pieces[i] \in Seq(Places)
    BY <1>3, <1>4, ElementOfSeq
  <2>2. SubSeq(pieces, 1, Len(pieces) - 1) \in Seq(Seq(Places))
    BY <1>3, <1>4, SubSeqProperties
  <2> QED BY <1>1, <2>2 DEF Front
<1> QED BY <1>1, <1>2, <1>3, <1>5, PanelSame

(* ClearPieces keeps the invariant.                                        *)
LEMMA ClearPiecesOK ==
    ASSUME EditorInv, ClearPieces PROVE EditorInv'
<1>1. /\ UNCHANGED <<draft, saved, mode, penDown>> /\ Settle /\ pieces' = <<>>
    BY DEF ClearPieces
<1>2. stray' \in BOOLEAN
    BY Zenon DEF ClearPieces
<1>3. penDown' \in BOOLEAN /\ mode' \in Modes /\ pieces' \in Seq(Seq(Places))
    BY <1>1, EmptySeq DEF EditorInv, EditorTypeOK
<1> QED BY <1>1, <1>2, <1>3, PanelSame

(* FinishFreehand keeps the invariant.                                     *)
LEMMA FinishFreehandOK ==
    ASSUME EditorInv, NEW n \in MinPoints..MaxCorners, NEW at \in Places, FinishFreehand(n, at)
    PROVE  EditorInv'
<1> DEFINE points == [i \in 1..n |-> [at |-> Start, handle |-> FALSE]]
<1>0. n \in Nat /\ Start \in Places
    BY EditorAssumption, MinPointsAssumption
<1>1. /\ draft.open /\ Settle /\ saved' = saved
      /\ draft' = [draft EXCEPT !.center = at, !.shape = Freehand(points)]
    BY DEF FinishFreehand, Freehanding
<1>2. points \in Seq(Points) /\ \A i \in DOMAIN points : ~points[i].handle
  <2>1. [at |-> Start, handle |-> FALSE] \in Points
    BY <1>0 DEF Points
  <2>2. points \in [1..n -> Points]
    BY <2>1
  <2>3. points \in Seq(Points)
    <3> HIDE DEF points
    <3> QED BY <1>0, <2>2, SeqDef
  <2>4. \A i \in DOMAIN points : ~points[i].handle
    OBVIOUS
  <2> QED BY <2>3, <2>4
<1> HIDE DEF points
<1>3. /\ Freehand(points) \in Shapes /\ Freehand(points).kind = "freehand"
      /\ Handles(Freehand(points)) = {}
    BY <1>2, BareIs, ShapeIs DEF Shapes
<1>4. draft \in Drafts
    BY <1>1, TypesAre DEF EditorInv
<1>5. draft' \in Drafts /\ draft'.shape = Freehand(points)
  <2>1. draft.radius \in Int
    BY <1>4, RecordsAre
  <2> DEFINE s == Freehand(points)
  <2>2. s \in Shapes /\ draft' = [draft EXCEPT !.center = at, !.shape = s]
    BY <1>1, <1>3
  <2> HIDE DEF s
  <2>3. draft' \in Drafts /\ draft'.shape = s
    <3>1. /\ [draft EXCEPT !.center = at, !.shape = s] \in Drafts
          /\ [draft EXCEPT !.center = at, !.shape = s].shape = s
      BY <1>4, <2>2 DEF Drafts
    <3>2. draft' = [draft EXCEPT !.center = at, !.shape = s]
      BY <2>2
    <3> QED BY <3>1, <3>2, Zenon
  <2> QED BY <2>3 DEF s
<1>6. /\ mode' \in Modes /\ penDown' \in BOOLEAN /\ stray' \in BOOLEAN
      /\ pieces' \in Seq(Seq(Places))
    BY ResetIs DEF FinishFreehand
<1> QED BY <1>1, <1>3, <1>5, <1>6, PanelBare

(* PenFinish keeps the invariant.                                          *)
LEMMA PenFinishOK ==
    ASSUME EditorInv, NEW n \in MinPoints..MaxCorners, NEW at \in Places, PenFinish(n, at)
    PROVE  EditorInv'
BY FinishFreehandOK DEF PenFinish

(* ResetToCircle keeps the invariant.                                      *)
LEMMA ResetToCircleOK ==
    ASSUME EditorInv, ResetToCircle PROVE EditorInv'
<1>1. /\ draft.open /\ UNCHANGED <<saved, mode, penDown, pieces, stray>> /\ Settle
      /\ draft' \in Circles(draft, IF saved = NoZone THEN draft.radius ELSE saved)
    BY DEF ResetToCircle
<1>2. draft \in Drafts
    BY <1>1, TypesAre DEF EditorInv
<1>3. (IF saved = NoZone THEN draft.radius ELSE saved) \in Int
    BY <1>2, RecordsAre DEF EditorInv, EditorTypeOK
<1>4. draft' \in Drafts /\ draft'.shape = NoShape
    BY <1>1, <1>2, <1>3, CirclesAre
<1>5. /\ mode' \in Modes /\ penDown' \in BOOLEAN /\ stray' \in BOOLEAN
      /\ pieces' \in Seq(Seq(Places)) /\ saved' = saved
    BY <1>1 DEF EditorInv, EditorTypeOK
<1> QED BY <1>1, <1>4, <1>5, BareIs, PanelBare
-----------------------------------------------------------------------------
(* A press puts a drag in the place of the one before.                     *)
LEMMA PressStep ==
    ASSUME EditorInv, Active, NEW base \in Drafts, NEW shape \in Pulleds \cup Freehands,
           NEW index \in Nat, NEW created \in BOOLEAN, NEW timed \in Nat,
           BeginDrag(base, shape, index, created, timed),
           draft' \in Drafts, draft'.shape = shape,
           timed # 0 => timed = index,
           created => PutIn(base, shape, index),
           saved = NoZone => /\ Lies(base.shape, base) /\ Lies(shape, base)
                             /\ Lies(draft'.shape, draft')
    PROVE  EditorInv'
<1>0. /\ EditorTypeOK /\ NoPressLeft /\ PansAgain /\ HeldShape /\ DragIsNew /\ AllLie
    BY DEF EditorInv
<1>1. /\ drag' \in Drags /\ drag'.on = TRUE /\ drag'.base = base /\ drag'.shape = shape
      /\ drag'.index = index /\ drag'.created = created /\ drag'.moved = FALSE
      /\ drag'.was = TRUE
      /\ hold' = timed /\ panning' = FALSE
  <2>1. /\ drag' = [on |-> TRUE, base |-> base, shape |-> shape, index |-> index,
                    created |-> created, moved |-> FALSE, held |-> FALSE,
                    was |-> PanningAfterDrag]
        /\ hold' = timed /\ panning' = FALSE
      BY DEF BeginDrag, Timer
  <2>2. ~Drawing
      BY DEF Active, Drawing
  <2>3. PanningAfterDrag = TRUE
    <3>1. panning \/ (drag.on /\ drag.was)
      BY <2>2, Zenon DEF EditorInv, PansAgain
    <3> QED BY <3>1, Zenon DEF PanningAfterDrag
  <2> DEFINE w == PanningAfterDrag
  <2>4. /\ drag' = [on |-> TRUE, base |-> base, shape |-> shape, index |-> index,
                    created |-> created, moved |-> FALSE, held |-> FALSE, was |-> w]
        /\ w = TRUE
      BY <2>1, <2>3
  <2> HIDE DEF w
  <2>5. w \in BOOLEAN /\ FALSE \in BOOLEAN
      BY <2>4
  <2>6. drag' \in Drags
      BY <2>4, <2>5 DEF Drags
  <2>7. /\ drag'.on = TRUE /\ drag'.base = base /\ drag'.shape = shape /\ drag'.index = index
        /\ drag'.moved = FALSE /\ drag'.was = w
      BY <2>4
  <2>8. drag'.created = created
      BY <2>4
  <2>9. drag'.was = TRUE
      BY <2>4, <2>7
  <2> QED BY <2>1, <2>6, <2>7, <2>8, <2>9
<1>2. UNCHANGED <<saved, mode, penDown, pieces, stray, stroke, pin, restore>>
    BY DEF BeginDrag
<1>3. draft.open /\ draft'.open
    BY RecordsAre DEF Active
<1>4. EditorTypeOK'
    BY <1>0, <1>1, <1>2 DEF EditorTypeOK
<1>5. NoPressLeft'
    BY <1>3 DEF NoPressLeft
<1>6. PansAgain'
    BY <1>1 DEF PansAgain
<1>7. HeldShape'
    BY <1>1 DEF HeldShape
<1>8. DragIsNew'
    BY <1>1 DEF DragIsNew
<1>9. AllLie'
    BY <1>0, <1>1, <1>2, <1>3 DEF AllLie
<1> QED BY <1>4, <1>5, <1>6, <1>7, <1>8, <1>9 DEF EditorInv

(* GrabHandle keeps the invariant.                                         *)
LEMMA GrabHandleOK ==
    ASSUME EditorInv, NEW index \in 1..MaxCorners, GrabHandle(index) PROVE EditorInv'
<1> DEFINE timed == IF CanRemove(draft.shape) THEN index ELSE 0
<1>1. /\ Active /\ IsHandle(draft.shape, index) /\ draft' = draft
      /\ BeginDrag(draft, draft.shape, index, FALSE, timed)
    BY DEF GrabHandle
<1>2. draft \in Drafts /\ draft.shape \in Shapes
    BY <1>1, TypesAre DEF EditorInv, Active
<1>3. index \in Nat /\ timed \in Nat /\ (timed # 0 => timed = index)
    BY EditorAssumption
<1>4. draft.shape # NoShape
  <2>1. Cardinality(Handles(NoShape)) = 0
    BY BareIs, FS_EmptySet
  <2> QED BY <1>1, <1>3, <2>1 DEF IsHandle
<1>5. draft.shape \in Pulleds \cup Freehands
    BY <1>2, <1>4 DEF Shapes
<1>6. saved = NoZone => Lies(draft.shape, draft)
    BY <1>1 DEF EditorInv, AllLie, Active
<1> HIDE DEF timed
<1> QED BY <1>1, <1>2, <1>3, <1>5, <1>6, PressStep

(* GrabEdge keeps the invariant.                                           *)
LEMMA GrabEdgeOK ==
    ASSUME EditorInv, NEW at \in Places, NEW after \in 0..MaxCorners, GrabEdge(at, after)
    PROVE  EditorInv'
<1> DEFINE new == IF draft.shape = NoShape
               THEN [shape |-> Pulled([center |-> draft.center, radius |-> draft.radius], <<at>>),
                     index |-> 1]
               ELSE InsertPointAt(draft.shape, after, at)
           s == new.shape
           i == new.index
<1>1. /\ Active
      /\ IF draft.shape = NoShape THEN after = 0 ELSE after \in 1..Size(draft.shape)
      /\ draft' = [draft EXCEPT !.shape = s]
      /\ BeginDrag(draft, s, i, TRUE, 0)
    BY DEF GrabEdge, Size
<1>2. /\ draft \in Drafts /\ draft.shape \in Shapes /\ draft.center \in Places
      /\ draft.radius \in Int
    BY <1>1, TypesAre, RecordsAre DEF EditorInv, Active
<1>3. saved = NoZone => Lies(draft.shape, draft)
    BY <1>1 DEF EditorInv, AllLie, Active
<1>4. /\ s \in Pulleds \cup Freehands /\ i \in Nat /\ PutIn(draft, s, i)
      /\ Lies(draft.shape, draft) => Lies(s, draft)
  <2>1. CASE draft.shape = NoShape
    <3> DEFINE c == [center |-> draft.center, radius |-> draft.radius]
    <3>1. s = Pulled(c, <<at>>) /\ i = 1
      BY <2>1
    <3>2. c \in [center : Places, radius : Int] /\ <<at>> \in Seq(Places)
      BY <1>2
    <3>3. Pulled(c, <<at>>) \in Pulleds /\ Pulled(c, <<at>>).circle = c
      <4> HIDE DEF c
      <4> QED BY <3>2, ShapeIs, Zenon
    <3>4. PutIn(draft, s, i)
      BY <2>1, <3>1 DEF PutIn
    <3>5. Lies(s, draft)
      BY <3>1, <3>3 DEF Lies
    <3> HIDE DEF c, s, i
    <3> QED BY <3>1, <3>3, <3>4, <3>5
  <2>2. CASE draft.shape # NoShape
    <3>1. /\ s = InsertPointAt(draft.shape, after, at).shape
          /\ i = InsertPointAt(draft.shape, after, at).index
          /\ after \in 1..Size(draft.shape)
      BY <1>1, <2>2
    <3>2. draft.shape \in Pulleds \cup Freehands
      BY <1>2, <2>2 DEF Shapes
    <3> HIDE DEF s, i
    <3>3. /\ s \in Pulleds \cup Freehands /\ i \in Nat /\ s.kind = draft.shape.kind
          /\ draft.shape \in Pulleds => s.circle = draft.shape.circle
      BY <3>1, <3>2, InsertedIs
    <3>4. PutIn(draft, s, i)
      BY <2>2, <3>1 DEF PutIn
    <3>5. draft.shape.kind = "pulled" => draft.shape \in Pulleds
      BY <3>2, ShapeIs
    <3>6. Lies(draft.shape, draft) => Lies(s, draft)
      BY <3>3, <3>5 DEF Lies
    <3> QED BY <3>3, <3>4, <3>6
  <2> QED BY <2>1, <2>2
<1> HIDE DEF s, i
<1>5. s \in Shapes
    BY <1>4 DEF Shapes
<1>6. /\ draft' \in Drafts /\ draft'.shape = s /\ draft'.center = draft.center
      /\ draft'.radius = draft.radius
    BY <1>1, <1>2, <1>5, DraftShape, Zenon
<1>7. Lies(s, draft) => Lies(draft'.shape, draft')
    BY <1>6 DEF Lies
<1>8. 0 \in Nat /\ TRUE \in BOOLEAN
    OBVIOUS
<1>9. saved = NoZone => /\ Lies(draft.shape, draft) /\ Lies(s, draft)
                        /\ Lies(draft'.shape, draft')
    BY <1>3, <1>4, <1>7
<1> QED BY <1>1, <1>2, <1>4, <1>6, <1>8, <1>9, PressStep

(* A gesture that leaves the panel, the drag and the timer alone.          *)
LEMMA GestureStep ==
    ASSUME EditorInv, UNCHANGED <<saved, mode, penDown, drag, hold, panning, restore>>,
           draft' = draft \/ (~drag.on /\ draft.open /\ draft' \in Drafts),
           saved = NoZone /\ draft'.open => Lies(draft'.shape, draft'),
           stray' \in BOOLEAN, pieces' \in Seq(Seq(Places)),
           stroke' \in Strokes \cup {NoStroke}, stroke'.on => draft.open,
           pin' \in Pins \cup {NoPin}, pin'.on => draft.open,
           saved = NoZone /\ pin'.on => Lies(pin'.draft.shape, pin'.draft)
    PROVE  EditorInv'
<1>0. /\ EditorTypeOK /\ NoPressLeft /\ PansAgain /\ HeldShape /\ DragIsNew /\ AllLie
    BY DEF EditorInv
<1>1. draft'.open = draft.open
    BY <1>0, TypesAre, RecordsAre
<1>2. EditorTypeOK'
    BY <1>0 DEF EditorTypeOK
<1>3. NoPressLeft'
    BY <1>0, <1>1 DEF NoPressLeft
<1>4. PansAgain'
    BY <1>0, <1>1, Zenon DEF PansAgain, Drawing
<1>5. HeldShape'
    BY <1>0 DEF HeldShape
<1>6. DragIsNew'
    BY <1>0 DEF DragIsNew
<1>7. AllLie'
    BY <1>0, <1>1 DEF AllLie
<1> QED BY <1>2, <1>3, <1>4, <1>5, <1>6, <1>7 DEF EditorInv

(* DoubleClick keeps the invariant.                                        *)
LEMMA DoubleClickOK ==
    ASSUME EditorInv, NEW index \in 1..MaxCorners, DoubleClick(index) PROVE EditorInv'
<1>1. /\ Active /\ ~drag.on /\ draft' \in WithoutPoint(draft, index)
      /\ UNCHANGED <<saved, mode, penDown, pieces, stray,
                     stroke, drag, hold, pin, panning, restore>>
    BY DEF DoubleClick
<1>2. draft \in Drafts /\ draft.open
    BY <1>1, TypesAre DEF EditorInv, Active
<1>3. index \in Nat
    BY EditorAssumption
<1>4. draft' \in Drafts /\ (Lies(draft.shape, draft) => Lies(draft'.shape, draft'))
    BY <1>1, <1>2, <1>3, WithoutPointIs
<1>5. saved = NoZone => Lies(draft'.shape, draft') /\ (pin'.on => Lies(pin'.draft.shape, pin'.draft))
    BY <1>1, <1>2, <1>4 DEF EditorInv, AllLie
<1>6. /\ stray' \in BOOLEAN /\ pieces' \in Seq(Seq(Places))
      /\ stroke' \in Strokes \cup {NoStroke} /\ pin' \in Pins \cup {NoPin}
    BY <1>1 DEF EditorInv, EditorTypeOK
<1> QED BY <1>1, <1>2, <1>4, <1>5, <1>6, GestureStep

(* PinMove keeps the invariant.                                            *)
LEMMA PinMoveOK ==
    ASSUME EditorInv, NEW f \in Shifts, PinMove(f) PROVE EditorInv'
<1>1. /\ Active /\ pin.on /\ ~drag.on /\ draft' = TranslateDraft(pin.draft, f)
      /\ UNCHANGED <<saved, mode, penDown, pieces, stray,
                     stroke, drag, hold, pin, panning, restore>>
    BY DEF PinMove
<1>2. pin \in Pins /\ draft.open
    BY <1>1, TypesAre DEF EditorInv, Active
<1> DEFINE d == pin.draft
           s == TranslateShape(d.shape, f)
           c == f[d.center]
<1>3. d \in Drafts /\ d.shape \in Shapes /\ f \in [Places -> Places] /\ d.center \in Places
    BY <1>2, RecordsAre DEF Shifts
<1>4. c \in Places
    BY <1>3
<1>5. /\ s \in Shapes
      /\ s \in Pulleds => d.shape \in Pulleds /\
            s.circle = [center |-> f[d.shape.circle.center], radius |-> d.shape.circle.radius]
    BY <1>3, TranslatedIs
<1>6. draft' = [d EXCEPT !.center = c, !.shape = s]
    BY <1>1 DEF TranslateDraft
<1>7. Lies(d.shape, d) => (s.kind = "pulled" => s.circle = [center |-> c, radius |-> d.radius])
  <2> SUFFICES ASSUME Lies(d.shape, d), s.kind = "pulled"
               PROVE  s.circle = [center |-> c, radius |-> d.radius]
    OBVIOUS
  <2> HIDE DEF s, d
  <2>1. s \in Pulleds
    BY <1>5, ShapeIs DEF Shapes
  <2>2. d.shape.kind = "pulled"
    BY <1>5, <2>1, ShapeIs
  <2>3. d.shape.circle.center = d.center /\ d.shape.circle.radius = d.radius
    BY <2>2 DEF Lies
  <2> QED BY <1>5, <2>1, <2>3
<1> HIDE DEF c, s, d
<1>8. draft' \in Drafts /\ draft'.shape = s /\ draft'.center = c /\ draft'.radius = d.radius
  <2>1. /\ [d EXCEPT !.center = c, !.shape = s] \in Drafts
        /\ [d EXCEPT !.center = c, !.shape = s].shape = s
        /\ [d EXCEPT !.center = c, !.shape = s].center = c
        /\ [d EXCEPT !.center = c, !.shape = s].radius = d.radius
    BY <1>3, <1>4, <1>5 DEF Drafts
  <2> QED BY <1>6, <2>1, Zenon
<1>9. saved = NoZone => Lies(d.shape, d)
    BY <1>1 DEF EditorInv, AllLie, d
<1>10. saved = NoZone => Lies(draft'.shape, draft')
    BY <1>7, <1>8, <1>9 DEF Lies
<1>11. /\ stray' \in BOOLEAN /\ pieces' \in Seq(Seq(Places))
       /\ stroke' \in Strokes \cup {NoStroke} /\ pin' \in Pins \cup {NoPin}
    BY <1>1 DEF EditorInv, EditorTypeOK
<1>12. pin' = pin
    BY <1>1
<1> QED BY <1>1, <1>2, <1>8, <1>9, <1>10, <1>11, <1>12, GestureStep DEF d

(* The draft stays, and so do the lies of the land.                        *)
LEMMA StillLies ==
    ASSUME EditorInv, draft' = draft
    PROVE  /\ saved = NoZone /\ draft'.open => Lies(draft'.shape, draft')
           /\ saved = NoZone /\ pin.on => Lies(pin.draft.shape, pin.draft)
BY DEF EditorInv, AllLie

(* PinStart keeps the invariant.                                           *)
LEMMA PinStartOK == ASSUME EditorInv, PinStart PROVE EditorInv'
<1>1. /\ Active /\ ~drag.on /\ pin' = [on |-> TRUE, draft |-> draft]
      /\ UNCHANGED <<panelVars, stroke, drag, hold, panning, restore>>
    BY DEF PinStart
<1>2. draft' = draft /\ saved' = saved /\ mode' = mode /\ penDown' = penDown
      /\ pieces' = pieces /\ stray' = stray
    BY <1>1 DEF panelVars
<1>3. draft \in Drafts /\ draft.open
    BY <1>1, TypesAre DEF EditorInv, Active
<1>4. pin' \in Pins /\ pin'.draft = draft
    BY <1>1, <1>3 DEF Pins
<1>5. stray' \in BOOLEAN /\ pieces' \in Seq(Seq(Places)) /\ stroke' \in Strokes \cup {NoStroke}
    BY <1>1, <1>2 DEF EditorInv, EditorTypeOK
<1>6. saved = NoZone => Lies(draft.shape, draft)
    BY <1>3 DEF EditorInv, AllLie
<1> QED BY <1>1, <1>2, <1>3, <1>4, <1>5, <1>6, GestureStep

(* PinEnd keeps the invariant.                                             *)
LEMMA PinEndOK == ASSUME EditorInv, PinEnd PROVE EditorInv'
<1>1. pin' = NoPin /\ UNCHANGED <<panelVars, stroke, drag, hold, panning, restore>>
    BY DEF PinEnd
<1>2. draft' = draft /\ saved' = saved /\ mode' = mode /\ penDown' = penDown
      /\ pieces' = pieces /\ stray' = stray
    BY <1>1 DEF panelVars
<1>3. stray' \in BOOLEAN /\ pieces' \in Seq(Seq(Places)) /\ stroke' \in Strokes \cup {NoStroke}
    BY <1>1, <1>2 DEF EditorInv, EditorTypeOK
<1>4. stroke.on => draft.open
    BY TypesAre DEF EditorInv, NoPressLeft
<1> QED BY <1>1, <1>2, <1>3, <1>4, StillLies, RecordsAre, GestureStep

(* A press is of an open draft.                                            *)
LEMMA PressesOpen ==
    ASSUME EditorInv
    PROVE  /\ stroke.on => draft.open
           /\ pin.on => draft.open
           /\ drag.on => draft.open
BY TypesAre DEF EditorInv, NoPressLeft

(* PenStart keeps the invariant.                                           *)
LEMMA PenStartOK == ASSUME EditorInv, PenStart PROVE EditorInv'
<1>1. /\ Drawing /\ stroke' = [on |-> TRUE, before |-> pieces, piece |-> <<Start>>]
      /\ UNCHANGED <<panelVars, drag, hold, pin, panning, restore>>
    BY DEF PenStart
<1>2. draft' = draft /\ saved' = saved /\ mode' = mode /\ penDown' = penDown
      /\ pieces' = pieces /\ stray' = stray
    BY <1>1 DEF panelVars
<1>3. /\ stray' \in BOOLEAN /\ pieces' \in Seq(Seq(Places)) /\ pin' \in Pins \cup {NoPin}
      /\ pieces \in Seq(Seq(Places))
    BY <1>1, <1>2 DEF EditorInv, EditorTypeOK
<1>4. <<Start>> \in Seq(Places)
    BY EditorAssumption
<1>5. stroke' \in Strokes
    BY <1>1, <1>3, <1>4 DEF Strokes
<1>6. draft.open
    BY <1>1 DEF Drawing
<1>7. pin' = pin
    BY <1>1
<1> QED BY <1>1, <1>2, <1>3, <1>5, <1>6, <1>7, StillLies, GestureStep

(* PenStray keeps the invariant.                                           *)
LEMMA PenStrayOK == ASSUME EditorInv, PenStray PROVE EditorInv'
<1>1. /\ UNCHANGED <<draft, saved, mode, penDown, pieces,
                     stroke, drag, hold, pin, panning, restore>>
    BY DEF PenStray
<1>2. stray' \in BOOLEAN
    BY Zenon DEF PenStray
<1>3. /\ pieces' \in Seq(Seq(Places)) /\ pin' \in Pins \cup {NoPin}
      /\ stroke' \in Strokes \cup {NoStroke}
    BY <1>1 DEF EditorInv, EditorTypeOK
<1>4. pin' = pin /\ stroke' = stroke /\ draft' = draft
    BY <1>1
<1> QED BY <1>1, <1>2, <1>3, <1>4, PressesOpen, StillLies, GestureStep

(* PenMove keeps the invariant.                                            *)
LEMMA PenMoveOK == ASSUME EditorInv, PenMove PROVE EditorInv'
<1> DEFINE piece == Append(stroke.piece, Start)
<1>1. /\ stroke.on /\ stroke' = [stroke EXCEPT !.piece = piece]
      /\ pieces' = Append(stroke.before, stroke'.piece)
      /\ UNCHANGED <<draft, saved, mode, penDown, drag, hold, pin, panning, restore>>
    BY DEF PenMove
<1>2. stroke \in Strokes
    BY <1>1, TypesAre DEF EditorInv
<1>3. /\ stroke.piece \in Seq(Places) /\ stroke.before \in Seq(Seq(Places)) /\ Start \in Places
    BY <1>2, RecordsAre, EditorAssumption
<1>4. piece \in Seq(Places)
    BY <1>3, AppendProperties
<1> HIDE DEF piece
<1>5. stroke' \in Strokes /\ stroke'.piece = piece
    BY <1>1, <1>2, <1>4 DEF Strokes
<1>6. pieces' \in Seq(Seq(Places))
    BY <1>1, <1>3, <1>4, <1>5, AppendProperties
<1>7. stray' \in BOOLEAN
    BY Zenon DEF PenMove
<1>8. pin' \in Pins \cup {NoPin} /\ pin' = pin /\ draft' = draft
    BY <1>1 DEF EditorInv, EditorTypeOK
<1>9. draft.open
    BY <1>1, PressesOpen
<1> QED BY <1>1, <1>5, <1>6, <1>7, <1>8, <1>9, StillLies, GestureStep

(* PenUp keeps the invariant.                                              *)
LEMMA PenUpOK == ASSUME EditorInv, PenUp PROVE EditorInv'
<1>1. stroke' = NoStroke /\ UNCHANGED <<panelVars, drag, hold, pin, panning, restore>>
    BY DEF PenUp
<1>2. draft' = draft /\ saved' = saved /\ mode' = mode /\ penDown' = penDown
      /\ pieces' = pieces /\ stray' = stray
    BY <1>1 DEF panelVars
<1>3. stray' \in BOOLEAN /\ pieces' \in Seq(Seq(Places)) /\ pin' \in Pins \cup {NoPin}
    BY <1>1, <1>2 DEF EditorInv, EditorTypeOK
<1>4. pin' = pin
    BY <1>1
<1> QED BY <1>1, <1>2, <1>3, <1>4, PressesOpen, StillLies, RecordsAre, GestureStep

(* While a drag goes on the map cannot be drawn on.                        *)
LEMMA DragToOK ==
    ASSUME EditorInv, NEW at \in Places, DragTo(at) PROVE EditorInv'
<1> DEFINE base == drag.base
           s == MoveHandle(drag.shape, drag.index, at)
<1>0. /\ EditorTypeOK /\ NoPressLeft /\ PansAgain /\ DragIsNew /\ AllLie
    BY DEF EditorInv
<1>1. /\ drag.on /\ drag' = [drag EXCEPT !.moved = TRUE] /\ hold' = 0
      /\ draft' = [base EXCEPT !.shape = s]
      /\ UNCHANGED <<saved, mode, penDown, pieces, stray, stroke, pin, panning, restore>>
    BY DEF DragTo
<1>2. drag \in Drags /\ draft.open
    BY <1>0, <1>1, TypesAre, PressesOpen
<1>3. base \in Drafts /\ drag.shape \in Pulleds \cup Freehands
    BY <1>2, RecordsAre
<1>4. /\ s \in Pulleds \cup Freehands /\ s.kind = drag.shape.kind
      /\ drag.shape \in Pulleds => s.circle = drag.shape.circle
  <2> DEFINE g == drag.shape
             k == drag.index
  <2>1. g \in Pulleds \cup Freehands
    BY <1>3
  <2> HIDE DEF g, k
  <2>2. /\ MoveHandle(g, k, at) \in Pulleds \cup Freehands /\ MoveHandle(g, k, at).kind = g.kind
        /\ g \in Pulleds => MoveHandle(g, k, at).circle = g.circle
    BY <2>1, MovedIs
  <2> QED BY <2>2 DEF g, k
<1> HIDE DEF s
<1>5. s \in Shapes
    BY <1>4 DEF Shapes
<1>6. draft' \in Drafts /\ draft'.shape = s /\ draft'.center = base.center
      /\ draft'.radius = base.radius
    BY <1>1, <1>3, <1>5, DraftShape, Zenon
<1>7. drag' \in Drags
    BY <1>1, <1>2 DEF Drags
<1>8. /\ drag'.on = drag.on /\ drag'.base = drag.base /\ drag'.shape = drag.shape
      /\ drag'.index = drag.index /\ drag'.created = drag.created /\ drag'.was = drag.was
    BY <1>1, <1>2 DEF Drags
<1>9. EditorTypeOK'
    BY <1>0, <1>1, <1>6, <1>7 DEF EditorTypeOK
<1>10. NoPressLeft'
    BY <1>6, RecordsAre DEF NoPressLeft
<1>11. PansAgain'
  <2>1. Drawing' = Drawing
    <3>1. draft'.open = TRUE /\ draft.open = TRUE
      BY <1>2, <1>6, <1>0, TypesAre, RecordsAre
    <3> QED BY <1>1, <3>1, Zenon DEF Drawing
  <2>2. panning' = panning /\ restore' = restore
    BY <1>1
  <2> QED BY <1>0, <1>8, <2>1, <2>2, Zenon DEF PansAgain
<1>12. HeldShape'
    BY <1>1 DEF HeldShape
<1>13. DragIsNew'
    BY <1>0, <1>8, Zenon DEF DragIsNew
<1>14. AllLie'
  <2>1. drag.shape \in Pulleds => drag.shape.kind = "pulled"
    BY ShapeIs
  <2>2. s.kind = "pulled" => s \in Pulleds
    BY <1>4, ShapeIs
  <2>3. drag.shape.kind = "pulled" => drag.shape \in Pulleds
    BY <1>3, ShapeIs
  <2>4. Lies(drag.shape, base) => Lies(draft'.shape, draft')
    BY <1>4, <1>6, <2>3 DEF Lies
  <2>5. saved' = saved /\ pin' = pin
    BY <1>1
  <2> QED BY <1>0, <1>1, <1>8, <2>4, <2>5 DEF AllLie
<1> QED BY <1>9, <1>10, <1>11, <1>12, <1>13, <1>14 DEF EditorInv

(* LongPress keeps the invariant.                                          *)
LEMMA LongPressOK == ASSUME EditorInv, LongPress PROVE EditorInv'
<1>0. /\ EditorTypeOK /\ NoPressLeft /\ PansAgain /\ HeldShape /\ DragIsNew /\ AllLie
    BY DEF EditorInv
<1>1. /\ hold # 0 /\ hold' = 0 /\ drag' = [drag EXCEPT !.held = TRUE]
      /\ draft' \in WithoutPoint(draft, hold)
      /\ UNCHANGED <<saved, mode, penDown, pieces, stray, stroke, pin, panning, restore>>
    BY DEF LongPress
<1>2. drag.on /\ drag \in Drags /\ draft.open /\ draft \in Drafts /\ hold \in Nat
    BY <1>0, <1>1, TypesAre DEF HeldShape, NoPressLeft, EditorTypeOK
<1>3. draft' \in Drafts /\ (Lies(draft.shape, draft) => Lies(draft'.shape, draft'))
    BY <1>1, <1>2, WithoutPointIs
<1>4. drag' \in Drags
    BY <1>1, <1>2 DEF Drags
<1>5. /\ drag'.on = drag.on /\ drag'.base = drag.base /\ drag'.shape = drag.shape
      /\ drag'.index = drag.index /\ drag'.created = drag.created /\ drag'.was = drag.was
    BY <1>1, <1>2 DEF Drags
<1>6. EditorTypeOK'
    BY <1>0, <1>1, <1>3, <1>4 DEF EditorTypeOK
<1>7. NoPressLeft'
    BY <1>3, RecordsAre DEF NoPressLeft
<1>8. PansAgain'
  <2>1. Drawing' = Drawing
    <3>1. draft'.open = TRUE /\ draft.open = TRUE
      BY <1>2, <1>3, RecordsAre
    <3> QED BY <1>1, <3>1, Zenon DEF Drawing
  <2>2. panning' = panning /\ restore' = restore
    BY <1>1
  <2> QED BY <1>0, <1>5, <2>1, <2>2, Zenon DEF PansAgain
<1>9. HeldShape'
    BY <1>1 DEF HeldShape
<1>10. DragIsNew'
    BY <1>0, <1>5, Zenon DEF DragIsNew
<1>11. AllLie'
  <2>1. saved' = saved /\ pin' = pin
    BY <1>1
  <2> QED BY <1>0, <1>2, <1>3, <1>5, <2>1 DEF AllLie
<1> QED BY <1>6, <1>7, <1>8, <1>9, <1>10, <1>11 DEF EditorInv

(* Release keeps the invariant.                                            *)
LEMMA ReleaseOK == ASSUME EditorInv, Release PROVE EditorInv'
<1>0. /\ EditorTypeOK /\ NoPressLeft /\ PansAgain /\ AllLie
    BY DEF EditorInv
<1>1. /\ drag.on /\ drag' = NoDrag /\ hold' = 0 /\ panning' = PanningAfterDrag
      /\ draft' = drag.base \/ draft' = draft
      /\ UNCHANGED <<saved, mode, penDown, pieces, stray, stroke, pin, restore>>
    BY DEF Release
<1>2. draft.open /\ draft \in Drafts /\ drag \in Drags
    BY <1>0, <1>1, TypesAre, PressesOpen
<1>3. draft' \in Drafts /\ draft'.open = TRUE
    BY <1>1, <1>2, RecordsAre
<1>4. saved' = NoZone => Lies(draft'.shape, draft')
    BY <1>0, <1>1, <1>2 DEF AllLie
<1>5. panning' \in BOOLEAN
    BY <1>1, Zenon DEF PanningAfterDrag
<1>6. EditorTypeOK'
    BY <1>0, <1>1, <1>3, <1>5 DEF EditorTypeOK
<1>7. NoPressLeft'
    BY <1>3 DEF NoPressLeft
<1>8. PansAgain'
  <2>1. Drawing' = Drawing
    <3>1. draft.open = TRUE
      BY <1>2, RecordsAre
    <3> QED BY <1>1, <1>3, <3>1, Zenon DEF Drawing
  <2>2. restore' = restore /\ panning' = PanningAfterDrag
    BY <1>1
  <2> QED BY <1>0, <2>1, <2>2, Zenon DEF PansAgain, PanningAfterDrag
<1>9. HeldShape'
    BY <1>1 DEF HeldShape
<1>10. DragIsNew'
    BY <1>1, RecordsAre DEF DragIsNew
<1>11. AllLie'
  <2>1. saved' = saved /\ pin' = pin
    BY <1>1
  <2> QED BY <1>0, <1>1, <1>4, <2>1, RecordsAre DEF AllLie
<1> QED BY <1>6, <1>7, <1>8, <1>9, <1>10, <1>11 DEF EditorInv
-----------------------------------------------------------------------------
(* Every step keeps the invariant, or changes nothing.                     *)
LEMMA EditorStep == EditorInv /\ [Next]_vars => EditorInv'
<1> SUFFICES ASSUME EditorInv, [Next]_vars PROVE EditorInv'
    OBVIOUS
<1>1. CASE UNCHANGED vars
    BY <1>1 DEF EditorInv, EditorTypeOK, NoPressLeft, PansAgain, HeldShape, DragIsNew, AllLie,
                Drawing, vars
<1>2. CASE Panel
  <2>1. ASSUME NEW at \in Places, StartNewZone(at) \/ SwitchToZone(at) \/ MapClick(at)
        PROVE  EditorInv'
    BY <2>1, StartNewZoneOK, SwitchToZoneOK, MapClickOK
  <2>2. ASSUME NEW zone \in SavedZones, StartEditZone(zone) PROVE EditorInv'
    BY <2>2, StartEditZoneOK
  <2>3. CASE CloseZone \/ PenToggle \/ UndoPiece \/ ClearPieces \/ ResetToCircle
    BY <2>3, CloseZoneOK, PenToggleOK, UndoPieceOK, ClearPiecesOK, ResetToCircleOK
  <2>4. ASSUME NEW m \in Modes, ModeChange(m) PROVE EditorInv'
    BY <2>4, ModeChangeOK
  <2>5. ASSUME NEW r \in Radii, ZoneRadius(r) PROVE EditorInv'
    BY <2>5, ZoneRadiusOK
  <2>6. ASSUME NEW n \in MinPoints..MaxCorners, NEW at \in Places, FinishFreehand(n, at)
        PROVE  EditorInv'
    BY <2>6, FinishFreehandOK
  <2> QED BY <1>2, <2>1, <2>2, <2>3, <2>4, <2>5, <2>6 DEF Panel
<1>3. CASE Gesture
  <2>1. ASSUME NEW at \in Places, NEW after \in 0..MaxCorners, GrabEdge(at, after)
        PROVE  EditorInv'
    BY <2>1, GrabEdgeOK
  <2>2. ASSUME NEW index \in 1..MaxCorners, GrabHandle(index) \/ DoubleClick(index)
        PROVE  EditorInv'
    BY <2>2, GrabHandleOK, DoubleClickOK
  <2>3. ASSUME NEW at \in Places, DragTo(at) PROVE EditorInv'
    BY <2>3, DragToOK
  <2>4. CASE LongPress \/ Release \/ PinStart \/ PinEnd
    BY <2>4, LongPressOK, ReleaseOK, PinStartOK, PinEndOK
  <2>5. ASSUME NEW f \in Shifts, PinMove(f) PROVE EditorInv'
    BY <2>5, PinMoveOK
  <2>6. CASE PenStart \/ PenStray \/ PenMove \/ PenUp
    BY <2>6, PenStartOK, PenStrayOK, PenMoveOK, PenUpOK
  <2>7. ASSUME NEW n \in MinPoints..MaxCorners, NEW at \in Places, PenFinish(n, at)
        PROVE  EditorInv'
    BY <2>7, PenFinishOK
  <2> QED BY <1>3, <2>1, <2>2, <2>3, <2>4, <2>5, <2>6, <2>7 DEF Gesture
<1> QED BY <1>1, <1>2, <1>3 DEF Next

(* Every state of the editor, after any buttons and gestures, is one of    *)
(* EditorInv.                                                              *)
THEOREM EditorInvariant == Spec => []EditorInv
<1> QED BY EditorInitOK, EditorStep, PTL DEF Spec

(* A long press that goes off takes out the point that was pressed, or     *)
(* none: no button, click or second finger leaves its index to another.    *)
THEOREM HoldIsFreshAlways == Spec => []HoldIsFresh
<1>1. EditorInv => HoldIsFresh
  <2> SUFFICES ASSUME EditorInv, hold # 0, IsHandle(draft.shape, hold)
               PROVE  /\ drag.on /\ ~drag.moved /\ drag.index = hold
                      /\ Handles(draft.shape) = Handles(drag.shape)
    BY DEF HoldIsFresh
  <2>1. /\ drag.on /\ ~drag.moved /\ drag.index = hold
        /\ draft.shape = drag.shape \/ Handles(draft.shape) = {}
    BY DEF EditorInv, HeldShape
  <2>2. Handles(draft.shape) # {}
    BY FS_EmptySet DEF IsHandle
  <2> QED BY <2>1, <2>2
<1> QED BY <1>1, EditorInvariant, PTL

(* "Reset to a circle" finds the circle the user had.                      *)
THEOREM CircleMatchesAlways == Spec => []CircleMatches
<1>1. EditorInv => CircleMatches
    BY DEF EditorInv, AllLie, Lies, CircleMatches
<1> QED BY <1>1, EditorInvariant, PTL

(* A closed editor has no press left, and an idle one lets the map pan.    *)
THEOREM NothingOutlivesAlways == Spec => []NothingOutlives
<1>1. EditorInv => NothingOutlives
  <2> SUFFICES ASSUME EditorInv PROVE NothingOutlives
    OBVIOUS
  <2>1. ~draft.open => ~drag.on /\ ~stroke.on /\ ~pin.on /\ hold = 0
    BY DEF EditorInv, NoPressLeft
  <2>2. (~drag.on /\ ~Drawing) => panning
    BY Zenon DEF EditorInv, PansAgain
  <2> QED BY <2>1, <2>2, Zenon DEF NothingOutlives
<1> QED BY <1>1, EditorInvariant, PTL

(* What a drag that began on an edge has done, taken back, leaves the      *)
(* shape as it was before the press.                                       *)
LEMMA OnlyNewMoved ==
    ASSUME EditorInv, drag.on, drag.created, NEW at \in Places, DragTo(at)
    PROVE  RemoveHandle(draft'.shape, drag.index) = drag.base.shape
<1> DEFINE base == drag.base
           s == MoveHandle(drag.shape, drag.index, at)
<1>1. drag \in Drags /\ draft' = [base EXCEPT !.shape = s] /\ PutIn(base, drag.shape, drag.index)
    BY TypesAre DEF EditorInv, DragIsNew, DragTo
<1>2. base \in Drafts /\ drag.shape \in Pulleds \cup Freehands /\ base.shape \in Shapes
    BY <1>1, RecordsAre
<1>3. s \in Shapes
    BY <1>2, MovedIs DEF Shapes
<1>4. draft'.shape = s
  <2> HIDE DEF s, base
  <2> QED BY <1>1, <1>2, <1>3, DraftShape, Zenon
<1>5. CASE base.shape = NoShape
  <2> DEFINE c == [center |-> base.center, radius |-> base.radius]
  <2>1. PICK p \in Places : drag.shape = Pulled(c, <<p>>) /\ drag.index = 1
    BY <1>1, <1>5 DEF PutIn
  <2>2. c \in [center : Places, radius : Int] /\ <<p>> \in Seq(Places)
    BY <1>2, RecordsAre
  <2> HIDE DEF c
  <2>3. drag.shape \in Pulleds /\ drag.shape.circle = c /\ drag.shape.pulls = <<p>>
    <3> DEFINE u == <<p>>
    <3>1. u \in Seq(Places) /\ drag.shape = Pulled(c, u)
      BY <2>1, <2>2
    <3> HIDE DEF u
    <3>2. Pulled(c, u) \in Pulleds /\ Pulled(c, u).circle = c /\ Pulled(c, u).pulls = u
      BY <2>2, <3>1, ShapeIs
    <3>3. drag.shape \in Pulleds /\ drag.shape.circle = c /\ drag.shape.pulls = u
      BY <3>1, <3>2
    <3> QED BY <3>3 DEF u
  <2> DEFINE q == [<<p>> EXCEPT ![1] = at]
  <2>4. s = Pulled(c, q)
    BY <2>1, <2>3, MovedPull
  <2>5. q \in Seq(Places) /\ Len(q) = 1
    OBVIOUS
  <2> HIDE DEF q, s
  <2>6. s.kind = "pulled" /\ s.pulls = q
    <3>1. Pulled(c, q) \in Pulleds /\ Pulled(c, q).pulls = q
      BY <2>2, <2>5, ShapeIs
    <3> QED BY <2>4, <3>1, ShapeIs
  <2>7. RemoveHandle(s, drag.index) = NoShape
    <3> DEFINE k == drag.index
               n == Len(s.pulls)
    <3>0. n = 1
      BY <2>5, <2>6, Zenon
    <3>1. ~(n > 1)
      BY <3>0
    <3>2. s.kind = "pulled" /\ s.kind # "freehand"
      BY <2>6
    <3> HIDE DEF k, n
    <3>3. RemoveHandle(s, k) = NoShape
      BY <3>1, <3>2 DEF RemoveHandle, n
    <3> QED BY <3>3 DEF k
  <2> QED BY <1>4, <1>5, <2>7
<1>6. CASE base.shape # NoShape
  <2>1. PICK p \in Places, after \in 1..Size(base.shape) :
           /\ drag.shape = InsertPointAt(base.shape, after, p).shape
           /\ drag.index = InsertPointAt(base.shape, after, p).index
    BY <1>1, <1>6 DEF PutIn
  <2>2. base.shape \in Pulleds \cup Freehands
    BY <1>2, <1>6 DEF Shapes
  <2> DEFINE new == InsertPointAt(base.shape, after, p)
  <2>3. RemoveHandle(MoveHandle(new.shape, new.index, at), new.index) = base.shape
    BY <2>2, TakenBack
  <2> HIDE DEF new
  <2>4. s = MoveHandle(new.shape, new.index, at) /\ drag.index = new.index
    BY <2>1 DEF new
  <2> HIDE DEF s
  <2> QED BY <1>4, <2>3, <2>4
<1> QED BY <1>5, <1>6

(* A press on the edge that is dragged moves the point it added: every     *)
(* other point, handle or not, stays where it was.                         *)
THEOREM DragMovesOnlyNewAlways == Spec => DragMovesOnlyNew
<1>1. EditorInv /\ [Next]_vars
        => [(drag.on /\ drag.created /\ \E at \in Places : DragTo(at))
              => RemoveHandle(draft'.shape, drag.index) = drag.base.shape]_vars
    BY OnlyNewMoved
<1> QED BY <1>1, EditorInvariant, PTL DEF Spec, DragMovesOnlyNew
=============================================================================
