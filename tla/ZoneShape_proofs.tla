---------------------------- MODULE ZoneShape_proofs ----------------------------
(***************************************************************************)
(* Proofs about ZoneShape for any places, tolerance, angles and bounds.    *)
(*                                                                         *)
(* What thinning keeps is a recursion on stretches; ShapeInv says what the *)
(* loop's stack stands for in it.  Pulls are in order if and only if how   *)
(* far round each is from the first grows along them, and the outline      *)
(* drawn through them grows in the same way.  Whether a place is inside    *)
(* does not depend on the ray because an edge crosses one of the two rays  *)
(* and not the other where it leads into the quadrant between them or out  *)
(* of it.                                                                  *)
(***************************************************************************)
EXTENDS ZoneShape, DataLemmas
-----------------------------------------------------------------------------
(* Places and segments.                                                    *)
Place == [x : Int, y : Int]

(* The points of a freehand outline, and the shapes.                       *)
Points == [at : Grid, handle : BOOLEAN]
Pulleds == {s \in [kind : {"pulled"}, circle : {Circle}, pulls : Seq(Pull)] : s.pulls # <<>>}
Freehands == {s \in [kind : {"freehand"}, points : Seq(Points)] : s.points # <<>>}

(* The square of a distance is not negative, and zero at the place itself  *)
(* only.                                                                   *)
LEMMA GapIs ==
    ASSUME NEW p \in Place, NEW q \in Place
    PROVE  Gap(p, q) \in Nat /\ (Gap(p, q) = 0 => p = q) /\ Gap(p, p) = 0
<1>1. p.x \in Int /\ p.y \in Int /\ q.x \in Int /\ q.y \in Int
    BY DEF Place
<1>2. \A n \in Int : n * n \in Nat /\ (n * n = 0 => n = 0)
  <2>1. \A n \in Int : n * n \in Int /\ n * n >= 0
    BY Z3
  <2>2. \A n \in Int : n * n = 0 => n = 0
    BY Z3
  <2> QED BY <2>1, <2>2
<1> DEFINE u == p.x - q.x  v == p.y - q.y
<1>3. u \in Int /\ v \in Int
    BY <1>1
<1>4. Gap(p, q) = u * u + v * v
    BY DEF Gap, Square
<1>5. u * u \in Nat /\ v * v \in Nat /\ (u * u = 0 => u = 0) /\ (v * v = 0 => v = 0)
    BY <1>2, <1>3
<1>6. Gap(p, q) \in Nat
    BY <1>4, <1>5
<1>7. ASSUME Gap(p, q) = 0 PROVE p = q
  <2>1. u * u = 0 /\ v * v = 0
    <3> DEFINE a == u * u  b == v * v
    <3>1. a \in Nat /\ b \in Nat /\ a + b = 0
      BY <1>4, <1>5, <1>7
    <3> HIDE DEF a, b
    <3>2. a = 0 /\ b = 0
      BY <3>1
    <3> QED BY <3>2 DEF a, b
  <2>2. u = 0 /\ v = 0
    BY <1>5, <2>1
  <2>3. p.x = q.x /\ p.y = q.y
    BY <1>1, <2>2
  <2> QED BY <2>3 DEF Place
<1>8. Gap(p, p) = 0
    BY <1>1 DEF Gap, Square
<1> QED BY <1>6, <1>7, <1>8

(* How far along the segment a place is, in the square of its length.      *)
Along(p, a, b) == (p.x - a.x) * (b.x - a.x) + (p.y - a.y) * (b.y - a.y)

(* The law of cosines.                                                     *)
LEMMA GapAlong ==
    ASSUME NEW p \in Place, NEW a \in Place, NEW b \in Place
    PROVE  /\ Along(p, a, b) \in Int
           /\ Gap(p, b) = Gap(p, a) - 2 * Along(p, a, b) + Gap(a, b)
           /\ Orientation(a, b, p) \in Int
<1>1. p.x \in Int /\ p.y \in Int /\ a.x \in Int /\ a.y \in Int /\ b.x \in Int /\ b.y \in Int
    BY DEF Place
<1>2. ASSUME NEW k \in Int, NEW l \in Int, NEW m \in Int
      PROVE  (k - m) * (k - m) = (k - l) * (k - l) - 2 * ((k - l) * (m - l)) + (l - m) * (l - m)
    BY Z3
<1>3. /\ Square(p.x - b.x) = Square(p.x - a.x) - 2 * ((p.x - a.x) * (b.x - a.x)) + Square(a.x - b.x)
      /\ Square(p.y - b.y) = Square(p.y - a.y) - 2 * ((p.y - a.y) * (b.y - a.y)) + Square(a.y - b.y)
    BY <1>1, <1>2 DEF Square
<1> DEFINE kx == (p.x - a.x) * (b.x - a.x)  ky == (p.y - a.y) * (b.y - a.y)
<1>4. /\ kx \in Int /\ ky \in Int /\ Square(p.x - b.x) \in Int /\ Square(p.y - b.y) \in Int
      /\ Square(p.x - a.x) \in Int /\ Square(p.y - a.y) \in Int
      /\ Square(a.x - b.x) \in Int /\ Square(a.y - b.y) \in Int
    BY <1>1 DEF Square
<1>5. Along(p, a, b) = kx + ky
    BY DEF Along
<1>6. Orientation(a, b, p) \in Int
    BY <1>1 DEF Orientation
<1> HIDE DEF kx, ky
<1>7. Gap(p, b) = Gap(p, a) - 2 * (kx + ky) + Gap(a, b)
    BY <1>3, <1>4 DEF Gap, kx, ky
<1> QED BY <1>4, <1>5, <1>6, <1>7

(* The distance's square is a fraction, that is not negative.              *)
LEMMA DistanceIs ==
    ASSUME NEW p \in Place, NEW a \in Place, NEW b \in Place
    PROVE  /\ DistanceToSegment(p, a, b).num \in Nat
           /\ DistanceToSegment(p, a, b).den \in Nat \ {0}
           /\ \/ /\ Along(p, a, b) <= 0
                 /\ DistanceToSegment(p, a, b).num
                      = Gap(p, a) * DistanceToSegment(p, a, b).den
              \/ /\ Along(p, a, b) > 0 /\ Along(p, a, b) >= Gap(a, b)
                 /\ DistanceToSegment(p, a, b).den = Gap(a, b)
                 /\ DistanceToSegment(p, a, b).num = Gap(p, b) * Gap(a, b)
              \/ /\ Along(p, a, b) > 0 /\ Along(p, a, b) < Gap(a, b)
                 /\ DistanceToSegment(p, a, b).den = Gap(a, b)
                 /\ DistanceToSegment(p, a, b).num
                      = Orientation(a, b, p) * Orientation(a, b, p)
<1> DEFINE k == Along(p, a, b)  g == Gap(a, b)  D == DistanceToSegment(p, a, b)
           o == Orientation(a, b, p)
<1>1. /\ k \in Int /\ g \in Nat /\ Gap(p, a) \in Nat /\ Gap(p, b) \in Nat /\ o \in Int
      /\ (g = 0 => a = b)
    BY GapIs, GapAlong
<1>2. D = CASE k <= 0 -> [num |-> Gap(p, a) * IF g = 0 THEN 1 ELSE g,
                          den |-> IF g = 0 THEN 1 ELSE g]
            [] k > 0 /\ k >= g -> [num |-> Gap(p, b) * g, den |-> g]
            [] k > 0 /\ k < g -> [num |-> o * o, den |-> g]
    BY DEF DistanceToSegment, Along, Square
<1>3. g = 0 => k = 0
    BY <1>1 DEF Along, Place
<1>4. o * o \in Nat /\ Gap(p, a) * g \in Nat /\ Gap(p, b) * g \in Nat
  <2>1. \A n \in Int : n * n \in Nat
    BY Z3
  <2>2. \A n, m \in Nat : n * m \in Nat
    BY Z3
  <2> QED BY <1>1, <2>1, <2>2
<1> HIDE DEF k, g, o, D
<1>5. CASE k <= 0
  <2>1. D = [num |-> Gap(p, a) * IF g = 0 THEN 1 ELSE g, den |-> IF g = 0 THEN 1 ELSE g]
    BY <1>1, <1>2, <1>5
  <2> QED BY <1>1, <1>4, <1>5, <2>1 DEF k, D
<1>6. CASE k > 0 /\ k >= g
  <2>1. D = [num |-> Gap(p, b) * g, den |-> g]
    BY <1>1, <1>2, <1>6
  <2>2. g # 0
    BY <1>3, <1>6
  <2> QED BY <1>1, <1>4, <1>6, <2>1, <2>2 DEF k, D, g
<1>7. CASE k > 0 /\ k < g
  <2>1. D = [num |-> o * o, den |-> g]
    BY <1>1, <1>2, <1>7
  <2> QED BY <1>1, <1>4, <1>7, <2>1 DEF k, D, g, o
<1> QED BY <1>1, <1>5, <1>6, <1>7

(* A place whose distance from a segment is no more than t is in its band. *)
LEMMA NearIsInBand ==
    ASSUME NEW p \in Place, NEW a \in Place, NEW b \in Place, NEW t \in Nat,
           ~ Nearer([num |-> Square(t), den |-> 1], DistanceToSegment(p, a, b))
    PROVE  InBand(p, a, b, t)
<1> DEFINE D == DistanceToSegment(p, a, b)  s == t * t
<1>1. D.num \in Nat /\ D.den \in Nat \ {0} /\ s \in Nat
  <2>1. \A n \in Nat : n * n \in Nat
    BY Z3
  <2> QED BY <2>1, DistanceIs
<1>2. D.num <= s * D.den
  <2>1. ~ (s * D.den < D.num * 1)
    BY DEF Nearer, Square
  <2>2. s * D.den \in Int
    BY <1>1
  <2> HIDE DEF s, D
  <2> QED BY <1>1, <2>1, <2>2
<1>3. \A n, m \in Nat, d \in Nat \ {0} : n * d <= m * d => n <= m
    BY Z3
<1>4. /\ Gap(p, a) \in Nat /\ Gap(p, b) \in Nat /\ Gap(a, b) \in Nat
      /\ Along(p, a, b) \in Int
      /\ Gap(p, b) = Gap(p, a) - 2 * Along(p, a, b) + Gap(a, b)
    BY GapIs, GapAlong
<1>5. CASE Along(p, a, b) <= 0 /\ D.num = Gap(p, a) * D.den
  <2>1. Gap(p, a) <= s
    BY <1>1, <1>2, <1>3, <1>4, <1>5
  <2> QED BY <2>1 DEF InBand, Square
<1>6. CASE /\ Along(p, a, b) > 0 /\ Along(p, a, b) >= Gap(a, b)
           /\ D.den = Gap(a, b) /\ D.num = Gap(p, b) * Gap(a, b)
  <2>1. Gap(p, b) <= s
    BY <1>1, <1>2, <1>3, <1>4, <1>6
  <2> QED BY <2>1 DEF InBand, Square
<1>7. CASE /\ Along(p, a, b) > 0 /\ Along(p, a, b) < Gap(a, b)
           /\ D.den = Gap(a, b) /\ D.num = Orientation(a, b, p) * Orientation(a, b, p)
  <2>1. Square(Orientation(a, b, p)) <= Square(t) * Gap(a, b)
    BY <1>2, <1>7 DEF Square
  <2>2. Gap(p, a) <= Gap(p, b) + Gap(a, b) /\ Gap(p, b) <= Gap(p, a) + Gap(a, b)
    BY <1>4, <1>7
  <2> QED BY <2>1, <2>2 DEF InBand
<1> QED BY <1>5, <1>6, <1>7, DistanceIs

-----------------------------------------------------------------------------
(* Thinning.                                                               *)
Stretches == (DOMAIN line) \X (DOMAIN line)

(* What is left out between two points lies between them, and of what is   *)
(* left out one is the first of the farthest.                              *)
LEMMA FarthestIs ==
    ASSUME line \in Seq(Place), NEW t \in Nat,
           NEW first \in DOMAIN line, NEW last \in DOMAIN line, Beyond(first, last, t) # {}
    PROVE  /\ Farthest(first, last, t) \in Beyond(first, last, t)
           /\ Farthest(first, last, t) \in DOMAIN line
           /\ first < Farthest(first, last, t) /\ Farthest(first, last, t) < last
<1> DEFINE D(i) == DistanceToSegment(line[i], line[first], line[last])
           far == Beyond(first, last, t)
           n == Len(line)
           num == [i \in far |-> D(i).num]
           den == [i \in far |-> D(i).den]
<1>0. n \in Nat /\ DOMAIN line = 1..n /\ \A i \in 1..n : line[i] \in Place
    BY LenProperties, ElementOfSeq
<1>1. \A i \in far : i \in 1..n /\ first < i /\ i < last
    BY <1>0 DEF Beyond
<1>2. ASSUME NEW i \in far PROVE D(i).num \in Nat \ {0} /\ D(i).den \in Nat \ {0}
  <2>1. D(i).num \in Nat /\ D(i).den \in Nat \ {0}
    BY <1>0, <1>1, DistanceIs
  <2>2. t * t * D(i).den < D(i).num * 1
    BY DEF Beyond, Nearer, Square
  <2>3. t * t * D(i).den >= 0
    <3>1. t * t \in Nat
      BY Z3
    <3>2. \A k, l \in Nat : k * l >= 0
      BY Z3
    <3> HIDE DEF D
    <3> QED BY <2>1, <3>1, <3>2
  <2>4. t * t * D(i).den \in Int
    <3> HIDE DEF D
    <3> QED BY <2>1
  <2> HIDE DEF D
  <2>5. D(i).num > 0
    BY <2>1, <2>2, <2>3, <2>4
  <2> QED BY <2>1, <2>5
<1>3. far \in SUBSET (1..n) /\ far # {} /\ num \in [far -> Nat \ {0}] /\ den \in [far -> Nat \ {0}]
  <2> HIDE DEF D, far, n
  <2> QED BY <1>1, <1>2 DEF far
<1>4. \E i \in far : \A j \in far :
         /\ ~ (den[j] * num[i] < den[i] * num[j])
         /\ j < i => den[i] * num[j] < den[j] * num[i]
  <2> DEFINE N == n  S == far  top == den  under == num
  <2>1. N \in Nat /\ S \in SUBSET (1..N) /\ S # {} /\ top \in [S -> Nat]
        /\ under \in [S -> Nat \ {0}]
    BY <1>0, <1>3
  <2> HIDE DEF N, S, top, under
  <2>2. \E i \in S : \A j \in S :
         /\ ~ (top[j] * under[i] < top[i] * under[j])
         /\ j < i => top[i] * under[j] < top[j] * under[i]
    BY <2>1, FirstLeast, ZenonT(60)
  <2> QED BY <2>2 DEF S, top, under
<1>5. \E i \in far : \A j \in far : ~Nearer(D(i), D(j)) /\ (j < i => Nearer(D(j), D(i)))
  <2>1. PICK i \in far : \A j \in far :
         /\ ~ (den[j] * num[i] < den[i] * num[j])
         /\ j < i => den[i] * num[j] < den[j] * num[i]
    BY <1>4
  <2>2. ASSUME NEW j \in far
        PROVE  ~Nearer(D(i), D(j)) /\ (j < i => Nearer(D(j), D(i)))
    <3> DEFINE a == D(i).num  b == D(i).den  c == D(j).num  d == D(j).den
    <3>1. a \in Nat /\ b \in Nat /\ c \in Nat /\ d \in Nat
      BY <1>2
    <3>2. ~ (d * a < b * c) /\ (j < i => b * c < d * a)
      BY <2>1
    <3> HIDE DEF a, b, c, d, D, far
    <3>3. d * a = a * d /\ b * c = c * b
      BY <3>1
    <3>4. ~ (a * d < c * b) /\ (j < i => c * b < a * d)
      BY <3>2, <3>3
    <3> QED BY <3>4 DEF Nearer, a, b, c, d
  <2> HIDE DEF D, far
  <2> QED BY <2>2
<1>6. Farthest(first, last, t) = CHOOSE i \in far :
          \A j \in far : ~Nearer(D(i), D(j)) /\ (j < i => Nearer(D(j), D(i)))
    BY DEF Farthest
<1>7. Farthest(first, last, t) \in far
  <2> HIDE DEF D, far
  <2> QED BY <1>5, <1>6
<1> QED BY <1>0, <1>1, <1>7

(* The recursive definition's step.                                        *)
PartOf(f, r, t) ==
    IF Beyond(r[1], r[2], t) = {} THEN {r[1], r[2]}
    ELSE f[<<r[1], Farthest(r[1], r[2], t)>>] \cup f[<<Farthest(r[1], r[2], t), r[2]>>]

(* What the recursion keeps of each stretch.                               *)
Part(t) ==
    CHOOSE part : part = [r \in (DOMAIN line) \X (DOMAIN line) |->
            IF Beyond(r[1], r[2], t) = {} THEN {r[1], r[2]}
            ELSE LET i == Farthest(r[1], r[2], t)
                 IN part[<<r[1], i>>] \cup part[<<i, r[2]>>]]

(* A shorter stretch on either side of the farthest point.                 *)
LEMMA Shorter ==
    ASSUME line \in Seq(Place), NEW t \in Nat, NEW r \in Stretches, Beyond(r[1], r[2], t) # {}
    PROVE  /\ r[1] \in DOMAIN line /\ r[2] \in DOMAIN line
           /\ Farthest(r[1], r[2], t) \in DOMAIN line
           /\ <<r[1], Farthest(r[1], r[2], t)>> \in Stretches
           /\ <<Farthest(r[1], r[2], t), r[2]>> \in Stretches
           /\ r[1] < Farthest(r[1], r[2], t) /\ Farthest(r[1], r[2], t) < r[2]
<1>1. r[1] \in DOMAIN line /\ r[2] \in DOMAIN line
    BY DEF Stretches
<1> QED BY <1>1, FarthestIs DEF Stretches

(* The recursion is well-founded: it defines what is kept.                 *)
LEMMA PartIs ==
    ASSUME line \in Seq(Place), NEW t \in Nat
    PROVE  /\ Part(t) \in [Stretches -> SUBSET (DOMAIN line)]
           /\ \A r \in Stretches : Part(t)[r] = PartOf(Part(t), r, t)
<1> DEFINE n == Len(line)  R == SUBSET (DOMAIN line)
           IsPart(f) == f = [r \in Stretches |-> PartOf(f, r, t)]
           Upto(d) == \E f \in [Stretches -> R] :
                    \A r \in Stretches : r[2] - r[1] <= d => f[r] = PartOf(f, r, t)
           T == {d \in 0..n : Upto(d)}
<1>0. n \in Nat /\ DOMAIN line = 1..n
    BY LenProperties
<1>1. ASSUME NEW f \in [Stretches -> R], NEW r \in Stretches PROVE PartOf(f, r, t) \in R
  <2>1. r[1] \in DOMAIN line /\ r[2] \in DOMAIN line
    BY DEF Stretches
  <2>2. CASE Beyond(r[1], r[2], t) = {}
    BY <2>1, <2>2 DEF PartOf
  <2>3. CASE Beyond(r[1], r[2], t) # {}
    BY <2>3, Shorter DEF PartOf
  <2> QED BY <2>2, <2>3
<1>2. \A r \in Stretches : r[1] \in 1..n /\ r[2] \in 1..n /\ r[1] \in DOMAIN line /\ r[2] \in DOMAIN line
    BY <1>0 DEF Stretches
<1> HIDE DEF R
<1>3. 0 \in T
  <2> DEFINE f == [r \in Stretches |-> {r[1], r[2]}]
  <2>1. f \in [Stretches -> R]
    BY <1>2 DEF R
  <2>2. ASSUME NEW r \in Stretches, r[2] - r[1] <= 0 PROVE f[r] = PartOf(f, r, t)
    <3>1. (r[1] + 1)..(r[2] - 1) = {}
      BY <1>2, <2>2
    <3>2. Beyond(r[1], r[2], t) = {}
      BY <3>1 DEF Beyond
    <3> QED BY <3>2 DEF PartOf
  <2> HIDE DEF f
  <2>3. Upto(0)
    BY <2>1, <2>2
  <2> HIDE DEF Upto
  <2> QED BY <1>0, <2>3
<1>4. ASSUME NEW d \in 0..(n - 1), d \in T PROVE d + 1 \in T
  <2>0. Upto(d)
    <3> HIDE DEF Upto
    <3> QED BY <1>4
  <2>1. PICK f \in [Stretches -> R] :
              \A r \in Stretches : r[2] - r[1] <= d => f[r] = PartOf(f, r, t)
    BY <2>0
  <2> DEFINE h == [r \in Stretches |-> PartOf(f, r, t)]
  <2>2. h \in [Stretches -> R] /\ \A r \in Stretches : h[r] = PartOf(f, r, t)
    BY <1>1
  <2> HIDE DEF h
  <2>3. ASSUME NEW r \in Stretches, r[2] - r[1] <= d + 1 PROVE h[r] = PartOf(h, r, t)
    <3>1. CASE Beyond(r[1], r[2], t) = {}
      BY <2>2, <3>1 DEF PartOf
    <3>2. CASE Beyond(r[1], r[2], t) # {}
      <4> DEFINE i == Farthest(r[1], r[2], t)  a == <<r[1], i>>  b == <<i, r[2]>>
      <4>1. a \in Stretches /\ b \in Stretches /\ r[1] < i /\ i < r[2] /\ i \in 1..n
        BY <1>0, <3>2, Shorter
      <4>2. a[1] = r[1] /\ a[2] = i /\ b[1] = i /\ b[2] = r[2]
        OBVIOUS
      <4> HIDE DEF i, a, b
      <4>3. a[2] - a[1] <= d /\ b[2] - b[1] <= d
        BY <1>2, <2>3, <4>1, <4>2, SMTT(60)
      <4>4. f[a] = h[a] /\ f[b] = h[b]
        BY <2>1, <2>2, <4>1, <4>3
      <4>5. PartOf(f, r, t) = f[a] \cup f[b] /\ PartOf(h, r, t) = h[a] \cup h[b]
        BY <3>2 DEF PartOf, i, a, b
      <4> QED BY <2>2, <4>4, <4>5
    <3> QED BY <3>1, <3>2
  <2>4. Upto(d + 1)
    BY <2>2, <2>3
  <2> HIDE DEF Upto
  <2> QED BY <1>0, <2>4
<1>5. Upto(n)
  <2>1. n \in T
    <3> HIDE DEF T
    <3>1. \A d \in 0..n : d \in T
      BY <1>0, <1>3, <1>4, CountUp
    <3> QED BY <1>0, <3>1
  <2> HIDE DEF Upto
  <2> QED BY <2>1
<1>6. PICK f \in [Stretches -> R] : \A r \in Stretches : r[2] - r[1] <= n => f[r] = PartOf(f, r, t)
    BY <1>5
<1>7. IsPart(f)
  <2>1. \A r \in Stretches : r[2] - r[1] <= n
    BY <1>0, <1>2
  <2>2. \A r \in Stretches : f[r] = PartOf(f, r, t)
    BY <1>6, <2>1
  <2> QED BY <2>2
<1>8. Part(t) = CHOOSE h : IsPart(h)
    BY DEF Part, PartOf, Stretches
<1>9. IsPart(Part(t))
  <2> HIDE DEF IsPart
  <2> QED BY <1>7, <1>8
<1>10. \A r \in Stretches : Part(t)[r] = PartOf(Part(t), r, t)
  <2> DEFINE P == Part(t)
  <2>1. P = [r \in Stretches |-> PartOf(P, r, t)]
    BY <1>9
  <2> HIDE DEF P
  <2>2. \A r \in Stretches : P[r] = PartOf(P, r, t)
    BY <2>1
  <2> QED BY <2>2 DEF P
<1>11. Part(t) \in [Stretches -> R]
  <2> DEFINE P == Part(t)
           Small(d) == \A r \in Stretches : r[2] - r[1] <= d => P[r] \in R
           U == {d \in 0..n : Small(d)}
  <2>0. P = [r \in Stretches |-> PartOf(P, r, t)] /\ \A r \in Stretches : P[r] = PartOf(P, r, t)
    BY <1>9, <1>10
  <2> HIDE DEF P
  <2>1. ASSUME NEW r \in Stretches, Beyond(r[1], r[2], t) = {} PROVE P[r] \in R
    BY <1>2, <2>0, <2>1 DEF PartOf, R
  <2>2. 0 \in U
    <3>1. ASSUME NEW r \in Stretches, r[2] - r[1] <= 0 PROVE P[r] \in R
      <4>1. (r[1] + 1)..(r[2] - 1) = {}
        BY <1>2, <3>1
      <4>2. Beyond(r[1], r[2], t) = {}
        BY <4>1 DEF Beyond
      <4> QED BY <2>1, <4>2
    <3>2. Small(0)
      BY <3>1
    <3> HIDE DEF Small
    <3> QED BY <1>0, <3>2
  <2>3. ASSUME NEW d \in 0..(n - 1), d \in U PROVE d + 1 \in U
    <3>0. \A r \in Stretches : r[2] - r[1] <= d => P[r] \in R
      <4>1. Small(d)
        <5> HIDE DEF Small
        <5> QED BY <2>3
      <4> QED BY <4>1
    <3>1. ASSUME NEW r \in Stretches, r[2] - r[1] <= d + 1, Beyond(r[1], r[2], t) # {}
          PROVE  P[r] \in R
      <4> DEFINE i == Farthest(r[1], r[2], t)  a == <<r[1], i>>  b == <<i, r[2]>>
      <4>1. a \in Stretches /\ b \in Stretches /\ r[1] < i /\ i < r[2] /\ i \in 1..n
        BY <1>0, <3>1, Shorter
      <4>2. a[1] = r[1] /\ a[2] = i /\ b[1] = i /\ b[2] = r[2]
        OBVIOUS
      <4> HIDE DEF i, a, b
      <4>3. r[1] \in 1..n /\ r[2] \in 1..n /\ r[2] - r[1] <= d + 1
        BY <1>2, <3>1
      <4>4. a[2] - a[1] <= d /\ b[2] - b[1] <= d
        BY <4>1, <4>2, <4>3
      <4>6. P[a] \in R /\ P[b] \in R
        BY <3>0, <4>1, <4>4
      <4>5. PartOf(P, r, t) = P[a] \cup P[b]
        BY <3>1 DEF PartOf, i, a, b
      <4> QED BY <2>0, <4>6, <4>5 DEF R
    <3>2. Small(d + 1)
      BY <2>1, <3>1
    <3> HIDE DEF Small
    <3> QED BY <1>0, <3>2
  <2>4. n \in U
    <3> HIDE DEF U
    <3>1. \A d \in 0..n : d \in U
      BY <1>0, <2>2, <2>3, CountUp
    <3> QED BY <1>0, <3>1
  <2>5. \A r \in Stretches : P[r] \in R
    <3>1. \A r \in Stretches : r[2] - r[1] <= n
      BY <1>0, <1>2
    <3> QED BY <2>4, <3>1
  <2> QED BY <2>0, <2>5 DEF P
<1> QED BY <1>10, <1>11 DEF R

(* Of a stretch its ends are kept.                                         *)
LEMMA PartHoldsEnds ==
    ASSUME line \in Seq(Place), NEW t \in Nat, NEW r \in Stretches
    PROVE  r[1] \in Part(t)[r] /\ r[2] \in Part(t)[r]
<1> DEFINE n == Len(line)  P == Part(t)
           Small(d) == \A s \in Stretches : s[2] - s[1] <= d => s[1] \in P[s] /\ s[2] \in P[s]
           T == {d \in 0..n : Small(d)}
<1>0. n \in Nat /\ DOMAIN line = 1..n
    BY LenProperties
<1>1. \A s \in Stretches : s[1] \in 1..n /\ s[2] \in 1..n
    BY <1>0 DEF Stretches
<1>2. \A s \in Stretches : P[s] = PartOf(P, s, t)
    BY PartIs
<1> HIDE DEF P
<1>3. ASSUME NEW s \in Stretches, Beyond(s[1], s[2], t) = {} PROVE s[1] \in P[s] /\ s[2] \in P[s]
    BY <1>2, <1>3 DEF PartOf
<1>4. 0 \in T
  <2>1. ASSUME NEW s \in Stretches, s[2] - s[1] <= 0 PROVE s[1] \in P[s] /\ s[2] \in P[s]
    <3>1. (s[1] + 1)..(s[2] - 1) = {}
      BY <1>1, <2>1
    <3>2. Beyond(s[1], s[2], t) = {}
      BY <3>1 DEF Beyond
    <3> QED BY <1>3, <3>2
  <2>2. Small(0)
    BY <2>1
  <2> HIDE DEF Small
  <2> QED BY <1>0, <2>2
<1>5. ASSUME NEW d \in 0..(n - 1), d \in T PROVE d + 1 \in T
  <2>0. \A s \in Stretches : s[2] - s[1] <= d => s[1] \in P[s] /\ s[2] \in P[s]
    <3>1. Small(d)
      <4> HIDE DEF Small
      <4> QED BY <1>5
    <3> QED BY <3>1
  <2>1. ASSUME NEW s \in Stretches, s[2] - s[1] <= d + 1, Beyond(s[1], s[2], t) # {}
        PROVE  s[1] \in P[s] /\ s[2] \in P[s]
    <3> DEFINE i == Farthest(s[1], s[2], t)  a == <<s[1], i>>  b == <<i, s[2]>>
    <3>1. a \in Stretches /\ b \in Stretches /\ s[1] < i /\ i < s[2] /\ i \in 1..n
      BY <1>0, <2>1, Shorter
    <3>2. a[1] = s[1] /\ a[2] = i /\ b[1] = i /\ b[2] = s[2]
      OBVIOUS
    <3>3. P[s] = P[a] \cup P[b]
      BY <1>2, <2>1 DEF PartOf
    <3> HIDE DEF i, a, b
    <3>4. s[1] \in 1..n /\ s[2] \in 1..n /\ s[2] - s[1] <= d + 1
      BY <1>1, <2>1
    <3>5. a[2] - a[1] <= d /\ b[2] - b[1] <= d
      BY <3>1, <3>2, <3>4
    <3>6. s[1] \in P[a] /\ s[2] \in P[b]
      BY <2>0, <3>1, <3>2, <3>5
    <3> QED BY <3>3, <3>6
  <2>2. Small(d + 1)
    BY <1>3, <2>1
  <2> HIDE DEF Small
  <2> QED BY <1>0, <2>2
<1>6. Small(n)
  <2>1. n \in T
    <3> HIDE DEF T
    <3>1. \A d \in 0..n : d \in T
      BY <1>0, <1>4, <1>5, CountUp
    <3> QED BY <1>0, <3>1
  <2> HIDE DEF Small
  <2> QED BY <2>1
<1>7. r[2] - r[1] <= n
    BY <1>0, <1>1
<1> QED BY <1>6, <1>7 DEF P

(* What the loop has kept and what it has still to look at: the stack's    *)
(* stretches are different, lie between neighbours of the points kept, and *)
(* with those stand for what the recursion keeps; and two neighbours that  *)
(* are not on the stack have nothing beyond the tolerance between them.    *)
StackOK(keep, pending, t) ==
    /\ 1 \in keep /\ Len(line) \in keep
    /\ \A j, k \in DOMAIN pending : pending[j] = pending[k] => j = k
    /\ \A k \in DOMAIN pending :
          /\ pending[k][1] \in keep /\ pending[k][2] \in keep
          /\ \A m \in keep : m <= pending[k][1] \/ pending[k][2] <= m
    /\ keep \cup UNION {Part(t)[pending[k]] : k \in DOMAIN pending} = Part(t)[<<1, Len(line)>>]
    /\ \A a, b \in keep :
          (a < b /\ \A m \in keep : m <= a \/ b <= m)
             => (Beyond(a, b, t) = {} \/ \E k \in DOMAIN pending : pending[k] = <<a, b>>)

(* The stack as it is first.                                               *)
LEMMA StackStarts ==
    ASSUME line \in Seq(Place), line # <<>>, NEW t \in Nat
    PROVE  /\ {1, Len(line)} \in SUBSET (DOMAIN line) /\ <<<<1, Len(line)>>>> \in Seq(Stretches)
           /\ StackOK({1, Len(line)}, <<<<1, Len(line)>>>>, t)
<1> DEFINE n == Len(line)  r == <<1, n>>  p == <<r>>  P == Part(t)
<1>0. n \in Nat /\ n > 0 /\ DOMAIN line = 1..n /\ r \in Stretches
    BY LenProperties, EmptySeq DEF Stretches
<1>1. DOMAIN p = {1} /\ p[1] = r /\ r[1] = 1 /\ r[2] = n
    OBVIOUS
<1>2. 1 \in P[r] /\ n \in P[r]
    BY <1>0, <1>1, PartHoldsEnds
<1>3. p \in Seq(Stretches)
    BY <1>0
<1> HIDE DEF r, p, P, n
<1>4. {1, n} \cup UNION {P[p[k]] : k \in DOMAIN p} = P[r]
    BY <1>1, <1>2
<1>5. \A m \in {1, n} : m <= r[1] \/ r[2] <= m
    BY <1>0, <1>1
<1>6. ASSUME NEW a \in {1, n}, NEW b \in {1, n}, a < b PROVE p[1] = <<a, b>>
    BY <1>0, <1>1, <1>6 DEF r
<1>7. StackOK({1, n}, p, t)
    BY <1>1, <1>4, <1>5, <1>6 DEF StackOK, n, P, r
<1> QED BY <1>0, <1>3, <1>7 DEF n, p, r

(* A sequence without its last item.                                       *)
LEMMA FrontIs ==
    ASSUME NEW S, NEW p \in Seq(S), p # <<>>
    PROVE  /\ Len(p) \in Nat \ {0} /\ DOMAIN p = 1..Len(p) /\ Last(p) = p[Len(p)] /\ Last(p) \in S
           /\ Front(p) \in Seq(S) /\ DOMAIN Front(p) = 1..(Len(p) - 1)
           /\ Len(Front(p)) = Len(p) - 1
           /\ \A k \in 1..(Len(p) - 1) : Front(p)[k] = p[k]
<1>1. Len(p) \in Nat \ {0} /\ DOMAIN p = 1..Len(p) /\ \A k \in 1..Len(p) : p[k] \in S
    BY EmptySeq, LenProperties, ElementOfSeq
<1>2. Last(p) = p[Len(p)] /\ p[Len(p)] \in S
    BY <1>1 DEF Last
<1>3. \A k \in 1..(Len(p) - 1) : p[k] \in S
    BY <1>1
<1>4. /\ SubSeq(p, 1, Len(p) - 1) \in Seq(S)
      /\ Len(SubSeq(p, 1, Len(p) - 1)) = IF 1 <= Len(p) - 1 THEN Len(p) - 1 - 1 + 1 ELSE 0
      /\ \A k \in 1..(Len(p) - 1 - 1 + 1) : SubSeq(p, 1, Len(p) - 1)[k] = p[1 + k - 1]
    BY <1>1, <1>3, SubSeqProperties
<1>5. Len(Front(p)) = Len(p) - 1 /\ Front(p) \in Seq(S)
      /\ \A k \in 1..(Len(p) - 1) : Front(p)[k] = p[k]
    BY <1>1, <1>4 DEF Front
<1>6. DOMAIN Front(p) = 1..(Len(p) - 1)
    BY <1>5, LenProperties
<1> QED BY <1>1, <1>2, <1>5, <1>6

(* A stretch with nothing beyond the tolerance is taken off the stack.     *)
LEMMA StackSettles ==
    ASSUME line \in Seq(Place), NEW t \in Nat, NEW keep \in SUBSET (DOMAIN line),
           NEW p \in Seq(Stretches), p # <<>>, StackOK(keep, p, t),
           Beyond(Last(p)[1], Last(p)[2], t) = {}
    PROVE  StackOK(keep, Front(p), t)
<1> DEFINE n == Len(p)  q == Front(p)  P == Part(t)  r == p[n]
<1>0. /\ n \in Nat \ {0} /\ DOMAIN p = 1..n /\ r = Last(p) /\ r \in Stretches
      /\ DOMAIN q = 1..(n - 1) /\ \A k \in 1..(n - 1) : q[k] = p[k]
  <2>1. /\ Len(p) \in Nat \ {0} /\ DOMAIN p = 1..Len(p) /\ Last(p) = p[Len(p)]
        /\ Last(p) \in Stretches /\ DOMAIN Front(p) = 1..(Len(p) - 1)
        /\ \A k \in 1..(Len(p) - 1) : Front(p)[k] = p[k]
    BY FrontIs
  <2> QED BY <2>1
<1>1. P[r] = {r[1], r[2]} /\ Beyond(r[1], r[2], t) = {}
    BY <1>0, PartIs DEF PartOf
<1> HIDE DEF q, P, r, n
<1>2. /\ \A k \in 1..(n - 1) : k \in 1..n
      /\ \A k \in 1..n : k = n \/ k \in 1..(n - 1)
      /\ n \in 1..n
    BY <1>0
<1>3. r[1] \in keep /\ r[2] \in keep
    BY <1>0, <1>2 DEF StackOK, r
<1>4. keep \cup UNION {P[q[k]] : k \in DOMAIN q} = keep \cup UNION {P[p[k]] : k \in DOMAIN p}
  <2>1. ASSUME NEW x \in UNION {P[p[k]] : k \in DOMAIN p}
        PROVE  x \in keep \cup UNION {P[q[k]] : k \in DOMAIN q}
    <3>1. PICK k \in 1..n : x \in P[p[k]]
      BY <1>0
    <3>2. CASE k = n
      BY <1>1, <1>3, <3>1, <3>2 DEF r
    <3>3. CASE k \in 1..(n - 1)
      BY <1>0, <3>1, <3>3
    <3> QED BY <1>2, <3>2, <3>3
  <2>2. ASSUME NEW x \in UNION {P[q[k]] : k \in DOMAIN q}
        PROVE  x \in UNION {P[p[k]] : k \in DOMAIN p}
    BY <1>0, <1>2
  <2> QED BY <2>1, <2>2
<1>5. keep \cup UNION {P[q[k]] : k \in DOMAIN q} = P[<<1, Len(line)>>]
    BY <1>4 DEF StackOK, P
<1>6. ASSUME NEW a \in keep, NEW b \in keep, a < b, \A m \in keep : m <= a \/ b <= m
      PROVE  Beyond(a, b, t) = {} \/ \E k \in DOMAIN q : q[k] = <<a, b>>
  <2>1. CASE Beyond(a, b, t) = {}
    BY <2>1
  <2>2. CASE \E k \in DOMAIN p : p[k] = <<a, b>>
    <3>1. PICK k \in 1..n : p[k] = <<a, b>>
      BY <1>0, <2>2
    <3>2. CASE k = n
      <4>1. r[1] = a /\ r[2] = b
        BY <3>1, <3>2 DEF r
      <4> QED BY <1>1, <4>1
    <3>3. CASE k \in 1..(n - 1)
      BY <1>0, <3>1, <3>3
    <3> QED BY <1>2, <3>2, <3>3
  <2> QED BY <1>6, <2>1, <2>2 DEF StackOK
<1>7. /\ \A j, k \in DOMAIN q : q[j] = q[k] => j = k
      /\ \A k \in DOMAIN q : /\ q[k][1] \in keep /\ q[k][2] \in keep
                             /\ \A m \in keep : m <= q[k][1] \/ q[k][2] <= m
    BY <1>0, <1>2 DEF StackOK
<1>8. 1 \in keep /\ Len(line) \in keep
    BY DEF StackOK
<1>9. StackOK(keep, q, t)
    BY <1>5, <1>6, <1>7, <1>8 DEF StackOK, P
<1> QED BY <1>9 DEF q

(* A stretch with points beyond the tolerance is split at the farthest.    *)
LEMMA StackSplits ==
    ASSUME line \in Seq(Place), NEW t \in Nat, NEW keep \in SUBSET (DOMAIN line),
           NEW p \in Seq(Stretches), p # <<>>, StackOK(keep, p, t),
           Beyond(Last(p)[1], Last(p)[2], t) # {},
           NEW i, i = Farthest(Last(p)[1], Last(p)[2], t)
    PROVE  /\ keep \cup {i} \in SUBSET (DOMAIN line)
           /\ Front(p) \o <<<<Last(p)[1], i>>, <<i, Last(p)[2]>>>> \in Seq(Stretches)
           /\ StackOK(keep \cup {i}, Front(p) \o <<<<Last(p)[1], i>>, <<i, Last(p)[2]>>>>, t)
<1> DEFINE n == Len(p)  P == Part(t)  r == p[n]  a == r[1]  b == r[2]
           new == <<<<a, i>>, <<i, b>>>>
           q == Front(p) \o new
<1>0. /\ n \in Nat \ {0} /\ DOMAIN p = 1..n /\ r = Last(p) /\ r \in Stretches
      /\ Front(p) \in Seq(Stretches) /\ Len(Front(p)) = n - 1
      /\ \A k \in 1..(n - 1) : Front(p)[k] = p[k]
      /\ \A k \in 1..n : p[k] \in Stretches
    BY FrontIs, ElementOfSeq, ZenonT(60)
<1>1. /\ a \in DOMAIN line /\ b \in DOMAIN line /\ i \in DOMAIN line /\ a < i /\ i < b
      /\ <<a, i>> \in Stretches /\ <<i, b>> \in Stretches
    BY <1>0, Shorter
<1>2. P[r] = P[<<a, i>>] \cup P[<<i, b>>]
  <2>1. Beyond(r[1], r[2], t) # {} /\ i = Farthest(r[1], r[2], t)
    BY <1>0
  <2>2. P[r] = PartOf(P, r, t)
    BY <1>0, PartIs
  <2> HIDE DEF P, r
  <2> QED BY <2>1, <2>2 DEF PartOf
<1>3. i \in P[<<a, i>>]
    BY <1>1, PartHoldsEnds
<1>4. new \in Seq(Stretches) /\ Len(new) = 2 /\ new[1] = <<a, i>> /\ new[2] = <<i, b>>
    BY <1>1
<1>5. DOMAIN line \subseteq Int
    BY LenProperties
<1>6. /\ q \in Seq(Stretches) /\ DOMAIN q = 1..(n + 1)
      /\ \A k \in 1..(n - 1) : q[k] = p[k]
      /\ q[n] = <<a, i>> /\ q[n + 1] = <<i, b>>
  <2> HIDE DEF new, n
  <2>1. /\ q \in Seq(Stretches) /\ Len(q) = n - 1 + 2
        /\ \A k \in 1..(n - 1 + 2) :
              q[k] = IF k <= n - 1 THEN Front(p)[k] ELSE new[k - (n - 1)]
    <3>1. /\ Front(p) \o new \in Seq(Stretches)
          /\ Len(Front(p) \o new) = Len(Front(p)) + Len(new)
          /\ \A k \in 1..(Len(Front(p)) + Len(new)) : (Front(p) \o new)[k] =
                 IF k <= Len(Front(p)) THEN Front(p)[k] ELSE new[k - Len(Front(p))]
      BY <1>0, <1>4, ConcatProperties
    <3>2. Len(Front(p)) = n - 1 /\ Len(new) = 2
      BY <1>0, <1>4 DEF n
    <3> QED BY <3>1, <3>2
  <2> HIDE DEF q
  <2>2. Len(q) = n + 1 /\ DOMAIN q = 1..Len(q)
    BY <1>0, <2>1, LenProperties
  <2>3. \A k \in 1..(n - 1) : q[k] = p[k]
    BY <1>0, <2>1
  <2>4. n - (n - 1) = 1 /\ (n + 1) - (n - 1) = 2
    BY <1>0
  <2>5. q[n] = new[1] /\ q[n + 1] = new[2]
    <3>1. n \in 1..(n - 1 + 2) /\ n + 1 \in 1..(n - 1 + 2) /\ ~(n <= n - 1) /\ ~(n + 1 <= n - 1)
      BY <1>0
    <3>2. q[n] = new[n - (n - 1)] /\ q[n + 1] = new[(n + 1) - (n - 1)]
      BY <2>1, <3>1
    <3> QED BY <2>4, <3>2
  <2> QED BY <1>4, <2>1, <2>2, <2>3, <2>5
<1> HIDE DEF q, new, P, n
<1>7. /\ \A k \in 1..(n - 1) : k \in 1..n /\ k \in 1..(n + 1) /\ k # n
      /\ \A k \in 1..n : k = n \/ k \in 1..(n - 1)
      /\ \A k \in 1..(n + 1) : k = n \/ k = n + 1 \/ k \in 1..(n - 1)
      /\ n \in 1..n /\ n \in 1..(n + 1) /\ n + 1 \in 1..(n + 1)
    BY <1>0
<1>8. /\ \A k \in 1..n : p[k][1] \in keep /\ p[k][2] \in keep
      /\ \A k \in 1..n, m \in keep : m <= p[k][1] \/ p[k][2] <= m
      /\ \A j, k \in 1..n : p[j] = p[k] => j = k
      /\ 1 \in keep /\ Len(line) \in keep
      /\ keep \cup UNION {P[p[k]] : k \in 1..n} = P[<<1, Len(line)>>]
    BY <1>0 DEF StackOK, P
<1>9. a \in keep /\ b \in keep /\ \A m \in keep : m <= a \/ b <= m
    BY <1>7, <1>8
<1>10. i \notin keep /\ \A m \in keep : m \in Int
    BY <1>1, <1>5, <1>9
<1>11. ASSUME NEW k \in 1..(n - 1) PROVE i <= p[k][1] \/ p[k][2] <= i
  <2> DEFINE c == p[k][1]  d == p[k][2]
  <2>1. c \in keep /\ d \in keep /\ c \in Int /\ d \in Int
    BY <1>7, <1>8, <1>10
  <2>2. SUFFICES ASSUME c < i, i < d PROVE FALSE
    BY <1>1, <1>5, <2>1
  <2>3. /\ a <= c \/ d <= a
        /\ b <= c \/ d <= b
        /\ c <= a \/ b <= c
        /\ d <= a \/ b <= d
    BY <1>7, <1>8, <1>9, <2>1
  <2>4. a = c /\ b = d
    BY <1>1, <1>5, <2>1, <2>2, <2>3
  <2>5. p[k] = <<c, d>> /\ r = <<a, b>>
    <3>1. \A s \in Stretches : s = <<s[1], s[2]>>
      BY DEF Stretches
    <3>2. p[k] \in Stretches
      BY <1>0, <1>7
    <3> QED BY <1>0, <3>1, <3>2
  <2>6. p[k] = p[n]
    BY <2>4, <2>5
  <2> QED BY <1>7, <1>8, <2>6
<1>12. \A j, k \in DOMAIN q : q[j] = q[k] => j = k
  <2>1. \A k \in 1..(n - 1) : q[k] # <<a, i>> /\ q[k] # <<i, b>>
    <3>1. \A k \in 1..(n - 1) : q[k][1] # i /\ q[k][2] # i
      BY <1>6, <1>7, <1>8, <1>10, SMTT(60)
    <3> QED BY <3>1
  <2>2. <<a, i>> # <<i, b>>
    BY <1>1, <1>5
  <2>3. \A j, k \in 1..(n - 1) : q[j] = q[k] => j = k
    BY <1>6, <1>7, <1>8
  <2> QED BY <1>6, <1>7, <2>1, <2>2, <2>3
<1>13. ASSUME NEW k \in DOMAIN q
       PROVE  /\ q[k][1] \in keep \cup {i} /\ q[k][2] \in keep \cup {i}
              /\ \A m \in keep \cup {i} : m <= q[k][1] \/ q[k][2] <= m
  <2>1. CASE k \in 1..(n - 1)
    BY <1>6, <1>7, <1>8, <1>11, <2>1
  <2>2. CASE k = n
    <3>1. q[k][1] = a /\ q[k][2] = i
      BY <1>6, <2>2
    <3>2. \A m \in keep : m <= a \/ i <= m
      BY <1>1, <1>5, <1>9, <1>10
    <3>3. i <= i
      BY <1>1, <1>5
    <3> QED BY <1>9, <3>1, <3>2, <3>3
  <2>3. CASE k = n + 1
    <3>1. q[k][1] = i /\ q[k][2] = b
      BY <1>6, <2>3
    <3>2. \A m \in keep : m <= i \/ b <= m
      BY <1>1, <1>5, <1>9, <1>10
    <3>3. i <= i
      BY <1>1, <1>5
    <3> QED BY <1>9, <3>1, <3>2, <3>3
  <2> QED BY <1>6, <1>7, <2>1, <2>2, <2>3
<1>14. keep \cup {i} \cup UNION {P[q[k]] : k \in DOMAIN q} = P[<<1, Len(line)>>]
  <2>1. ASSUME NEW x \in UNION {P[p[k]] : k \in 1..n}
        PROVE  x \in UNION {P[q[k]] : k \in DOMAIN q}
    <3>1. PICK k \in 1..n : x \in P[p[k]]
      OBVIOUS
    <3>2. CASE k = n
      <4>1. x \in P[q[n]] \/ x \in P[q[n + 1]]
        BY <1>2, <1>6, <3>1, <3>2
      <4> QED BY <1>6, <1>7, <4>1
    <3>3. CASE k \in 1..(n - 1)
      BY <1>6, <1>7, <3>1, <3>3
    <3> QED BY <1>7, <3>2, <3>3
  <2>2. ASSUME NEW x \in UNION {P[q[k]] : k \in DOMAIN q}
        PROVE  x \in UNION {P[p[k]] : k \in 1..n}
    <3>1. PICK k \in 1..(n + 1) : x \in P[q[k]]
      BY <1>6
    <3>2. CASE k = n \/ k = n + 1
      <4>1. x \in P[p[n]]
        BY <1>2, <1>6, <3>1, <3>2
      <4> QED BY <1>7, <4>1
    <3>3. CASE k \in 1..(n - 1)
      BY <1>6, <1>7, <3>1, <3>3
    <3> QED BY <1>7, <3>2, <3>3
  <2>3. i \in UNION {P[q[k]] : k \in DOMAIN q}
    <3>1. i \in P[q[n]] /\ n \in DOMAIN q
      BY <1>3, <1>6, <1>7
    <3> QED BY <3>1
  <2>4. UNION {P[q[k]] : k \in DOMAIN q} = UNION {P[p[k]] : k \in 1..n}
    BY <2>1, <2>2
  <2> QED BY <1>8, <2>3, <2>4
<1>15. ASSUME NEW c \in keep \cup {i}, NEW d \in keep \cup {i}, c < d,
              \A m \in keep \cup {i} : m <= c \/ d <= m
       PROVE  Beyond(c, d, t) = {} \/ \E k \in DOMAIN q : q[k] = <<c, d>>
  <2>0. c \in Int /\ d \in Int /\ i \in Int /\ a \in Int /\ b \in Int
    BY <1>1, <1>5, <1>10
  <2>1. CASE c = i
    <3>1. d \in keep
      BY <1>15, <2>0, <2>1
    <3>2. d = b
      <4>1. d <= b
        BY <1>1, <1>9, <1>15, <2>0, <2>1
      <4>2. b <= d
        BY <1>1, <1>9, <1>15, <2>0, <2>1, <3>1
      <4> QED BY <2>0, <4>1, <4>2
    <3> QED BY <1>6, <1>7, <2>1, <3>2
  <2>2. CASE d = i
    <3>1. c \in keep
      BY <1>15, <2>0, <2>2
    <3>2. c = a
      <4>1. a <= c
        BY <1>1, <1>9, <1>15, <2>0, <2>2
      <4>2. c <= a
        BY <1>1, <1>9, <1>15, <2>0, <2>2, <3>1
      <4> QED BY <2>0, <4>1, <4>2
    <3> QED BY <1>6, <1>7, <2>2, <3>2
  <2>3. CASE c # i /\ d # i
    <3>1. c \in keep /\ d \in keep /\ \A m \in keep : m <= c \/ d <= m
      BY <1>15, <2>3
    <3>2. CASE Beyond(c, d, t) = {}
      BY <3>2
    <3>3. CASE \E k \in DOMAIN p : p[k] = <<c, d>>
      <4>1. PICK k \in 1..n : p[k] = <<c, d>>
        BY <1>0, <3>3
      <4>2. k # n
        <5>1. SUFFICES ASSUME k = n PROVE FALSE
          OBVIOUS
        <5>2. a = c /\ b = d
          BY <4>1, <5>1
        <5>3. i <= c \/ d <= i
          BY <1>15
        <5> QED BY <1>1, <2>0, <5>2, <5>3
      <4> QED BY <1>6, <1>7, <4>1, <4>2
    <3> QED BY <1>15, <3>1, <3>2, <3>3 DEF StackOK
  <2> QED BY <2>1, <2>2, <2>3
<1>16. StackOK(keep \cup {i}, q, t)
    BY <1>8, <1>12, <1>13, <1>14, <1>15, ZenonT(60) DEF StackOK, P
<1> QED BY <1>0, <1>1, <1>6, <1>16 DEF q, new

(* When the stack is empty, what is kept is what the recursion keeps, and  *)
(* every other point is in the band of its neighbours among them.          *)
LEMMA EmptyStack ==
    ASSUME line \in Seq(Place), NEW t \in Nat, NEW keep \in SUBSET (DOMAIN line),
           StackOK(keep, <<>>, t)
    PROVE  /\ keep = Simplified(t)
           /\ \A i \in (DOMAIN line) \ keep :
                 LET a == CHOOSE k \in keep : k < i /\ \A j \in keep : ~(k < j /\ j < i)
                     b == CHOOSE k \in keep : k > i /\ \A j \in keep : ~(i < j /\ j < k)
                 IN InBand(line[i], line[a], line[b], t)
<1> DEFINE n == Len(line)  P == Part(t)
<1>0. n \in Nat /\ DOMAIN line = 1..n /\ \A i \in 1..n : line[i] \in Place
    BY LenProperties, ElementOfSeq
<1>1. keep = Simplified(t)
  <2>1. Simplified(t) = P[<<1, n>>]
    BY DEF Simplified, Part
  <2>2. keep = P[<<1, n>>]
    <3>1. keep \cup UNION {P[<<>>[k]] : k \in DOMAIN <<>>} = P[<<1, n>>]
      BY DEF StackOK
    <3>2. {P[<<>>[k]] : k \in DOMAIN <<>>} = {}
      OBVIOUS
    <3> HIDE DEF P, n
    <3> QED BY <3>1, <3>2
  <2> QED BY <2>1, <2>2
<1>2. ASSUME NEW i \in (DOMAIN line) \ keep,
             NEW a, a = CHOOSE k \in keep : k < i /\ \A j \in keep : ~(k < j /\ j < i),
             NEW b, b = CHOOSE k \in keep : k > i /\ \A j \in keep : ~(i < j /\ j < k)
      PROVE  InBand(line[i], line[a], line[b], t)
  <2>0. i \in 1..n /\ 1 \in keep /\ n \in keep /\ i # 1 /\ i # n /\ keep \in SUBSET (1..n)
    BY <1>0 DEF StackOK
  <2>1. a \in keep /\ a < i /\ \A j \in keep : ~(a < j /\ j < i)
    <3> DEFINE below == {m \in 0..n : n - m \in keep /\ n - m < i}
    <3>1. below \in SUBSET Nat /\ n - 1 \in below
      BY <1>0, <2>0
    <3>2. PICK m \in below : \A k \in below : m <= k
      BY <3>1, LeastOf
    <3>3. ASSUME NEW j \in keep PROVE ~(n - m < j /\ j < i)
      <4>1. SUFFICES ASSUME n - m < j, j < i PROVE FALSE
        OBVIOUS
      <4>2. j \in 1..n /\ m \in 0..n
        BY <2>0
      <4>3. n - j \in 0..n /\ n - (n - j) = j
        BY <1>0, <4>2
      <4>4. n - j \in below
        BY <4>1, <4>3
      <4>5. m <= n - j
        BY <3>2, <4>4
      <4> QED BY <1>0, <4>1, <4>2, <4>5
    <3>4. \E k \in keep : k < i /\ \A j \in keep : ~(k < j /\ j < i)
      BY <3>2, <3>3
    <3> QED BY <1>2, <3>4
  <2>2. b \in keep /\ b > i /\ \A j \in keep : ~(i < j /\ j < b)
    <3> DEFINE above == {m \in keep : m > i}
    <3>1. above \in SUBSET Nat /\ n \in above
      BY <1>0, <2>0
    <3>2. PICK m \in above : \A k \in above : m <= k
      BY <3>1, LeastOf
    <3>3. ASSUME NEW j \in keep PROVE ~(i < j /\ j < m)
      BY <2>0, <3>2
    <3>4. \E k \in keep : k > i /\ \A j \in keep : ~(i < j /\ j < k)
      BY <3>2, <3>3
    <3> QED BY <1>2, <3>4
  <2>3. a \in 1..n /\ b \in 1..n /\ a < b
    BY <2>0, <2>1, <2>2
  <2>4. \A m \in keep : m <= a \/ b <= m
    <3>1. ASSUME NEW m \in keep, a < m, m < b PROVE FALSE
      <4>1. m \in 1..n /\ m # i
        BY <2>0
      <4>2. ~(a < m /\ m < i) /\ ~(i < m /\ m < b)
        BY <2>1, <2>2
      <4> QED BY <2>0, <3>1, <4>1, <4>2
    <3>2. \A m \in keep : m \in Int
      BY <2>0
    <3> QED BY <2>3, <3>1, <3>2
  <2>5. Beyond(a, b, t) = {}
    <3>1. DOMAIN <<>> = {}
      OBVIOUS
    <3> QED BY <2>1, <2>2, <2>3, <2>4, <3>1 DEF StackOK
  <2>6. i \in (a + 1)..(b - 1)
    BY <2>0, <2>1, <2>2, <2>3
  <2>7. ~ Nearer([num |-> Square(t), den |-> 1], DistanceToSegment(line[i], line[a], line[b]))
    BY <2>5, <2>6 DEF Beyond
  <2> QED BY <1>0, <2>0, <2>3, <2>7, NearIsInBand
<1> QED BY <1>1, <1>2
-----------------------------------------------------------------------------
(* Rings and shapes.                                                       *)

(* The item after the last is the first.                                   *)
LEMMA AfterIs ==
    ASSUME NEW S, NEW s \in Seq(S), NEW i \in DOMAIN s
    PROVE  /\ Len(s) \in Nat \ {0} /\ DOMAIN s = 1..Len(s)
           /\ After(s, i) = s[IF i = Len(s) THEN 1 ELSE i + 1]
           /\ (IF i = Len(s) THEN 1 ELSE i + 1) \in DOMAIN s
           /\ After(s, i) \in S
<1> DEFINE n == Len(s)
<1>1. n \in Nat \ {0} /\ DOMAIN s = 1..n /\ i \in 1..n
  <2>1. n \in Nat /\ DOMAIN s = 1..n
    BY LenProperties
  <2> QED BY <2>1
<1>2. n % n = 0 /\ (i < n => i % n = i)
  <2>1. \A k \in Nat \ {0} : k % k = 0
    BY Z3
  <2>2. \A k \in Nat \ {0}, m \in Nat : m < k => m % k = m
    BY Z3
  <2> HIDE DEF n
  <2> QED BY <1>1, <2>1, <2>2
<1>3. (i % n) + 1 = IF i = n THEN 1 ELSE i + 1
  <2> HIDE DEF n
  <2> QED BY <1>1, <1>2
<1>4. (IF i = n THEN 1 ELSE i + 1) \in 1..n
  <2> HIDE DEF n
  <2> QED BY <1>1
<1> QED BY <1>1, <1>3, <1>4, ElementOfSeq DEF After

(* The nearest segment exists: the first of the nearest.                   *)
LEMMA NearestIs ==
    ASSUME NEW ring \in Seq(Place), ring # <<>>, NEW p \in Place
    PROVE  /\ NearestSegment(ring, p) \in DOMAIN ring
           /\ \A j \in DOMAIN ring :
                 ~Nearer(DistanceToSegment(p, ring[j], After(ring, j)),
                         DistanceToSegment(p, ring[NearestSegment(ring, p)],
                                           After(ring, NearestSegment(ring, p))))
<1> DEFINE D(i) == DistanceToSegment(p, ring[i], After(ring, i))
           S == DOMAIN ring
           n == Len(ring)
           num == [i \in S |-> D(i).num]
           den == [i \in S |-> D(i).den]
<1>0. n \in Nat /\ n > 0 /\ S = 1..n /\ \A i \in S : ring[i] \in Place
    BY LenProperties, EmptySeq, ElementOfSeq
<1>1. ASSUME NEW i \in S PROVE D(i).num \in Nat /\ D(i).den \in Nat \ {0}
    BY <1>0, AfterIs, DistanceIs
<1>2. S \in SUBSET (1..n) /\ S # {} /\ num \in [S -> Nat] /\ den \in [S -> Nat \ {0}]
  <2>1. 1 \in S
    BY <1>0
  <2> HIDE DEF D, S, n
  <2> QED BY <1>0, <1>1, <2>1
<1>3. \E i \in S : \A j \in S :
         /\ ~ (num[j] * den[i] < num[i] * den[j])
         /\ j < i => num[i] * den[j] < num[j] * den[i]
  <2> HIDE DEF n, S, num, den
  <2> QED BY <1>0, <1>2, FirstLeast
<1>4. \E i \in S : \A j \in S : ~Nearer(D(j), D(i)) /\ (j < i => Nearer(D(i), D(j)))
  <2> HIDE DEF D, S
  <2> QED BY <1>3 DEF Nearer
<1>5. NearestSegment(ring, p) = CHOOSE i \in S :
          \A j \in S : ~Nearer(D(j), D(i)) /\ (j < i => Nearer(D(i), D(j)))
    BY DEF NearestSegment
<1> DEFINE i == NearestSegment(ring, p)
<1>6. i \in S /\ \A j \in S : ~Nearer(D(j), D(i))
  <2> HIDE DEF D, S, i
  <2> QED BY <1>4, <1>5 DEF i
<1> QED BY <1>6

(* The points of a drawn ring round the pulls of which there are n.        *)
Entries(n) == [bearing : 0..(Turn - 1), gap : 1..n]

(* Angles, and what a pull is.                                             *)
LEMMA AnglesAre ==
    /\ Turn \in Nat /\ Turn > 0 /\ ArcStep \in Nat /\ ArcStep > 0 /\ ArcStep < Turn
    /\ \A p \in Pull : p.bearing \in 0..(Turn - 1) /\ p.cone \in Nat /\ 2 * p.cone < Turn
<1>1. Turn \in Nat /\ Turn > 0 /\ ArcStep \in Nat /\ ArcStep > 0 /\ ArcStep < Turn
    BY ShapeAssumption
<1>2. ASSUME NEW p \in Pull
      PROVE  p.bearing \in 0..(Turn - 1) /\ p.cone \in Nat /\ 2 * p.cone < Turn
  <2>1. p.bearing \in 0..(Turn - 1) /\ p.cone \in Cones
    BY DEF Pull
  <2> QED BY <2>1, ShapeAssumption
<1> QED BY <1>1, <1>2

(* A stretch of the outline is one of those.                               *)
LEMMA StretchType ==
    ASSUME NEW pulls \in Seq(Pull), NEW i \in DOMAIN pulls
    PROVE  Stretch(pulls, i) \in Seq(Entries(Len(pulls)))
<1> DEFINE n == Len(pulls)
           here == pulls[i]
           next == After(pulls, i)
           ccw == (next.bearing - here.bearing) % Turn
           from == here.bearing + here.cone
           to == here.bearing + (IF ccw = 0 THEN Turn ELSE ccw) - next.cone
           E(a) == [bearing |-> a % Turn, gap |-> i]
           count == (to - from - 1) \div ArcStep
           pull == <<[bearing |-> here.bearing, gap |-> i]>>
           first == IF here.cone > 0 THEN <<E(from)>> ELSE <<>>
           mids == [k \in 1..count |-> E(from + k * ArcStep)]
           last == IF next.cone > 0 THEN <<E(to)>> ELSE <<>>
           S == Entries(n)
<1>0. /\ Turn \in Nat /\ Turn > 0 /\ ArcStep \in Nat /\ ArcStep > 0
      /\ \A p \in Pull : p.bearing \in 0..(Turn - 1) /\ p.cone \in Nat
    BY AnglesAre
<1>1. here \in Pull /\ next \in Pull /\ i \in 1..n
    BY AfterIs, ElementOfSeq, LenProperties
<1>2. here.bearing \in 0..(Turn - 1) /\ next.bearing \in 0..(Turn - 1)
      /\ here.cone \in Nat /\ next.cone \in Nat
    BY <1>0, <1>1
<1>3. ccw \in Int /\ from \in Int /\ to \in Int
  <2> HIDE DEF here, next
  <2>1. next.bearing - here.bearing \in Int
    BY <1>2
  <2>2. ccw \in Int
    BY <1>0, <2>1
  <2> HIDE DEF ccw
  <2> QED BY <1>0, <1>2, <2>2
<1>4. ASSUME NEW a \in Int PROVE E(a) \in S
  <2>1. a % Turn \in 0..(Turn - 1)
    BY <1>0
  <2> QED BY <1>1, <2>1 DEF Entries
<1> HIDE DEF E, S, from, to
<1>5. pull \in Seq(S)
  <2>1. [bearing |-> here.bearing, gap |-> i] \in S
    BY <1>1, <1>2 DEF Entries, S
  <2> QED BY <2>1
<1>6. first \in Seq(S) /\ last \in Seq(S)
    BY <1>3, <1>4
<1>7. mids \in Seq(S)
  <2> DEFINE rest == to - from - 1
  <2>2. rest \in Int /\ count \in Int /\ (rest >= 0 <=> count >= 0)
    <3>1. rest \in Int
      BY <1>3
    <3> HIDE DEF rest
    <3>2. \A a \in Int, d \in Nat \ {0} : a \div d \in Int /\ (a >= 0 <=> a \div d >= 0)
      BY Z3
    <3> QED BY <1>0, <3>1, <3>2 DEF rest
  <2>0. CASE to > from
    <3>1. count \in Nat
      <4> HIDE DEF count
      <4> QED BY <1>3, <2>0, <2>2
    <3>2. \A k \in 1..count : from + k * ArcStep \in Int
      BY <1>0, <1>3, <3>1
    <3>3. mids \in [1..count -> S]
      <4> HIDE DEF count
      <4> QED BY <1>4, <3>2
    <3> HIDE DEF count, mids
    <3> QED BY <3>1, <3>3
  <2>1. CASE ~ (to > from)
    <3>1. count \in Int /\ ~(1 <= count)
      <4> HIDE DEF count
      <4> QED BY <1>3, <2>1, <2>2
    <3>2. mids = <<>>
      <4> HIDE DEF count, E
      <4>1. 1..count = {}
        BY <3>1
      <4> QED BY <4>1
    <3> HIDE DEF mids
    <3> QED BY <3>2
  <2> QED BY <2>0, <2>1
<1>8. Stretch(pulls, i) = IF to <= from THEN pull ELSE pull \o first \o mids \o last
    BY DEF Stretch, E, from, to
<1> HIDE DEF pull, first, mids, last
<1>9. pull \o first \o mids \o last \in Seq(S)
    BY <1>5, <1>6, <1>7
<1> QED BY <1>5, <1>8, <1>9 DEF S

(* So is the whole.                                                        *)
LEMMA RingType ==
    ASSUME NEW pulls \in Seq(Pull), pulls # <<>>
    PROVE  PulledRing(pulls) \in Seq(Entries(Len(pulls)))
<1> DEFINE n == Len(pulls)  S == Entries(n)  seqs == [i \in DOMAIN pulls |-> Stretch(pulls, i)]
<1>1. n \in Nat \ {0} /\ DOMAIN pulls = 1..n
    BY EmptySeq, LenProperties
<1>2. \A i \in 1..n : Stretch(pulls, i) \in Seq(S)
    BY <1>1, StretchType
<1> HIDE DEF S, n
<1>3. seqs \in Seq(Seq(S)) /\ Len(seqs) = n
    BY <1>1, <1>2
<1>4. PulledRing(pulls) = FlattenSeq(seqs)
    BY DEF PulledRing
<1> HIDE DEF seqs
<1>5. PICK f \in [1..n -> Seq(S)] : FlattenSeq(seqs) = f[n]
  <2>1. Len(seqs) > 0
    BY <1>1, <1>3
  <2>2. \E f \in [1..Len(seqs) -> Seq(S)] :
              /\ f[1] = seqs[1] /\ \A i \in 2..Len(seqs) : f[i] = f[i - 1] \o seqs[i]
              /\ FlattenSeq(seqs) = f[Len(seqs)]
    BY <1>3, <2>1, FlattenIs
  <2> QED BY <1>3, <2>2
<1>6. f[n] \in Seq(S)
    BY <1>1
<1> QED BY <1>4, <1>5, <1>6 DEF S, n

(* The kinds of shapes, and their parts.                                   *)
LEMMA ShapeIs ==
    /\ NoShape.kind = "none"
    /\ \A s \in Pulleds : s.kind = "pulled" /\ s.pulls \in Seq(Pull) /\ s.pulls # <<>>
                          /\ s = Pulled(Circle, s.pulls) /\ s.circle = Circle
    /\ \A s \in Freehands : s.kind = "freehand" /\ s.points \in Seq(Points) /\ s.points # <<>>
                            /\ s = Freehand(s.points)
    /\ \A q \in Seq(Pull) : q # <<>> =>
          Pulled(Circle, q) \in Pulleds /\ Pulled(Circle, q).pulls = q
    /\ \A q \in Seq(Points) : q # <<>> =>
          Freehand(q) \in Freehands /\ Freehand(q).points = q
<1>1. NoShape.kind = "none"
    BY DEF NoShape
<1>2. \A s \in Pulleds : s.kind = "pulled" /\ s.pulls \in Seq(Pull) /\ s.pulls # <<>>
                         /\ s = Pulled(Circle, s.pulls) /\ s.circle = Circle
    BY DEF Pulleds, Pulled
<1>3. \A s \in Freehands : s.kind = "freehand" /\ s.points \in Seq(Points) /\ s.points # <<>>
                           /\ s = Freehand(s.points)
    BY DEF Freehands, Freehand
<1>4. \A q \in Seq(Pull) : q # <<>> =>
          Pulled(Circle, q) \in Pulleds /\ Pulled(Circle, q).pulls = q
    BY DEF Pulleds, Pulled
<1>5. \A q \in Seq(Points) : q # <<>> =>
          Freehand(q) \in Freehands /\ Freehand(q).points = q
    BY DEF Freehands, Freehand
<1> QED BY <1>1, <1>2, <1>3, <1>4, <1>5

(* The shape is none, pulled or freehand, and its kind says which.         *)
Shapes == {NoShape} \cup Pulleds \cup Freehands

(* The corners of an outline are places.                                   *)
LEMMA CornersAre ==
    ASSUME NEW points \in Seq(Points)
    PROVE  /\ [i \in DOMAIN points |-> points[i].at] \in Seq(Grid)
           /\ [i \in DOMAIN points |-> points[i].at] \in Seq(Place)
           /\ Len([i \in DOMAIN points |-> points[i].at]) = Len(points)
           /\ DOMAIN [i \in DOMAIN points |-> points[i].at] = DOMAIN points
<1>1. Len(points) \in Nat /\ DOMAIN points = 1..Len(points)
      /\ \A i \in DOMAIN points : points[i] \in Points
    BY LenProperties, ElementOfSeq
<1>2. \A i \in DOMAIN points : points[i].at \in Grid
    BY <1>1 DEF Points
<1> DEFINE c == [i \in DOMAIN points |-> points[i].at]
<1>3. c \in Seq(Grid) /\ Len(c) = Len(points) /\ DOMAIN c = DOMAIN points
    BY <1>1, <1>2
<1>4. Grid \subseteq Place
    BY ShapeAssumption DEF Place
<1> HIDE DEF c
<1>5. c \in Seq(Place)
    BY <1>3, <1>4, SeqMonotonic
<1> QED BY <1>3, <1>5 DEF c

(* A handle is where the count says.                                       *)
LEMMA PositionExists ==
    ASSUME NEW points \in Seq(Points), NEW index, IsHandle(Freehand(points), index)
    PROVE  FreehandPosition(points, index) \in DOMAIN points
<1> DEFINE H == {i \in DOMAIN points : points[i].handle}
<1>0. DOMAIN points = 1..Len(points) /\ Len(points) \in Nat
    BY LenProperties
<1>1. Handles(Freehand(points)) = H
    BY DEF Handles, Freehand
<1>2. Cardinality(H) \in Nat /\ H \in SUBSET (1..Len(points))
  <2>1. IsFiniteSet(1..Len(points)) /\ H \in SUBSET (1..Len(points))
    BY <1>0, FS_Interval
  <2> HIDE DEF H
  <2> QED BY <2>1, FS_Subset, FS_CardinalityType
<1>3. index \in Nat \ {0} /\ index <= Cardinality(H)
  <2>1. index \in 1..Cardinality(H)
    BY <1>1 DEF IsHandle
  <2> HIDE DEF H
  <2> QED BY <1>2, <2>1
<1>4. PICK i \in H : Cardinality({j \in 1..i : j \in H}) = index
  <2> HIDE DEF H
  <2> QED BY <1>0, <1>2, <1>3, CountedMember
<1>5. {j \in 1..i : j \in H} = {j \in 1..i : points[j].handle}
    BY <1>0
<1>6. i \in DOMAIN points /\ points[i].handle /\ HandleCount(points, i) = index
    BY <1>4, <1>5 DEF HandleCount
<1> QED BY <1>6 DEF FreehandPosition

(* A pull put in after one of the pulls.                                   *)
LEMMA PullInserted ==
    ASSUME NEW s \in Pulleds, NEW after \in DOMAIN s.pulls, NEW grab \in Pull
    PROVE  /\ InsertPointAt(s, after, grab).shape
                = Pulled(Circle, InsertAt(s.pulls, after + 1, grab))
           /\ InsertAt(s.pulls, after + 1, grab) \in Seq(Pull)
           /\ Len(InsertAt(s.pulls, after + 1, grab)) = Len(s.pulls) + 1
           /\ InsertPointAt(s, after, grab).shape \in Pulleds
<1>1. s.kind = "pulled" /\ s.pulls \in Seq(Pull) /\ s.circle = Circle
    BY ShapeIs
<1>2. Len(s.pulls) \in Nat /\ after + 1 \in 1..(Len(s.pulls) + 1)
    BY <1>1, LenProperties
<1> DEFINE q == InsertAt(s.pulls, after + 1, grab)
<1>3. q \in Seq(Pull) /\ Len(q) = Len(s.pulls) + 1
    BY <1>1, <1>2, InsertAtIs
<1>4. InsertPointAt(s, after, grab).shape = Pulled(Circle, q)
    BY <1>1 DEF InsertPointAt
<1> HIDE DEF q
<1>5. q # <<>>
    BY <1>2, <1>3
<1> QED BY <1>3, <1>4, <1>5, ShapeIs DEF q

(* A corner put in after one of the corners.                               *)
LEMMA CornerInserted ==
    ASSUME NEW s \in Freehands, NEW after \in DOMAIN s.points, NEW grab \in Grid
    PROVE  InsertPointAt(s, after, grab).shape \in Freehands
<1>1. s.kind = "freehand" /\ s.points \in Seq(Points)
    BY ShapeIs
<1>2. Len(s.points) \in Nat /\ after + 1 \in 1..(Len(s.points) + 1)
    BY <1>1, LenProperties
<1> DEFINE e == [at |-> grab, handle |-> TRUE]
           q == InsertAt(s.points, after + 1, e)
<1>3. e \in Points
    BY DEF Points
<1> HIDE DEF e
<1>4. q \in Seq(Points) /\ Len(q) = Len(s.points) + 1
    BY <1>1, <1>2, <1>3, InsertAtIs
<1>5. InsertPointAt(s, after, grab).shape = Freehand(q)
    BY <1>1 DEF InsertPointAt, e
<1> HIDE DEF q
<1>6. q # <<>>
    BY <1>2, <1>4
<1> QED BY <1>4, <1>5, <1>6, ShapeIs

(* A handle moved.                                                         *)
LEMMA Moved ==
    ASSUME NEW s \in Pulleds \cup Freehands, NEW index, IsHandle(s, index), NEW to,
           s.kind = "pulled" => to \in Pull, s.kind = "freehand" => to \in Grid
    PROVE  /\ MoveHandle(s, index, to) \in Pulleds \cup Freehands
           /\ MoveHandle(s, index, to).kind = s.kind
           /\ s.kind = "pulled" => Len(MoveHandle(s, index, to).pulls) = Len(s.pulls)
<1>1. CASE s \in Pulleds
  <2>0. s.kind = "pulled" /\ s.pulls \in Seq(Pull) /\ s.pulls # <<>> /\ to \in Pull
    BY <1>1, ShapeIs
  <2> DEFINE q == [s.pulls EXCEPT ![index] = to]
  <2>1. MoveHandle(s, index, to) = [s EXCEPT !.pulls = q]
    BY <2>0 DEF MoveHandle
  <2>2. s.pulls \in [1..Len(s.pulls) -> Pull] /\ Len(s.pulls) \in Nat \ {0}
    BY <2>0, LenProperties, EmptySeq
  <2>3. q \in [1..Len(s.pulls) -> Pull]
    BY <2>0, <2>2
  <2> HIDE DEF q
  <2>4. q \in Seq(Pull) /\ Len(q) = Len(s.pulls) /\ q # <<>>
    BY <2>2, <2>3
  <2>5. [s EXCEPT !.pulls = q] = Pulled(Circle, q)
    BY <1>1 DEF Pulleds, Pulled
  <2> QED BY <2>0, <2>1, <2>4, <2>5, ShapeIs
<1>2. CASE s \in Freehands
  <2>0. s.kind = "freehand" /\ s.points \in Seq(Points) /\ s.points # <<>> /\ to \in Grid
    BY <1>2, ShapeIs
  <2> DEFINE pos == FreehandPosition(s.points, index)
             q == [s.points EXCEPT ![pos] = [@ EXCEPT !.at = to]]
  <2>1. MoveHandle(s, index, to) = [s EXCEPT !.points = q]
    BY <2>0 DEF MoveHandle
  <2>2. s.points \in [1..Len(s.points) -> Points] /\ Len(s.points) \in Nat \ {0}
    BY <2>0, LenProperties, EmptySeq
  <2>3. \A p \in Points : [p EXCEPT !.at = to] \in Points
    BY <2>0 DEF Points
  <2> HIDE DEF pos
  <2>4. q \in [1..Len(s.points) -> Points]
    BY <2>2, <2>3
  <2> HIDE DEF q
  <2>5. q \in Seq(Points) /\ q # <<>>
    BY <2>2, <2>4
  <2>6. [s EXCEPT !.points = q] = Freehand(q)
    BY <1>2 DEF Freehands, Freehand
  <2> QED BY <2>0, <2>1, <2>5, <2>6, ShapeIs
<1> QED BY <1>1, <1>2

(* A handle taken out.                                                     *)
LEMMA TakenOut ==
    ASSUME NEW s \in Pulleds \cup Freehands, NEW index, IsHandle(s, index), CanRemove(s)
    PROVE  /\ RemoveHandle(s, index) \in Shapes
           /\ RemoveHandle(s, index).kind = "pulled" =>
                 /\ s \in Pulleds /\ index \in 1..Len(s.pulls) /\ Len(s.pulls) > 1
                 /\ RemoveHandle(s, index) = Pulled(Circle, RemoveAt(s.pulls, index))
<1>1. CASE s \in Pulleds
  <2>0. s.kind = "pulled" /\ s.pulls \in Seq(Pull) /\ s.circle = Circle
        /\ Len(s.pulls) \in Nat /\ DOMAIN s.pulls = 1..Len(s.pulls)
    BY <1>1, ShapeIs, LenProperties
  <2>1. index \in 1..Len(s.pulls)
    <3>1. Handles(s) = 1..Len(s.pulls)
      BY <2>0 DEF Handles
    <3>2. Cardinality(Handles(s)) = Len(s.pulls)
      BY <2>0, <3>1, FS_Interval, SMTT(40)
    <3> QED BY <2>0, <3>2 DEF IsHandle
  <2>2. CASE Len(s.pulls) > 1
    <3> DEFINE q == RemoveAt(s.pulls, index)
    <3>1. RemoveHandle(s, index) = Pulled(Circle, q)
      BY <2>0, <2>2 DEF RemoveHandle
    <3>2. q \in Seq(Pull) /\ Len(q) = Len(s.pulls) - 1
      BY <2>0, <2>1, RemoveAtIs
    <3> HIDE DEF q
    <3>3. q # <<>>
      BY <2>0, <2>2, <3>2
    <3> QED BY <1>1, <2>1, <2>2, <3>1, <3>2, <3>3, ShapeIs DEF Shapes, q
  <2>3. CASE ~(Len(s.pulls) > 1)
    <3>1. RemoveHandle(s, index) = NoShape
      BY <2>0, <2>3 DEF RemoveHandle
    <3> QED BY <3>1, ShapeIs DEF Shapes
  <2> QED BY <2>2, <2>3
<1>2. CASE s \in Freehands
  <2>0. s.kind = "freehand" /\ s.points \in Seq(Points) /\ s = Freehand(s.points)
        /\ Len(s.points) \in Nat /\ DOMAIN s.points = 1..Len(s.points)
    BY <1>2, ShapeIs, LenProperties
  <2> DEFINE pos == FreehandPosition(s.points, index)  q == RemoveAt(s.points, pos)
  <2>1. pos \in 1..Len(s.points)
    BY <2>0, PositionExists
  <2>2. RemoveHandle(s, index) = Freehand(q)
    BY <2>0 DEF RemoveHandle
  <2> HIDE DEF pos
  <2>3. q \in Seq(Points) /\ Len(q) = Len(s.points) - 1
    BY <2>0, <2>1, RemoveAtIs
  <2>4. Len(s.points) > 1
    BY <2>0, MinPointsAssumption DEF CanRemove
  <2> HIDE DEF q
  <2>5. q # <<>>
    BY <2>0, <2>3, <2>4
  <2>6. Freehand(q).kind = "freehand"
    BY DEF Freehand
  <2> QED BY <2>2, <2>3, <2>5, <2>6, ShapeIs DEF Shapes
<1> QED BY <1>1, <1>2
-----------------------------------------------------------------------------
(* The invariant: what the variables hold, and what the stack stands for   *)
(* while simplify is at work; it is empty when simplify is done.           *)
ShapeInv ==
    /\ shape \in Shapes
    /\ line \in Seq(Grid)
    /\ thin \in [phase : {"called", "failed", "running", "done"}, tolerance : Nat,
                 keep : SUBSET (DOMAIN line), pending : Seq(Stretches)]
    /\ thin.phase \in {"running", "done"} =>
          line # <<>> /\ StackOK(thin.keep, thin.pending, thin.tolerance)
    /\ thin.phase = "done" => thin.pending = <<>>

(* A line on the grid is a line of places.                                 *)
LEMMA GridIsPlace == \A l \in Seq(Grid) : l \in Seq(Place)
<1>1. Grid \subseteq Place
    BY ShapeAssumption DEF Place
<1> QED BY <1>1, SeqMonotonic

(* It holds at first.                                                      *)
LEMMA InitShape == Init => ShapeInv
<1> SUFFICES ASSUME Init PROVE ShapeInv
    OBVIOUS
<1>1. line \in Seq(Grid)
  <2>1. PICK m \in 0..MaxLine : line \in [1..m -> Grid]
    BY DEF Init, Lines, SeqOf
  <2>2. m \in Nat
    BY ShapeAssumption
  <2> QED BY <2>1, <2>2
<1>2. thin \in [phase : {"called", "failed", "running", "done"}, tolerance : Nat,
                keep : SUBSET (DOMAIN line), pending : Seq(Stretches)]
      /\ thin.phase = "called"
    BY DEF Init, Idle
<1> QED BY <1>1, <1>2 DEF Init, ShapeInv, Shapes

(* What the loop does leaves the line as it is.                            *)
LEMMA SameLine ==
    ASSUME UNCHANGED line
    PROVE  /\ Stretches' = Stretches
           /\ \A keep, pending, t : StackOK(keep, pending, t)' = StackOK(keep, pending, t)
<1>1. Stretches' = Stretches
    BY DEF Stretches
<1>2. ASSUME NEW keep, NEW pending, NEW t
      PROVE  StackOK(keep, pending, t)' = StackOK(keep, pending, t)
  <2>1. \A a, b : Beyond(a, b, t)' = Beyond(a, b, t)
    BY DEF Beyond
  <2>2. Part(t)' = Part(t)
    BY DEF Part, Beyond, Farthest
  <2> QED BY <2>1, <2>2 DEF StackOK
<1> QED BY <1>1, <1>2

(* The loop begins anew with any tolerance.                                *)
LEMMA ThinningKeeps ==
    ASSUME ShapeInv, line # <<>>, NEW t \in Nat, thin' = Thinning(t),
           UNCHANGED <<shape, line>>
    PROVE  ShapeInv'
<1>1. line \in Seq(Place)
    BY GridIsPlace DEF ShapeInv
<1>2. /\ thin'.phase = "running" /\ thin'.tolerance = t /\ thin'.keep = {1, Len(line)}
      /\ thin'.pending = <<<<1, Len(line)>>>>
      /\ thin' = [phase |-> "running", tolerance |-> t, keep |-> {1, Len(line)},
                  pending |-> <<<<1, Len(line)>>>>]
    BY DEF Thinning
<1>3. /\ {1, Len(line)} \in SUBSET (DOMAIN line) /\ <<<<1, Len(line)>>>> \in Seq(Stretches)
      /\ StackOK({1, Len(line)}, <<<<1, Len(line)>>>>, t)
    BY <1>1, StackStarts
<1> DEFINE k == {1, Len(line)}  p == <<<<1, Len(line)>>>>
<1> HIDE DEF k, p
<1>4. /\ thin' \in [phase : {"called", "failed", "running", "done"}, tolerance : Nat,
                    keep : SUBSET (DOMAIN line), pending : Seq(Stretches)]
      /\ StackOK(thin'.keep, thin'.pending, thin'.tolerance)
    BY <1>2, <1>3 DEF k, p
<1> QED BY <1>2, <1>4, SameLine DEF ShapeInv

(* An idle loop.                                                           *)
LEMMA IdleKeeps ==
    ASSUME NEW phase \in {"called", "failed"}, thin' = Idle(phase),
           shape' \in Shapes, line' \in Seq(Grid)
    PROVE  ShapeInv'
<1>1. thin' \in [phase : {"called", "failed", "running", "done"}, tolerance : Nat,
                 keep : SUBSET (DOMAIN line'), pending : Seq(Stretches')]
      /\ thin'.phase \notin {"running", "done"}
    BY DEF Idle
<1> QED BY <1>1 DEF ShapeInv

(* One stretch looked at.                                                  *)
LEMMA ThinStepKeeps ==
    ASSUME ShapeInv, ThinStep
    PROVE  ShapeInv'
<1> DEFINE k == thin.keep  p == thin.pending  t == thin.tolerance  r == Last(p)
<1>1. line \in Seq(Place) /\ line # <<>> /\ t \in Nat /\ k \in SUBSET (DOMAIN line)
      /\ p \in Seq(Stretches) /\ p # <<>> /\ StackOK(k, p, t) /\ thin.phase = "running"
    BY GridIsPlace DEF ShapeInv, ThinStep
<1>2. PICK split : /\ split = Split(r[1], r[2])
                   /\ thin' = [thin EXCEPT !.keep = @ \cup split.keep,
                                           !.pending = Front(@) \o split.pending]
    BY DEF ThinStep
<1>3. /\ thin'.phase = "running" /\ thin'.tolerance = t
      /\ thin'.keep = k \cup split.keep /\ thin'.pending = Front(p) \o split.pending
      /\ thin' = [phase |-> "running", tolerance |-> t, keep |-> k \cup split.keep,
                  pending |-> Front(p) \o split.pending]
    BY <1>1, <1>2 DEF ShapeInv
<1>4. /\ k \cup split.keep \in SUBSET (DOMAIN line)
      /\ Front(p) \o split.pending \in Seq(Stretches)
      /\ StackOK(k \cup split.keep, Front(p) \o split.pending, t)
  <2> HIDE DEF k, p
  <2>1. Front(p) \in Seq(Stretches)
    BY <1>1, FrontIs
  <2>2. CASE Beyond(r[1], r[2], t) = {}
    <3>1. split.keep = {} /\ split.pending = <<>>
      BY <1>2, <2>2 DEF Split
    <3>2. k \cup split.keep = k /\ Front(p) \o split.pending = Front(p)
      BY <2>1, <3>1, ConcatEmptySeq
    <3>3. StackOK(k, Front(p), t)
      BY <1>1, <2>2, StackSettles
    <3> QED BY <1>1, <2>1, <3>2, <3>3
  <2>3. CASE Beyond(r[1], r[2], t) # {}
    <3> DEFINE i == Farthest(r[1], r[2], t)
    <3>1. split.keep = {i} /\ split.pending = <<<<r[1], i>>, <<i, r[2]>>>>
      BY <1>2, <2>3 DEF Split
    <3> QED BY <1>1, <2>3, <3>1, StackSplits
  <2> QED BY <2>2, <2>3
<1>5. UNCHANGED <<shape, line>>
    BY DEF ThinStep
<1>6. thin' \in [phase : {"called", "failed", "running", "done"}, tolerance : Nat,
                 keep : SUBSET (DOMAIN line), pending : Seq(Stretches)]
  <2> DEFINE kk == k \cup split.keep  pp == Front(p) \o split.pending
  <2> HIDE DEF kk, pp
  <2>1. thin' = [phase |-> "running", tolerance |-> t, keep |-> kk, pending |-> pp]
    BY <1>3 DEF kk, pp
  <2>2. kk \in SUBSET (DOMAIN line) /\ pp \in Seq(Stretches)
    BY <1>4 DEF kk, pp
  <2> QED BY <1>1, <2>1, <2>2
<1>7. StackOK(thin'.keep, thin'.pending, thin'.tolerance)
  <2> HIDE DEF k, p, t
  <2> QED BY <1>3, <1>4
<1> QED BY <1>1, <1>3, <1>5, <1>6, <1>7, SameLine DEF ShapeInv

(* The points kept, in their order: none of them is a handle.              *)
LEMMA ThinDoneKeeps ==
    ASSUME ShapeInv, ThinDone
    PROVE  ShapeInv'
<1>1. CASE Cardinality(thin.keep) < MinPoints
    BY <1>1, IdleKeeps DEF ThinDone, ShapeInv
<1>2. CASE ~(Cardinality(thin.keep) < MinPoints)
  <2> DEFINE index == [i \in DOMAIN line |-> i]
             points == [i \in DOMAIN Kept |-> [at |-> line[Kept[i]], handle |-> FALSE]]
  <2>0. line \in Seq(Grid) /\ Len(line) \in Nat /\ DOMAIN line = 1..Len(line)
        /\ 1 \in thin.keep /\ 1 \in DOMAIN line /\ \A i \in DOMAIN line : line[i] \in Grid
    <3>1. line \in Seq(Grid) /\ 1 \in thin.keep /\ thin.keep \in SUBSET (DOMAIN line)
      BY DEF ShapeInv, ThinDone, StackOK
    <3> QED BY <3>1, LenProperties, ElementOfSeq
  <2>1. index \in Seq(DOMAIN line) /\ 1 \in Range(index)
    <3>1. index \in Seq(DOMAIN line) /\ DOMAIN index = DOMAIN line
      BY <2>0
    <3>2. index[1] = 1
      BY <2>0
    <3> HIDE DEF index
    <3> QED BY <2>0, <3>1, <3>2 DEF Range
  <2>2. Kept \in Seq(DOMAIN line) /\ Range(Kept) = Range(index) \cap thin.keep
    <3> HIDE DEF index
    <3>1. /\ Those(index, thin.keep) \in Seq(DOMAIN line)
          /\ Range(Those(index, thin.keep)) = Range(index) \cap thin.keep
      BY <2>1, ThoseIs
    <3> QED BY <3>1 DEF Kept, index
  <2>3. Kept # <<>>
    <3>1. 1 \in Range(Kept)
      <4> HIDE DEF index
      <4> QED BY <2>0, <2>1, <2>2
    <3>2. SUFFICES ASSUME Kept = <<>> PROVE FALSE
      OBVIOUS
    <3>3. Range(<<>>) = {}
      BY DEF Range
    <3> QED BY <3>1, <3>2, <3>3
  <2>4. points \in Seq(Points) /\ points # <<>>
    <3>1. Len(Kept) \in Nat \ {0} /\ DOMAIN Kept = 1..Len(Kept)
          /\ \A i \in 1..Len(Kept) : Kept[i] \in DOMAIN line
      BY <2>2, <2>3, LenProperties, EmptySeq, ElementOfSeq
    <3>2. \A i \in 1..Len(Kept) : [at |-> line[Kept[i]], handle |-> FALSE] \in Points
      BY <2>0, <3>1 DEF Points
    <3>3. points \in [1..Len(Kept) -> Points]
      BY <3>1, <3>2
    <3> HIDE DEF points
    <3>4. points \in Seq(Points) /\ Len(points) = Len(Kept)
      BY <3>1, <3>3
    <3> QED BY <3>1, <3>4
  <2>5. shape' = Freehand(points) /\ thin' = [thin EXCEPT !.phase = "done"] /\ line' = line
        /\ thin.pending = <<>> /\ thin.phase = "running"
    BY <1>2 DEF ThinDone
  <2> HIDE DEF points
  <2>6. shape' \in Shapes
    BY <2>4, <2>5, ShapeIs DEF Shapes
  <2>7. /\ thin' \in [phase : {"called", "failed", "running", "done"}, tolerance : Nat,
                      keep : SUBSET (DOMAIN line), pending : Seq(Stretches)]
        /\ thin'.keep = thin.keep /\ thin'.pending = thin.pending
        /\ thin'.tolerance = thin.tolerance /\ thin'.phase = "done"
    BY <2>5 DEF ShapeInv
  <2>8. line # <<>> /\ StackOK(thin.keep, thin.pending, thin.tolerance)
    BY <2>5 DEF ShapeInv
  <2>9. StackOK(thin'.keep, thin'.pending, thin'.tolerance) /\ thin'.pending = <<>>
    BY <2>5, <2>7, <2>8
  <2> QED BY <2>5, <2>6, <2>7, <2>8, <2>9, SameLine DEF ShapeInv
<1> QED BY <1>1, <1>2

(* An edit of a shape leaves no line and no stack.                         *)
LEMMA EditKeeps ==
    ASSUME shape' \in Shapes, Returned
    PROVE  ShapeInv'
<1>1. line' \in Seq(Grid) /\ thin' = Idle("called")
    BY DEF Returned
<1> QED BY <1>1, IdleKeeps

(* A shape is of the kind it says.                                         *)
LEMMA ByKind ==
    ASSUME NEW s \in Shapes
    PROVE  /\ s.kind = "pulled" => s \in Pulleds
           /\ s.kind = "freehand" => s \in Freehands
           /\ s.kind \in {"pulled", "freehand"} => s \in Pulleds \cup Freehands
    BY ShapeIs DEF Shapes

(* The press on the edge of pulled points is in a gap of theirs.           *)
LEMMA InsertPullIs ==
    ASSUME shape \in Shapes, NEW grab \in Pull, InsertPull(grab)
    PROVE  /\ shape \in Pulleds
           /\ \E k \in DOMAIN PulledRing(shape.pulls) :
                 LET ring == PulledRing(shape.pulls)
                 IN /\ (grab.bearing - ring[k].bearing) % Turn
                          < (After(ring, k).bearing - ring[k].bearing) % Turn
                    /\ ring[k].gap \in DOMAIN shape.pulls
                    /\ shape' = Pulled(Circle, InsertAt(shape.pulls, ring[k].gap + 1, grab))
           /\ shape' \in Pulleds
<1> DEFINE ring == PulledRing(shape.pulls)
<1>1. shape \in Pulleds
    BY ByKind DEF InsertPull
<1>2. shape.pulls \in Seq(Pull) /\ shape.pulls # <<>>
    BY <1>1, ShapeIs
<1>3. PICK k \in DOMAIN ring :
             /\ (grab.bearing - ring[k].bearing) % Turn
                  < (After(ring, k).bearing - ring[k].bearing) % Turn
             /\ shape' = InsertPointAt(shape, ring[k].gap, grab).shape
    BY DEF InsertPull
<1>4. ring[k].gap \in DOMAIN shape.pulls
  <2>1. ring \in Seq(Entries(Len(shape.pulls)))
    BY <1>2, RingType
  <2> HIDE DEF ring
  <2>2. ring[k] \in Entries(Len(shape.pulls))
    BY <2>1, LenProperties, ElementOfSeq
  <2>3. ring[k].gap \in 1..Len(shape.pulls)
    BY <2>2 DEF Entries
  <2> QED BY <1>2, <2>3, LenProperties
<1> HIDE DEF ring
<1>5. shape' = Pulled(Circle, InsertAt(shape.pulls, ring[k].gap + 1, grab))
      /\ shape' \in Pulleds
    BY <1>1, <1>3, <1>4, PullInserted
<1> QED BY <1>1, <1>3, <1>4, <1>5 DEF ring

(* Every step keeps the invariant.                                         *)
LEMMA NextShape == ShapeInv /\ [Next]_vars => ShapeInv'
<1> SUFFICES ASSUME ShapeInv, [Next]_vars PROVE ShapeInv'
    OBVIOUS
<1>0. shape \in Shapes /\ line \in Seq(Grid)
    BY DEF ShapeInv
<1>1. CASE StartThin
  <2>1. CASE Len(line) < MinPoints
    BY <1>0, <1>1, <2>1, IdleKeeps DEF StartThin
  <2>2. CASE ~(Len(line) < MinPoints)
    BY <1>1, <2>2, ThinningKeeps, ShapeAssumption DEF StartThin
  <2> QED BY <2>1, <2>2
<1>2. CASE ThinStep
    BY <1>2, ThinStepKeeps
<1>3. CASE ThinAgain
  <2>1. thin.tolerance \in Nat /\ line # <<>> /\ thin' = Thinning(2 * thin.tolerance)
        /\ UNCHANGED <<shape, line>>
    BY <1>3 DEF ThinAgain, ShapeInv
  <2>2. 2 * thin.tolerance \in Nat
    BY <2>1
  <2> QED BY <2>1, <2>2, ThinningKeeps
<1>4. CASE ThinDone
    BY <1>4, ThinDoneKeeps
<1>5. ASSUME NEW grab \in Pull, StartPull(grab) PROVE ShapeInv'
  <2>1. <<grab>> \in Seq(Pull) /\ <<grab>> # <<>>
    OBVIOUS
  <2>2. shape' \in Shapes
    BY <1>5, <2>1, ShapeIs DEF StartPull, Shapes
  <2> QED BY <1>5, <2>2, EditKeeps DEF StartPull
<1>6. ASSUME NEW grab \in Pull, InsertPull(grab) PROVE ShapeInv'
  <2>1. shape' \in Shapes
    BY <1>0, <1>6, InsertPullIs DEF Shapes
  <2> QED BY <1>6, <2>1, EditKeeps DEF InsertPull
<1>7. ASSUME NEW grab \in Grid, InsertCorner(grab) PROVE ShapeInv'
  <2>1. shape \in Freehands
    BY <1>0, <1>7, ByKind DEF InsertCorner
  <2>2. shape.points \in Seq(Points) /\ shape.points # <<>>
    BY <2>1, ShapeIs
  <2>3. Outline \in Seq(Place) /\ DOMAIN Outline = DOMAIN shape.points
        /\ Len(Outline) = Len(shape.points)
    BY <2>2, CornersAre DEF Outline
  <2>4. Outline # <<>> /\ grab \in Place
    <3>1. Len(shape.points) # 0
      BY <2>2, EmptySeq
    <3> QED BY <2>3, <3>1, EmptySeq, ShapeAssumption DEF Place
  <2>5. NearestSegment(Outline, grab) \in DOMAIN shape.points
    BY <2>3, <2>4, NearestIs
  <2>6. shape' \in Shapes
    BY <1>7, <2>1, <2>5, CornerInserted DEF InsertCorner, Shapes
  <2> QED BY <1>7, <2>6, EditKeeps DEF InsertCorner
<1>8. ASSUME NEW index, Move(index) PROVE ShapeInv'
  <2>1. PICK to : /\ shape.kind = "pulled" => to \in Pull
                  /\ shape.kind = "freehand" => to \in Grid
                  /\ shape.kind \in {"pulled", "freehand"}
                  /\ shape' = MoveHandle(shape, index, to)
    BY <1>8 DEF Move
  <2>2. shape \in Pulleds \cup Freehands
    BY <1>0, <2>1, ByKind
  <2>3. shape' \in Shapes
    BY <1>8, <2>1, <2>2, Moved DEF Move, Shapes
  <2> QED BY <1>8, <2>3, EditKeeps DEF Move
<1>9. ASSUME NEW index, TakeOut(index) PROVE ShapeInv'
  <2>1. shape \in Pulleds \cup Freehands
    BY <1>0, <1>9, ByKind DEF TakeOut, CanRemove
  <2>2. shape' \in Shapes
    BY <1>9, <2>1, TakenOut DEF TakeOut
  <2> QED BY <1>9, <2>2, EditKeeps DEF TakeOut
<1>10. CASE UNCHANGED vars
  <2>1. UNCHANGED <<shape, line, thin>>
    BY <1>10 DEF vars
  <2> QED BY <2>1, SameLine DEF ShapeInv
<1> QED BY <1>1, <1>2, <1>3, <1>4, <1>5, <1>6, <1>7, <1>8, <1>9, <1>10 DEF Next, Thin

(* What the variables hold in every state, and what simplify's stack       *)
(* stands for in each.                                                     *)
THEOREM ShapeInvariant == Spec => []ShapeInv
    BY InitShape, NextShape, PTL DEF Spec

(* What simplify keeps is what the recursion keeps, and what it leaves out *)
(* is no further than its last tolerance from what it keeps, for any line. *)
THEOREM WithinToleranceAlways == Spec => []WithinTolerance
<1>1. ShapeInv => WithinTolerance
  <2> SUFFICES ASSUME ShapeInv, thin.phase = "done" PROVE WithinTolerance
    BY DEF WithinTolerance
  <2>1. line \in Seq(Place) /\ thin.tolerance \in Nat /\ thin.keep \in SUBSET (DOMAIN line)
        /\ StackOK(thin.keep, <<>>, thin.tolerance)
    BY GridIsPlace DEF ShapeInv
  <2> QED BY <2>1, EmptyStack DEF WithinTolerance
<1> QED BY <1>1, ShapeInvariant, PTL
-----------------------------------------------------------------------------
(* Bearings.                                                               *)
Bearings == 0..(Turn - 1)

(* The remainder by a full turn of what is less than two away.             *)
LEMMA TurnIs ==
    /\ \A b, c \in Bearings : (c - b) % Turn = IF c >= b THEN c - b ELSE c - b + Turn
    /\ \A n \in Int : (0 <= n /\ n < 2 * Turn) => n % Turn = IF n < Turn THEN n ELSE n - Turn
<1>0. Turn \in Nat /\ Turn > 0
    BY AnglesAre
<1>1. \A t \in Nat \ {0}, n \in Int :
         /\ (0 <= n /\ n < t) => n % t = n
         /\ (t <= n /\ n < 2 * t) => n % t = n - t
         /\ (-t < n /\ n < 0) => n % t = n + t
  <2>1. \A t \in Nat \ {0}, n \in Int : (0 <= n /\ n < t) => n % t = n
    BY Z3
  <2>2. \A t \in Nat \ {0}, n \in Int : (t <= n /\ n < 2 * t) => n % t = n - t
    BY Z3
  <2>3. \A t \in Nat \ {0}, n \in Int : (-t < n /\ n < 0) => n % t = n + t
    BY Z3
  <2> QED BY <2>1, <2>2, <2>3
<1>2. ASSUME NEW b \in Bearings, NEW c \in Bearings
      PROVE  (c - b) % Turn = IF c >= b THEN c - b ELSE c - b + Turn
  <2>1. /\ c - b \in Int /\ (c >= b => 0 <= c - b /\ c - b < Turn)
        /\ (~(c >= b) => -Turn < c - b /\ c - b < 0)
    BY <1>0 DEF Bearings
  <2> QED BY <1>0, <1>1, <2>1
<1>3. ASSUME NEW n \in Int, 0 <= n, n < 2 * Turn
      PROVE  n % Turn = IF n < Turn THEN n ELSE n - Turn
    BY <1>0, <1>1, <1>3
<1> QED BY <1>2, <1>3

(* How far round from a bearing a thing is.                                *)
Off(base, e) == (e.bearing - base) % Turn

(* Things that have a bearing.                                             *)
Borne(S) == \A e \in S : e.bearing \in Bearings

(* The things of q come one after the other from lo until hi.              *)
Rising(q, base, lo, hi) ==
    /\ \A k \in DOMAIN q : lo <= Off(base, q[k]) /\ Off(base, q[k]) < hi
    /\ \A j, k \in DOMAIN q : j < k => Off(base, q[j]) < Off(base, q[k])

(* They go round the circle, from the first of them.                       *)
Going(s) == \A j, k \in DOMAIN s :
                j < k => Off(s[1].bearing, s[j]) < Off(s[1].bearing, s[k])

(* An offset is a bearing.                                                 *)
LEMMA OffIs ==
    ASSUME NEW base \in Bearings, NEW e, e.bearing \in Bearings
    PROVE  /\ Off(base, e) \in Bearings
           /\ Off(base, e) = IF e.bearing >= base THEN e.bearing - base
                             ELSE e.bearing - base + Turn
<1>1. Off(base, e) = IF e.bearing >= base THEN e.bearing - base ELSE e.bearing - base + Turn
    BY TurnIs DEF Off
<1> QED BY <1>1, AnglesAre DEF Bearings

(* A little further round.                                                 *)
LEMMA OffPlus ==
    ASSUME NEW base \in Bearings, NEW b \in Bearings, NEW z \in Nat,
           ((b - base) % Turn) + z < Turn
    PROVE  /\ (b + z) % Turn \in Bearings
           /\ (((b + z) % Turn) - base) % Turn = ((b - base) % Turn) + z
<1> DEFINE m == (b + z) % Turn  o == (b - base) % Turn
<1>0. Turn \in Nat /\ Turn > 0 /\ base \in 0..(Turn - 1) /\ b \in 0..(Turn - 1)
    BY AnglesAre DEF Bearings
<1>1. o = IF b >= base THEN b - base ELSE b - base + Turn
    BY TurnIs
<1> HIDE DEF o, m
<1>2. o + z < Turn
    BY DEF o
<1>3. m = IF b + z < Turn THEN b + z ELSE b + z - Turn
  <2>1. b + z \in Int /\ 0 <= b + z /\ b + z < 2 * Turn
    BY <1>0, <1>1, <1>2
  <2>2. PICK n \in Int : n = b + z
    BY <2>1
  <2>3. n % Turn = IF n < Turn THEN n ELSE n - Turn
    BY <2>1, <2>2, TurnIs
  <2> QED BY <1>0, <2>2, <2>3 DEF m
<1> HIDE DEF m
<1>4. m \in Bearings
    BY <1>0, <1>1, <1>2, <1>3 DEF Bearings
<1>5. (m - base) % Turn = IF m >= base THEN m - base ELSE m - base + Turn
    BY <1>4, TurnIs
<1>6. (m - base) % Turn = o + z
    BY <1>0, <1>1, <1>2, <1>3, <1>5
<1> QED BY <1>4, <1>6 DEF m, o

(* What rises up to where the other begins to rise.                        *)
LEMMA RisingJoin ==
    ASSUME NEW S, Borne(S), NEW base \in Bearings, NEW q \in Seq(S), NEW r \in Seq(S),
           NEW lo \in Int, NEW mid \in Int, NEW hi \in Int, lo <= mid, mid <= hi,
           Rising(q, base, lo, mid), Rising(r, base, mid, hi)
    PROVE  q \o r \in Seq(S) /\ Rising(q \o r, base, lo, hi)
<1> DEFINE s == q \o r  m == Len(q)  n == Len(r)
<1>0. /\ m \in Nat /\ n \in Nat /\ DOMAIN q = 1..m /\ DOMAIN r = 1..n
      /\ s \in Seq(S) /\ DOMAIN s = 1..(m + n)
      /\ \A k \in 1..(m + n) : s[k] = IF k <= m THEN q[k] ELSE r[k - m]
  <2>1. m \in Nat /\ n \in Nat /\ DOMAIN q = 1..m /\ DOMAIN r = 1..n
    BY LenProperties
  <2>2. /\ s \in Seq(S) /\ Len(s) = m + n
        /\ \A k \in 1..(m + n) : s[k] = IF k <= m THEN q[k] ELSE r[k - m]
    BY ConcatProperties
  <2>3. DOMAIN s = 1..(m + n)
    BY <2>2, LenProperties
  <2> QED BY <2>1, <2>2, <2>3
<1> HIDE DEF s, m, n
<1>1. ASSUME NEW k \in 1..(m + n)
      PROVE  /\ Off(base, s[k]) \in Int
             /\ k <= m => k \in DOMAIN q /\ s[k] = q[k]
             /\ ~(k <= m) => k - m \in DOMAIN r /\ s[k] = r[k - m]
  <2>1. s[k] \in S
    BY <1>0, LenProperties, ElementOfSeq
  <2>2. Off(base, s[k]) \in Int
    BY <2>1, OffIs, AnglesAre DEF Borne, Bearings
  <2> QED BY <1>0, <2>2
<1>2. ASSUME NEW k \in 1..(m + n) PROVE lo <= Off(base, s[k]) /\ Off(base, s[k]) < hi
  <2>1. CASE k <= m
    <3>1. lo <= Off(base, s[k]) /\ Off(base, s[k]) < mid
      BY <1>1, <2>1 DEF Rising
    <3> QED BY <1>1, <3>1
  <2>2. CASE ~(k <= m)
    <3>1. mid <= Off(base, s[k]) /\ Off(base, s[k]) < hi
      BY <1>1, <2>2 DEF Rising
    <3> QED BY <1>1, <3>1
  <2> QED BY <2>1, <2>2
<1>3. ASSUME NEW j \in 1..(m + n), NEW k \in 1..(m + n), j < k
      PROVE  Off(base, s[j]) < Off(base, s[k])
  <2>1. CASE k <= m
    <3>1. j <= m
      BY <1>0, <1>3, <2>1
    <3> QED BY <1>1, <1>3, <2>1, <3>1 DEF Rising
  <2>2. CASE ~(j <= m)
    <3>1. ~(k <= m) /\ j - m < k - m
      BY <1>0, <1>3, <2>2
    <3> QED BY <1>1, <2>2, <3>1 DEF Rising
  <2>3. CASE j <= m /\ ~(k <= m)
    <3>1. Off(base, s[j]) < mid /\ mid <= Off(base, s[k])
      BY <1>1, <2>3 DEF Rising
    <3> QED BY <1>1, <3>1
  <2> QED BY <2>1, <2>2, <2>3
<1> QED BY <1>0, <1>2, <1>3 DEF s, Rising

(* One thing rises, and nothing does.                                      *)
LEMMA RisingOne ==
    ASSUME NEW base \in Bearings, NEW e, e.bearing \in Bearings, NEW lo \in Int, NEW hi \in Int
    PROVE  /\ (lo <= Off(base, e) /\ Off(base, e) < hi) => Rising(<<e>>, base, lo, hi)
           /\ Rising(<<>>, base, lo, hi)
<1>1. DOMAIN <<e>> = {1} /\ <<e>>[1] = e /\ DOMAIN <<>> = {}
    OBVIOUS
<1>2. \A j, k \in {1} : ~(j < k)
    OBVIOUS
<1> QED BY <1>1, <1>2 DEF Rising

(* How far round from a pull the next one is: all the way round if there   *)
(* is no other.                                                            *)
Width(pulls, i) ==
    IF (After(pulls, i).bearing - pulls[i].bearing) % Turn = 0 THEN Turn
    ELSE (After(pulls, i).bearing - pulls[i].bearing) % Turn

(* The stretch of a pull begins with the pull, and goes round from it up   *)
(* to where the next pull is.                                              *)
LEMMA StretchRises ==
    ASSUME NEW pulls \in Seq(Pull), NEW i \in DOMAIN pulls, NEW base \in Bearings,
           NEW w \in Nat \ {0}, Off(base, pulls[i]) + w <= Turn,
           w = Width(pulls, i)
    PROVE  /\ Stretch(pulls, i) # <<>>
           /\ Stretch(pulls, i)[1].bearing = pulls[i].bearing
           /\ \A k \in DOMAIN Stretch(pulls, i) : Stretch(pulls, i)[k].gap = i
           /\ Rising(Stretch(pulls, i), base, Off(base, pulls[i]), Off(base, pulls[i]) + w)
<1> DEFINE S == [bearing : Bearings, gap : {i}]
           here == pulls[i]
           next == After(pulls, i)
           b == here.bearing
           c == here.cone
           nc == next.cone
           o == Off(base, here)
           from == b + c
           to == b + w - nc
           E(a) == [bearing |-> a % Turn, gap |-> i]
           count == (to - from - 1) \div ArcStep
           pull == <<[bearing |-> b, gap |-> i]>>
           first == IF c > 0 THEN <<E(from)>> ELSE <<>>
           mids == [k \in 1..count |-> E(from + k * ArcStep)]
           last == IF nc > 0 THEN <<E(to)>> ELSE <<>>
<1>0. /\ Turn \in Nat /\ Turn > 0 /\ ArcStep \in Nat /\ ArcStep > 0
      /\ b \in Bearings /\ c \in Nat /\ nc \in Nat /\ o \in Bearings
      /\ b \in Nat /\ o \in Nat /\ o + w <= Turn
  <2>1. here \in Pull /\ next \in Pull
    BY AfterIs, ElementOfSeq, LenProperties
  <2>2. b \in Bearings /\ c \in Nat /\ nc \in Nat
    BY <2>1, AnglesAre DEF Bearings
  <2>3. o \in Bearings
    BY <2>2, OffIs
  <2> QED BY <2>2, <2>3, AnglesAre DEF Bearings
<1>1. Stretch(pulls, i) = IF to <= from THEN pull ELSE pull \o first \o mids \o last
    BY DEF Stretch, Width
<1>2. Borne(S) /\ o = (b - base) % Turn
    BY DEF Borne, Off
<1> HIDE DEF o, c, nc, b
<1>3. ASSUME NEW z \in Nat, z < w
      PROVE  E(b + z) \in S /\ E(b + z).bearing \in Bearings /\ Off(base, E(b + z)) = o + z
  <2>1. ((b - base) % Turn) + z < Turn
    BY <1>0, <1>2, <1>3
  <2>2. (b + z) % Turn \in Bearings /\ (((b + z) % Turn) - base) % Turn = ((b - base) % Turn) + z
    BY <1>0, <2>1, OffPlus
  <2> QED BY <1>2, <2>2 DEF Off
<1> DEFINE e == [bearing |-> b, gap |-> i]
<1>4. /\ pull \in Seq(S) /\ pull # <<>> /\ Len(pull) = 1 /\ pull[1].bearing = b
      /\ Rising(pull, base, o, o + 1) /\ Rising(pull, base, o, o + w)
  <2>1. e \in S /\ e.bearing \in Bearings /\ Off(base, e) = o
    BY <1>0, <1>2 DEF Off
  <2>2. o <= o /\ o < o + 1 /\ o < o + w /\ o \in Int /\ o + 1 \in Int /\ o + w \in Int
    BY <1>0
  <2> HIDE DEF e, S
  <2>3. Rising(<<e>>, base, o, o + 1) /\ Rising(<<e>>, base, o, o + w)
    BY <2>1, <2>2, RisingOne
  <2>4. <<e>> \in Seq(S) /\ <<e>> # <<>> /\ Len(<<e>>) = 1 /\ <<e>>[1] = e
    BY <2>1
  <2>5. pull = <<e>> /\ e.bearing = b
    BY DEF e
  <2> HIDE DEF pull
  <2> QED BY <2>3, <2>4, <2>5
<1> HIDE DEF e
<1>5. CASE to <= from
  <2>1. Stretch(pulls, i) = pull
    BY <1>1, <1>5
  <2>2. \A k \in DOMAIN pull : pull[k].gap = i
    OBVIOUS
  <2> HIDE DEF pull
  <2> QED BY <1>4, <2>1, <2>2 DEF o, b
<1>6. CASE ~(to <= from)
  <2>0. c + nc < w /\ from = b + c /\ to = b + (w - nc) /\ w - nc \in Nat
    BY <1>0, <1>6
  <2>1. first \in Seq(S) /\ Rising(first, base, o + 1, o + c + 1)
    <3>1. CASE c > 0
      <4>1. E(from) \in S /\ E(from).bearing \in Bearings /\ Off(base, E(from)) = o + c
        <5>1. c < w
          BY <1>0, <2>0
        <5> HIDE DEF E, S
        <5> QED BY <1>0, <1>3, <5>1
      <4>2. o + 1 <= o + c /\ o + c < o + c + 1 /\ o + 1 \in Int /\ o + c + 1 \in Int
        BY <1>0, <3>1
      <4>3. first = <<E(from)>>
        BY <3>1
      <4> HIDE DEF E, S, first
      <4>4. Rising(<<E(from)>>, base, o + 1, o + c + 1) /\ <<E(from)>> \in Seq(S)
        BY <4>1, <4>2, RisingOne
      <4> QED BY <4>3, <4>4
    <3>2. CASE ~(c > 0)
      <4>1. first = <<>>
        BY <3>2
      <4>2. o + 1 \in Int /\ o + c + 1 \in Int
        BY <1>0
      <4> HIDE DEF first, S
      <4>3. \A f \in Int, g \in Int : Rising(<<>>, base, f, g)
        BY DEF Rising
      <4> QED BY <4>1, <4>2, <4>3
    <3> QED BY <3>1, <3>2
  <2>2. mids \in Seq(S) /\ Rising(mids, base, o + c + 1, o + (w - nc))
    <3> DEFINE rest == to - from - 1
    <3>0. rest \in Nat /\ rest = w - nc - c - 1
      BY <1>0, <1>6, SMTT(60)
    <3>1. count \in Nat /\ \A k \in 1..count : k * ArcStep \in Nat /\ k * ArcStep >= 1 /\ k * ArcStep <= rest
      <4>1. \A r \in Nat, d \in Nat \ {0} : r \div d \in Nat
        BY Z3
      <4>2. \A r \in Nat, d \in Nat \ {0}, k \in Nat : k <= r \div d => k * d <= r
        BY Z3
      <4>3. \A k \in Nat, d \in Nat \ {0} : k >= 1 => k * d \in Nat /\ k * d >= 1
        BY Z3
      <4> HIDE DEF rest
      <4>4. count = rest \div ArcStep
        BY DEF rest
      <4> HIDE DEF count
      <4>7. rest \in Nat /\ ArcStep \in Nat \ {0}
        BY <1>0, <3>0
      <4>8. rest \div ArcStep \in Nat
        BY <4>1, <4>7
      <4>5. count \in Nat
        BY <4>4, <4>8
      <4>6. \A k \in 1..count : k * ArcStep <= rest
        BY <4>2, <4>4, <4>5, <4>7
      <4> QED BY <4>3, <4>5, <4>6, <4>7
    <3>2. \A j, k \in 1..count : j < k => j * ArcStep < k * ArcStep
      <4>1. \A j, k \in Nat, d \in Nat \ {0} : j < k => j * d < k * d
        BY Z3
      <4> HIDE DEF count
      <4> QED BY <1>0, <3>1, <4>1
    <3> HIDE DEF count, rest
    <3>3. ASSUME NEW k \in 1..count
          PROVE  E(from + k * ArcStep) \in S /\ Off(base, E(from + k * ArcStep)) = o + (c + k * ArcStep)
      <4> DEFINE step == k * ArcStep  z == c + step
      <4>0. step \in Nat /\ step <= rest
        BY <3>1
      <4> HIDE DEF step
      <4>1. z \in Nat /\ z < w
        <5>1. rest = w - nc - c - 1 /\ c \in Nat /\ nc \in Nat /\ rest \in Nat
          BY <1>0, <3>0
        <5> QED BY <4>0, <5>1
      <4>2. from + step = b + z
        BY <1>0, <2>0, <4>0
      <4> HIDE DEF z, E, S, from
      <4>3. E(b + z) \in S /\ Off(base, E(b + z)) = o + z
        BY <1>3, <4>1
      <4> QED BY <4>2, <4>3 DEF z, step
    <3>4. mids \in [1..count -> S] /\ \A k \in 1..count : mids[k] = E(from + k * ArcStep)
      <4> HIDE DEF E, S, from
      <4> QED BY <3>3
    <3> HIDE DEF mids, E, from
    <3>5. mids \in Seq(S) /\ DOMAIN mids = 1..count
      <4> HIDE DEF S
      <4> QED BY <3>1, <3>4
    <3>6. \A k \in 1..count : Off(base, mids[k]) = o + (c + k * ArcStep)
      BY <3>3, <3>4
    <3>7. \A k \in 1..count : o + c + 1 <= Off(base, mids[k]) /\ Off(base, mids[k]) < o + (w - nc)
      <4>1. ASSUME NEW k \in 1..count
            PROVE  o + c + 1 <= Off(base, mids[k]) /\ Off(base, mids[k]) < o + (w - nc)
        <5> DEFINE step == k * ArcStep
        <5>1. step \in Nat /\ step >= 1 /\ step <= rest /\ Off(base, mids[k]) = o + (c + step)
          BY <3>1, <3>6
        <5>2. rest = w - nc - c - 1 /\ c \in Nat /\ nc \in Nat /\ rest \in Nat /\ o \in Nat
          BY <1>0, <3>0
        <5> HIDE DEF step
        <5> QED BY <5>1, <5>2
      <4> QED BY <4>1
    <3>8. \A j, k \in 1..count : j < k => Off(base, mids[j]) < Off(base, mids[k])
      <4>1. ASSUME NEW j \in 1..count, NEW k \in 1..count, j < k
            PROVE  Off(base, mids[j]) < Off(base, mids[k])
        <5> DEFINE before == j * ArcStep  step == k * ArcStep
        <5>1. /\ step \in Nat /\ before \in Nat /\ before < step
              /\ Off(base, mids[j]) = o + (c + before) /\ Off(base, mids[k]) = o + (c + step)
          BY <3>1, <3>2, <3>6, <4>1
        <5> HIDE DEF step, before
        <5> QED BY <1>0, <5>1
      <4> QED BY <4>1
    <3> QED BY <3>5, <3>7, <3>8 DEF Rising
  <2>3. last \in Seq(S) /\ Rising(last, base, o + (w - nc), o + w)
    <3>1. CASE nc > 0
      <4>1. E(to) \in S /\ E(to).bearing \in Bearings /\ Off(base, E(to)) = o + (w - nc)
        <5>1. w - nc \in Nat /\ w - nc < w /\ to = b + (w - nc)
          BY <1>0, <2>0, <3>1
        <5> HIDE DEF to, E, S
        <5> QED BY <1>3, <5>1
      <4>2. /\ o + (w - nc) <= o + (w - nc) /\ o + (w - nc) < o + w
            /\ o + (w - nc) \in Int /\ o + w \in Int
        BY <1>0, <3>1
      <4>3. last = <<E(to)>>
        BY <3>1
      <4> HIDE DEF E, S, last, to
      <4>4. Rising(<<E(to)>>, base, o + (w - nc), o + w) /\ <<E(to)>> \in Seq(S)
        BY <4>1, <4>2, RisingOne
      <4> QED BY <4>3, <4>4
    <3>2. CASE ~(nc > 0)
      <4>1. last = <<>>
        BY <3>2
      <4> HIDE DEF last, S
      <4>2. \A f \in Int, g \in Int : Rising(<<>>, base, f, g)
        BY DEF Rising
      <4>3. o + (w - nc) \in Int /\ o + w \in Int
        BY <1>0, SMTT(60)
      <4> QED BY <4>1, <4>2, <4>3
    <3> QED BY <3>1, <3>2
  <2>4. Stretch(pulls, i) = pull \o first \o mids \o last
    BY <1>1, <1>6
  <2> HIDE DEF pull, first, mids, last, S
  <2>5. pull \o first \in Seq(S) /\ Rising(pull \o first, base, o, o + c + 1)
    <3>1. o \in Int /\ o + 1 \in Int /\ o + c + 1 \in Int /\ o <= o + 1 /\ o + 1 <= o + c + 1
      BY <1>0
    <3> QED BY <1>2, <1>4, <2>1, <3>1, RisingJoin
  <2>6. /\ pull \o first \o mids \in Seq(S)
        /\ Rising(pull \o first \o mids, base, o, o + (w - nc))
    <3>1. o \in Int /\ o + c + 1 \in Int /\ o + (w - nc) \in Int /\ o <= o + c + 1
          /\ o + c + 1 <= o + (w - nc)
      BY <1>0, <2>0
    <3> QED BY <1>2, <2>2, <2>5, <3>1, RisingJoin
  <2>7. /\ pull \o first \o mids \o last \in Seq(S)
        /\ Rising(pull \o first \o mids \o last, base, o, o + w)
    <3>1. o \in Int /\ o + (w - nc) \in Int /\ o + w \in Int /\ o <= o + (w - nc)
          /\ o + (w - nc) <= o + w
      BY <1>0, <2>0, SMTT(60)
    <3> QED BY <1>2, <2>3, <2>6, <3>1, RisingJoin
  <2>8. \A q, r \in Seq(S) : q # <<>> => (q \o r) # <<>> /\ (q \o r)[1] = q[1]
    <3>1. ASSUME NEW q \in Seq(S), NEW r \in Seq(S), q # <<>>
          PROVE  (q \o r) # <<>> /\ (q \o r)[1] = q[1]
      <4>1. Len(q) \in Nat \ {0} /\ Len(r) \in Nat
        BY <3>1, EmptySeq, LenProperties
      <4>2. Len(q \o r) = Len(q) + Len(r) /\ (q \o r)[1] = q[1]
        BY <4>1, ConcatProperties
      <4>3. Len(q \o r) # 0
        BY <4>1, <4>2
      <4> QED BY <4>2, <4>3, EmptySeq
    <3> QED BY <3>1
  <2> DEFINE s == pull \o first \o mids \o last
  <2>9. s # <<>> /\ s[1] = pull[1]
    <3>1. pull \o first # <<>> /\ (pull \o first)[1] = pull[1]
      BY <1>4, <2>1, <2>8
    <3>2. pull \o first \o mids # <<>> /\ (pull \o first \o mids)[1] = pull[1]
      BY <2>2, <2>5, <2>8, <3>1
    <3> QED BY <2>3, <2>6, <2>8, <3>2
  <2>10. \A k \in DOMAIN s : s[k].gap = i
    <3>1. s \in Seq(S)
      BY <2>7
    <3> HIDE DEF s
    <3>2. \A k \in DOMAIN s : s[k] \in S
      BY <3>1, LenProperties, ElementOfSeq
    <3> QED BY <3>2 DEF S
  <2>11. s[1].bearing = b
    BY <1>4, <2>9
  <2> HIDE DEF s
  <2> QED BY <2>4, <2>7, <2>9, <2>10, <2>11 DEF s, o, b
<1> QED BY <1>5, <1>6

(* How far round from a bearing another is.                                *)
From(b, c) == (c - b) % Turn

(* From one bearing to another by way of the base.                         *)
LEMMA TurnBetween ==
    ASSUME NEW base \in Bearings, NEW b \in Bearings, NEW c \in Bearings
    PROVE  /\ From(base, b) \in Bearings /\ From(b, c) \in Bearings
           /\ From(base, b) <= From(base, c) => From(b, c) = From(base, c) - From(base, b)
           /\ From(base, b) # 0 => From(b, base) = Turn - From(base, b)
           /\ From(base, b) = 0 => From(b, base) = 0
           /\ From(b, c) + From(base, b) < Turn => From(base, c) = From(b, c) + From(base, b)
           /\ From(base, b) = From(base, c) => b = c
           /\ From(b, c) = 0 <=> b = c
<1>1. /\ From(base, b) = IF b >= base THEN b - base ELSE b - base + Turn
      /\ From(base, c) = IF c >= base THEN c - base ELSE c - base + Turn
      /\ From(b, c) = IF c >= b THEN c - b ELSE c - b + Turn
      /\ From(b, base) = IF base >= b THEN base - b ELSE base - b + Turn
    BY TurnIs DEF From
<1>2. Turn \in Nat /\ base \in 0..(Turn - 1) /\ b \in 0..(Turn - 1) /\ c \in 0..(Turn - 1)
    BY AnglesAre DEF Bearings
<1> QED BY <1>1, <1>2 DEF Bearings

(* The first of what goes round is at no distance.                         *)
LEMMA FirstOff ==
    ASSUME NEW e, e.bearing \in Bearings
    PROVE  Off(e.bearing, e) = 0
<1>1. e.bearing \in Int
    BY AnglesAre DEF Bearings
<1> QED BY <1>1, OffIs

(* Where the pull after the i-th is, or a full turn after the last.        *)
Upto(pulls, i) == IF i = Len(pulls) THEN Turn ELSE Off(pulls[1].bearing, pulls[i + 1])

(* How far round from a pull the next is, by their offsets.                *)
LEMMA WidthIs ==
    ASSUME NEW pulls \in Seq(Pull), Going(pulls), NEW i \in DOMAIN pulls
    PROVE  /\ Width(pulls, i) \in Nat \ {0}
           /\ Off(pulls[1].bearing, pulls[i]) + Width(pulls, i) = Upto(pulls, i)
           /\ Upto(pulls, i) \in Nat /\ Upto(pulls, i) <= Turn
           /\ Off(pulls[1].bearing, pulls[i]) \in Nat
<1> DEFINE n == Len(pulls)  base == pulls[1].bearing  b == pulls[i].bearing
           c == After(pulls, i).bearing  o == Off(base, pulls[i])
<1>1. /\ n \in Nat \ {0} /\ DOMAIN pulls = 1..n /\ \A k \in 1..n : pulls[k].bearing \in Bearings
      /\ After(pulls, i) = pulls[IF i = n THEN 1 ELSE i + 1] /\ i \in 1..n
      /\ (IF i = n THEN 1 ELSE i + 1) \in 1..n /\ 1 \in 1..n
  <2>1. \A k \in 1..n : pulls[k].bearing \in Bearings
    BY ElementOfSeq, AnglesAre DEF Bearings
  <2> QED BY <2>1, AfterIs
<1>2. base \in Bearings /\ b \in Bearings /\ c \in Bearings
    BY <1>1
<1>3. Turn \in Nat /\ Turn > 0 /\ o \in 0..(Turn - 1) /\ o = From(base, b)
    BY <1>2, OffIs, AnglesAre DEF Bearings, Off, From
<1>4. Off(base, pulls[1]) = 0
    BY <1>1, FirstOff
<1>5. CASE i = n
  <2>1. c = base /\ Upto(pulls, i) = Turn
    BY <1>1, <1>5 DEF Upto
  <2>2. CASE o = 0
    <3>1. From(b, c) = 0
      <4>1. From(base, b) = 0
        BY <1>3, <2>2
      <4>2. From(b, base) = 0
        <5> HIDE DEF b, base
        <5> QED BY <1>2, <4>1, TurnBetween
      <4> QED BY <2>1, <4>2
    <3>2. Width(pulls, i) = Turn
      BY <3>1 DEF Width, From
    <3> HIDE DEF o
    <3> QED BY <1>3, <2>1, <2>2, <3>2 DEF o
  <2>3. CASE o # 0
    <3>1. From(b, c) = Turn - o
      <4> HIDE DEF o, b, c, base
      <4> QED BY <1>2, <1>3, <2>1, <2>3, TurnBetween
    <3> HIDE DEF o
    <3>2. Turn - o # 0
      BY <1>3
    <3>3. Width(pulls, i) = Turn - o
      BY <3>1, <3>2 DEF Width, From
    <3> QED BY <1>3, <2>1, <3>3 DEF o
  <2> QED BY <2>2, <2>3
<1>6. CASE i # n
  <2> DEFINE x == Off(base, pulls[i + 1])
  <2>1. After(pulls, i) = pulls[i + 1] /\ i + 1 \in 1..n /\ Upto(pulls, i) = x
    BY <1>1, <1>6 DEF Upto
  <2>2. o < x
    BY <1>1, <2>1 DEF Going
  <2>3. x = From(base, c) /\ x \in 0..(Turn - 1)
    BY <1>1, <1>2, <2>1, OffIs DEF Off, Bearings, From
  <2>4. From(b, c) = x - o
    <3> HIDE DEF b, c, base, x, o
    <3>1. o <= x
      BY <1>3, <2>2, <2>3
    <3> QED BY <1>2, <1>3, <2>3, <3>1, TurnBetween
  <2> HIDE DEF o, x
  <2>5. Width(pulls, i) = x - o
    <3>1. x - o # 0
      BY <1>3, <2>2, <2>3
    <3> QED BY <2>4, <3>1 DEF Width, From
  <2> QED BY <1>3, <2>1, <2>2, <2>3, <2>5 DEF o
<1> QED BY <1>5, <1>6

(* What goes round goes round once.                                        *)
LEMMA GoingWinds ==
    ASSUME NEW S, Borne(S), NEW s \in Seq(S), Len(s) > 1, Going(s)
    PROVE  Winding(s) = Turn
<1> DEFINE n == Len(s)  base == s[1].bearing
           f == [k \in DOMAIN s |-> (After(s, k).bearing - s[k].bearing) % Turn]
           v == [k \in 0..n |-> IF k = n THEN Turn ELSE Off(base, s[k + 1])]
<1>1. n \in Nat /\ n > 1 /\ DOMAIN s = 1..n /\ \A k \in 1..n : s[k].bearing \in Bearings
    BY LenProperties, ElementOfSeq DEF Borne
<1>2. 1 \in 1..n /\ base \in Bearings
    BY <1>1
<1>3. ASSUME NEW k \in 1..n
      PROVE  /\ f[k] = From(s[k].bearing, After(s, k).bearing)
             /\ f[k] \in Bearings
             /\ After(s, k) = s[IF k = n THEN 1 ELSE k + 1]
             /\ After(s, k).bearing \in Bearings
  <2>1. After(s, k) = s[IF k = n THEN 1 ELSE k + 1] /\ (IF k = n THEN 1 ELSE k + 1) \in 1..n
    BY <1>1, AfterIs, ZenonT(60)
  <2>2. After(s, k).bearing \in Bearings
    BY <1>1, <2>1
  <2>3. f[k] = From(s[k].bearing, After(s, k).bearing)
    BY <1>1 DEF From
  <2>4. f[k] \in Bearings
    BY <1>1, <1>2, <2>2, <2>3, TurnBetween
  <2> HIDE DEF f
  <2> QED BY <2>1, <2>2, <2>3, <2>4, SMTT(60)
<1>4. f \in Seq(Int) /\ Len(f) = n
  <2>1. DOMAIN f = 1..n
    BY <1>1
  <2>2. \A k \in 1..n : f[k] \in Int
    <3> HIDE DEF f
    <3> QED BY <1>3, AnglesAre DEF Bearings
  <2>3. f \in [1..n -> Int]
    <3>1. f = [k \in 1..n |-> f[k]]
      BY <1>1
    <3> HIDE DEF f
    <3> QED BY <2>2, <3>1
  <2> HIDE DEF f, n
  <2> QED BY <1>1, <2>3
<1>5. v[0] = 0 /\ v[n] = Turn
  <2>1. 0 \in 0..n /\ n \in 0..n /\ 0 # n /\ 0 + 1 = 1
    BY <1>1
  <2>2. Off(base, s[1]) = 0
    BY <1>1, <1>2, FirstOff
  <2> HIDE DEF n
  <2> QED BY <2>1, <2>2
<1>6. ASSUME NEW k \in 1..n PROVE v[k] = v[k - 1] + f[k]
  <2> DEFINE o == Off(base, s[k])
  <2>1. v[k - 1] = o
    <3>1. k - 1 \in 0..n /\ k - 1 # n /\ (k - 1) + 1 = k
      BY <1>1
    <3> HIDE DEF n
    <3> QED BY <3>1
  <2>2. o = From(base, s[k].bearing) /\ o \in 0..(Turn - 1) /\ Turn \in Nat
    BY <1>1, <1>2, OffIs, AnglesAre DEF Off, Bearings, From
  <2>3. CASE k = n
    <3>1. f[k] = From(s[k].bearing, base)
      BY <1>3, <2>3
    <3>2. o # 0
      <4>1. Off(base, s[1]) < Off(base, s[k])
        BY <1>1, <1>2, <2>3 DEF Going
      <4>2. Off(base, s[1]) = 0
        BY <1>1, <1>2, FirstOff
      <4> QED BY <2>2, <4>1, <4>2
    <3>3. f[k] = Turn - o
      BY <1>1, <1>2, <2>2, <3>1, <3>2, TurnBetween
    <3> HIDE DEF v, f, o
    <3> QED BY <1>5, <2>1, <2>2, <2>3, <3>3
  <2>4. CASE k # n
    <3> DEFINE x == Off(base, s[k + 1])
    <3>0. k + 1 \in 1..n /\ k \in 0..n
      <4> HIDE DEF n
      <4> QED BY <1>1, <2>4
    <3>1. v[k] = x
      <4> HIDE DEF n
      <4> QED BY <2>4, <3>0
    <3>2. o < x
      BY <1>1, <3>0, SMTT(60) DEF Going
    <3>3. x = From(base, After(s, k).bearing) /\ x \in 0..(Turn - 1)
      BY <1>1, <1>2, <1>3, <2>4, <3>0, OffIs DEF Off, Bearings, From
    <3>4. f[k] = x - o
      <4>1. o <= x
        <5> HIDE DEF o, x
        <5> QED BY <2>2, <3>2, <3>3
      <4>2. s[k].bearing \in Bearings /\ After(s, k).bearing \in Bearings
        BY <1>1, <1>3
      <4>3. f[k] = From(s[k].bearing, After(s, k).bearing)
        BY <1>3
      <4> HIDE DEF f, o, x, base
      <4> QED BY <1>2, <2>2, <3>3, <4>1, <4>2, <4>3, TurnBetween, SMTT(60)
    <3> HIDE DEF v, f, o, x
    <3> QED BY <2>1, <2>2, <3>1, <3>3, <3>4
  <2> QED BY <2>3, <2>4
<1> HIDE DEF f, v, n
<1>7. SumOf(f) = v[Len(f)]
  <2>1. \A k \in 1..Len(f) : v[k] = v[k - 1] + f[k]
    BY <1>4, <1>6
  <2> QED BY <1>4, <1>5, <2>1, SumTo
<1> QED BY <1>4, <1>5, <1>7 DEF Winding, f

(* A pull alone is drawn with some of the circle.                          *)
LEMMA OnePull ==
    ASSUME NEW pulls \in Seq(Pull), Len(pulls) = 1
    PROVE  Len(Stretch(pulls, 1)) > 1
<1> DEFINE S == [bearing : Int, gap : {1}]
           p == pulls[1]
           b == p.bearing
           c == p.cone
           from == b + c
           to == b + Turn - c
           E(a) == [bearing |-> a % Turn, gap |-> 1]
           rest == to - from - 1
           count == rest \div ArcStep
           pull == <<[bearing |-> b, gap |-> 1]>>
           first == IF c > 0 THEN <<E(from)>> ELSE <<>>
           mids == [k \in 1..count |-> E(from + k * ArcStep)]
           last == IF c > 0 THEN <<E(to)>> ELSE <<>>
<1>0. DOMAIN pulls = 1..1 /\ p \in Pull /\ After(pulls, 1) = p
    BY LenProperties, ElementOfSeq, AfterIs
<1>1. /\ Turn \in Nat /\ Turn > 0 /\ ArcStep \in Nat \ {0} /\ ArcStep < Turn
      /\ b \in Int /\ c \in Nat /\ 2 * c < Turn /\ b \in Bearings
    BY <1>0, AnglesAre DEF Bearings
<1>2. Stretch(pulls, 1) = IF to <= from THEN pull ELSE pull \o first \o mids \o last
  <2>1. (b - b) % Turn = 0
    BY <1>1, TurnBetween DEF From
  <2> QED BY <1>0, <2>1 DEF Stretch
<1>3. \A a \in Int : E(a) \in S
    BY <1>1
<1> HIDE DEF b, c
<1>4. from \in Int /\ to \in Int /\ ~(to <= from) /\ rest \in Nat
    BY <1>1
<1>5. c = 0 => rest = Turn - 1
    BY <1>1
<1>6. count \in Nat /\ (c = 0 => count >= 1)
  <2>1. \A r \in Nat, d \in Nat \ {0} : r \div d \in Nat /\ (d <= r => r \div d >= 1)
    BY Z3
  <2> HIDE DEF rest
  <2> QED BY <1>1, <1>4, <1>5, <2>1
<1> HIDE DEF from, to, E, S, count
<1>7. pull \in Seq(S) /\ Len(pull) = 1
    BY <1>1 DEF S
<1>8. first \in Seq(S) /\ last \in Seq(S) /\ Len(first) \in Nat /\ (c > 0 => Len(first) = 1)
  <2>1. <<E(from)>> \in Seq(S) /\ <<E(to)>> \in Seq(S) /\ Len(<<E(from)>>) = 1
    BY <1>3, <1>4
  <2> QED BY <2>1
<1>9. mids \in Seq(S) /\ Len(mids) = count
  <2>1. \A k \in 1..count : from + k * ArcStep \in Int
    BY <1>1, <1>4, <1>6
  <2>2. mids \in [1..count -> S]
    BY <1>3, <2>1
  <2> HIDE DEF mids
  <2> QED BY <1>6, <2>2
<1>10. Stretch(pulls, 1) = pull \o first \o mids \o last
    BY <1>2, <1>4
<1> HIDE DEF pull, first, mids, last
<1>11. pull \o first \in Seq(S) /\ Len(pull \o first) = 1 + Len(first)
  <2>1. pull \o first \in Seq(S) /\ Len(pull \o first) = Len(pull) + Len(first)
    BY <1>7, <1>8, ConcatProperties
  <2> QED BY <1>7, <2>1
<1>12. pull \o first \o mids \in Seq(S) /\ Len(pull \o first \o mids) = 1 + Len(first) + count
  <2> DEFINE two == pull \o first
  <2>1. two \in Seq(S)
    BY <1>11
  <2> HIDE DEF two
  <2>2. two \o mids \in Seq(S) /\ Len(two \o mids) = Len(two) + Len(mids)
    BY <1>9, <2>1, ConcatProperties
  <2> QED BY <1>9, <1>11, <2>2 DEF two
<1>13. Len(pull \o first \o mids \o last) = 1 + Len(first) + count + Len(last)
       /\ Len(last) \in Nat
    BY <1>8, <1>12, ConcatProperties, LenProperties
<1> QED BY <1>1, <1>6, <1>8, <1>10, <1>13

(* What is drawn of the first i pulls: it begins with the first of them    *)
(* and goes round up to the next, with every pull in its place, and what   *)
(* is drawn in the gap after a pull lies between it and the next.          *)
Drawn(pulls, q, i) ==
    LET base == pulls[1].bearing
    IN /\ q # <<>> /\ q[1].bearing = base
       /\ Rising(q, base, 0, Upto(pulls, i))
       /\ \A k \in DOMAIN q :
             /\ q[k].gap \in 1..i
             /\ Off(base, pulls[q[k].gap]) <= Off(base, q[k])
             /\ Off(base, q[k]) < Upto(pulls, q[k].gap)
       /\ \A j \in 1..i : \E k \in DOMAIN q : q[k].bearing = pulls[j].bearing

(* The whole is drawn that way.                                            *)
LEMMA RingGoes ==
    ASSUME NEW pulls \in Seq(Pull), pulls # <<>>, Going(pulls)
    PROVE  /\ Drawn(pulls, PulledRing(pulls), Len(pulls))
           /\ Len(pulls) = 1 => Len(PulledRing(pulls)) > 1
<1> DEFINE n == Len(pulls)  S == Entries(n)  seqs == [i \in DOMAIN pulls |-> Stretch(pulls, i)]
           base == pulls[1].bearing
<1>1. /\ n \in Nat \ {0} /\ DOMAIN pulls = 1..n
      /\ \A i \in 1..n : pulls[i].bearing \in Bearings
      /\ 1 \in 1..n /\ base \in Bearings /\ n \in 1..n
  <2>1. n \in Nat \ {0} /\ DOMAIN pulls = 1..n
    BY EmptySeq, LenProperties
  <2>2. \A i \in 1..n : pulls[i].bearing \in Bearings
    BY ElementOfSeq, AnglesAre DEF Bearings
  <2>3. 1 \in 1..n /\ n \in 1..n
    BY <2>1
  <2> QED BY <2>1, <2>2, <2>3
<1>2. \A i \in 1..n : Stretch(pulls, i) \in Seq(S)
    BY <1>1, StretchType
<1>3. Borne(S)
    BY DEF Entries, Borne, Bearings
<1> HIDE DEF S, n, base
<1>4. seqs \in Seq(Seq(S)) /\ Len(seqs) = n /\ \A i \in 1..n : seqs[i] = Stretch(pulls, i)
    BY <1>1, <1>2
<1>5. PulledRing(pulls) = FlattenSeq(seqs)
    BY DEF PulledRing
<1> HIDE DEF seqs
<1>6. PICK f \in [1..n -> Seq(S)] :
         /\ f[1] = seqs[1] /\ \A i \in 2..n : f[i] = f[i - 1] \o seqs[i]
         /\ FlattenSeq(seqs) = f[n]
  <2>1. Len(seqs) > 0
    BY <1>1, <1>4
  <2>2. \E f \in [1..Len(seqs) -> Seq(S)] :
              /\ f[1] = seqs[1] /\ \A i \in 2..Len(seqs) : f[i] = f[i - 1] \o seqs[i]
              /\ FlattenSeq(seqs) = f[Len(seqs)]
    BY <1>4, <2>1, FlattenIs
  <2> QED BY <1>4, <2>2
<1>7. ASSUME NEW i \in 1..n
      PROVE  LET q == Stretch(pulls, i)  o == Off(base, pulls[i])
             IN /\ o \in Nat /\ o <= Upto(pulls, i) /\ Upto(pulls, i) \in Nat
                /\ q # <<>> /\ q[1].bearing = pulls[i].bearing
                /\ \A k \in DOMAIN q : q[k].gap = i
                /\ Rising(q, base, o, Upto(pulls, i))
  <2> DEFINE w == Width(pulls, i)
  <2>1. /\ w \in Nat \ {0} /\ Off(base, pulls[i]) + w = Upto(pulls, i)
        /\ Upto(pulls, i) \in Nat /\ Upto(pulls, i) <= Turn /\ Off(base, pulls[i]) \in Nat
    BY <1>1, WidthIs DEF base
  <2>2. PICK ww \in Nat \ {0} : ww = w
    BY <2>1
  <2>3. /\ Stretch(pulls, i) # <<>>
        /\ Stretch(pulls, i)[1].bearing = pulls[i].bearing
        /\ \A k \in DOMAIN Stretch(pulls, i) : Stretch(pulls, i)[k].gap = i
        /\ Rising(Stretch(pulls, i), base, Off(base, pulls[i]), Off(base, pulls[i]) + ww)
    BY <1>1, <2>1, <2>2, StretchRises, ZenonT(60)
  <2> QED BY <2>1, <2>2, <2>3
<1> DEFINE T == {i \in 0..n : i = 0 \/ Drawn(pulls, f[i], i)}
<1>8. 0 \in T
    BY <1>1
<1>9. ASSUME NEW i \in 0..(n - 1), i \in T PROVE i + 1 \in T
  <2> DEFINE q == Stretch(pulls, i + 1)  o == Off(base, pulls[i + 1])  to == Upto(pulls, i + 1)
  <2>0. i + 1 \in 1..n /\ i + 1 \in 0..n /\ q \in Seq(S) /\ q = seqs[i + 1]
    BY <1>1, <1>2, <1>4
  <2>1. /\ o \in Nat /\ o <= to /\ to \in Nat
        /\ q # <<>> /\ q[1].bearing = pulls[i + 1].bearing
        /\ \A k \in DOMAIN q : q[k].gap = i + 1
        /\ Rising(q, base, o, to)
    BY <1>7, <2>0
  <2>2. 1 \in DOMAIN q
    BY <2>0, <2>1, EmptySeq, LenProperties
  <2>3. \A k \in DOMAIN q : o <= Off(base, q[k]) /\ Off(base, q[k]) < to
    BY <2>1 DEF Rising
  <2> HIDE DEF q
  <2>4. CASE i = 0
    <3>1. f[i + 1] = q
      BY <1>6, <2>0, <2>4
    <3>2. o = 0
      BY <1>1, <2>4, FirstOff DEF base
    <3>3. i + 1 = 1 /\ \A j \in 1..1 : j = 1
      BY <2>4
    <3>4. Drawn(pulls, q, 1)
      BY <2>1, <2>2, <2>3, <3>2, <3>3 DEF Drawn, base
    <3> QED BY <2>0, <3>1, <3>3, <3>4
  <2>5. CASE i # 0
    <3> DEFINE g == f[i]  h == g \o q
    <3>1. i \in 1..n /\ i + 1 \in 2..n /\ (i + 1) - 1 = i /\ i # n
      BY <1>1, <2>5
    <3>2. f[i + 1] = h /\ g \in Seq(S)
      BY <1>6, <2>0, <3>1
    <3>3. Drawn(pulls, g, i)
      BY <1>9, <2>5
    <3>4. Upto(pulls, i) = o
      BY <3>1 DEF Upto, base, n
    <3>5. /\ g # <<>> /\ g[1].bearing = base /\ Rising(g, base, 0, o)
          /\ \A k \in DOMAIN g :
                /\ g[k].gap \in 1..i
                /\ Off(base, pulls[g[k].gap]) <= Off(base, g[k])
                /\ Off(base, g[k]) < Upto(pulls, g[k].gap)
          /\ \A j \in 1..i : \E k \in DOMAIN g : g[k].bearing = pulls[j].bearing
      BY <3>3, <3>4 DEF Drawn, base
    <3> HIDE DEF g, o, to
    <3>6. /\ Len(g) \in Nat \ {0} /\ Len(q) \in Nat \ {0}
          /\ DOMAIN g = 1..Len(g) /\ DOMAIN q = 1..Len(q)
      BY <2>0, <2>1, <3>2, <3>5, EmptySeq, LenProperties
    <3>7. /\ h \in Seq(S) /\ Len(h) = Len(g) + Len(q) /\ DOMAIN h = 1..(Len(g) + Len(q))
          /\ \A k \in 1..(Len(g) + Len(q)) : h[k] = IF k <= Len(g) THEN g[k] ELSE q[k - Len(g)]
      <4>1. /\ h \in Seq(S) /\ Len(h) = Len(g) + Len(q)
            /\ \A k \in 1..(Len(g) + Len(q)) : h[k] = IF k <= Len(g) THEN g[k] ELSE q[k - Len(g)]
        BY <2>0, <3>2, ConcatProperties
      <4> QED BY <4>1, LenProperties
    <3>8. Rising(h, base, 0, to)
      <4>1. 0 \in Int /\ o \in Int /\ to \in Int /\ 0 <= o /\ o <= to
        BY <2>1
      <4> QED BY <1>1, <1>3, <2>0, <2>1, <3>2, <3>5, <4>1, RisingJoin
    <3> HIDE DEF h
    <3>9. h # <<>> /\ h[1] = g[1]
      <4>1. 1 \in 1..(Len(g) + Len(q)) /\ 1 <= Len(g) /\ Len(h) # 0
        BY <3>6, <3>7
      <4> QED BY <3>7, <4>1, EmptySeq
    <3>10. \A k \in DOMAIN h :
             \/ k \in DOMAIN g /\ h[k] = g[k]
             \/ k - Len(g) \in DOMAIN q /\ h[k] = q[k - Len(g)]
      BY <3>6, <3>7
    <3>11. /\ \A k \in DOMAIN g : k \in DOMAIN h /\ h[k] = g[k]
           /\ 1 + Len(g) \in DOMAIN h /\ h[1 + Len(g)] = q[1]
      <4>1. 1 + Len(g) \in 1..(Len(g) + Len(q)) /\ ~(1 + Len(g) <= Len(g))
            /\ (1 + Len(g)) - Len(g) = 1
        BY <3>6
      <4>2. \A k \in 1..Len(g) : k \in 1..(Len(g) + Len(q)) /\ k <= Len(g)
        BY <3>6
      <4> QED BY <3>6, <3>7, <4>1, <4>2
    <3>12. ASSUME NEW k \in DOMAIN h
           PROVE  /\ h[k].gap \in 1..(i + 1)
                  /\ Off(base, pulls[h[k].gap]) <= Off(base, h[k])
                  /\ Off(base, h[k]) < Upto(pulls, h[k].gap)
      <4>1. CASE k \in DOMAIN g /\ h[k] = g[k]
        <5>1. \A j \in 1..i : j \in 1..(i + 1)
          BY <3>1
        <5> QED BY <3>5, <4>1, <5>1
      <4>2. CASE k - Len(g) \in DOMAIN q /\ h[k] = q[k - Len(g)]
        <5>1. i + 1 \in 1..(i + 1)
          BY <3>1
        <5> QED BY <2>1, <2>3, <4>2, <5>1 DEF o, to
      <4> QED BY <3>10, <4>1, <4>2
    <3>13. ASSUME NEW j \in 1..(i + 1) PROVE \E k \in DOMAIN h : h[k].bearing = pulls[j].bearing
      <4>1. CASE j = i + 1
        BY <2>1, <3>11, <4>1
      <4>2. CASE j # i + 1
        <5>1. j \in 1..i
          BY <3>1, <4>2
        <5> QED BY <3>5, <3>11, <5>1
      <4> QED BY <4>1, <4>2
    <3>14. Drawn(pulls, h, i + 1)
      BY <3>5, <3>8, <3>9, <3>12, <3>13 DEF Drawn, base, to
    <3> QED BY <2>0, <3>2, <3>14
  <2> QED BY <2>4, <2>5
<1>10. Drawn(pulls, f[n], n)
  <2>1. n \in T
    <3> HIDE DEF T
    <3>1. \A i \in 0..n : i \in T
      BY <1>1, <1>8, <1>9, CountUp
    <3> QED BY <1>1, <3>1
  <2> QED BY <1>1, <2>1
<1>11. ASSUME n = 1 PROVE Len(PulledRing(pulls)) > 1
  <2>1. PulledRing(pulls) = Stretch(pulls, 1)
    BY <1>1, <1>4, <1>5, <1>6, <1>11
  <2> QED BY <1>11, <2>1, OnePull DEF n
<1> QED BY <1>5, <1>6, <1>10, <1>11 DEF n

(* What goes round once, without two at the same bearing, goes round in    *)
(* order.                                                                  *)
LEMMA WindsGoing ==
    ASSUME NEW S, Borne(S), NEW s \in Seq(S), Len(s) > 1, Winding(s) = Turn,
           \A i, j \in DOMAIN s : s[i].bearing = s[j].bearing => i = j
    PROVE  Going(s)
<1> DEFINE n == Len(s)  base == s[1].bearing
           f == [k \in DOMAIN s |-> (After(s, k).bearing - s[k].bearing) % Turn]
<1>1. n \in Nat /\ n > 1 /\ DOMAIN s = 1..n /\ \A k \in 1..n : s[k].bearing \in Bearings
    BY LenProperties, ElementOfSeq DEF Borne
<1>2. 1 \in 1..n /\ base \in Bearings /\ Turn \in Nat
    BY <1>1, AnglesAre
<1>3. ASSUME NEW k \in 1..n
      PROVE  /\ f[k] = From(s[k].bearing, After(s, k).bearing)
             /\ f[k] \in Bearings /\ f[k] \in Nat /\ f[k] > 0
             /\ After(s, k) = s[IF k = n THEN 1 ELSE k + 1]
             /\ After(s, k).bearing \in Bearings
  <2> DEFINE a == IF k = n THEN 1 ELSE k + 1
  <2>1. After(s, k) = s[a] /\ a \in 1..n
    BY <1>1, AfterIs
  <2>2. a # k
    <3> HIDE DEF n
    <3> QED BY <1>1
  <2> HIDE DEF a
  <2>3. After(s, k).bearing \in Bearings /\ s[a].bearing # s[k].bearing
    BY <1>1, <2>1, <2>2
  <2>4. f[k] = From(s[k].bearing, After(s, k).bearing)
    BY <1>1 DEF From
  <2> HIDE DEF f
  <2>5. From(s[k].bearing, After(s, k).bearing) \in Bearings
        /\ From(s[k].bearing, After(s, k).bearing) # 0
    BY <1>1, <1>2, <2>1, <2>3, TurnBetween
  <2>6. f[k] \in Nat /\ f[k] > 0
    BY <1>2, <2>4, <2>5 DEF Bearings
  <2> QED BY <2>1, <2>3, <2>4, <2>5, <2>6, SMTT(60) DEF a
<1>4. f \in Seq(Int) /\ Len(f) = n
  <2>1. \A k \in 1..n : f[k] \in Int
    <3> HIDE DEF f
    <3> QED BY <1>3
  <2>2. f \in [1..n -> Int]
    <3>1. f = [k \in 1..n |-> f[k]]
      BY <1>1
    <3> HIDE DEF f
    <3> QED BY <2>1, <3>1
  <2> HIDE DEF f, n
  <2> QED BY <1>1, <2>2
<1>5. SumOf(f) = Turn
    BY DEF Winding
<1> HIDE DEF f, n
<1>6. PICK u \in [0..n -> Int] : u[0] = 0 /\ (\A k \in 1..n : u[k] = u[k - 1] + f[k]) /\ u[n] = Turn
  <2>1. PICK u \in [0..Len(f) -> Int] :
              /\ u[0] = 0 /\ \A k \in 1..Len(f) : u[k] = u[k - 1] + f[k]
              /\ SumOf(f) = u[Len(f)]
    BY <1>4, SumIs
  <2> QED BY <1>4, <1>5, <2>1
<1>7. \A j, k \in 0..n : j < k => u[j] < u[k]
  <2>1. ASSUME NEW k \in 1..n PROVE u[k - 1] < u[k]
    <3>1. u[k - 1] \in Int /\ u[k] = u[k - 1] + f[k] /\ f[k] \in Nat /\ f[k] > 0
      <4>1. k - 1 \in 0..n
        BY <1>1
      <4> QED BY <1>3, <1>6, <4>1
    <3> QED BY <3>1
  <2> QED BY <1>1, <1>6, <2>1, Climbing
<1> DEFINE T == {k \in 0..(n - 1) : Off(base, s[k + 1]) = u[k]}
<1>8. 0 \in T
    BY <1>1, <1>2, <1>6, FirstOff
<1>9. ASSUME NEW k \in 0..((n - 1) - 1), k \in T PROVE k + 1 \in T
  <2> DEFINE b == s[k + 1].bearing  c == s[(k + 1) + 1].bearing
  <2>1. /\ k + 1 \in 1..n /\ k + 1 # n /\ (k + 1) + 1 \in 1..n /\ k + 1 \in 0..(n - 1)
        /\ k \in 0..n /\ k + 1 \in 0..n /\ k + 1 < n /\ n \in 0..n /\ (k + 1) - 1 = k
    BY <1>1
  <2>2. b \in Bearings /\ c \in Bearings /\ u[k] \in Int /\ u[k + 1] \in Int
    BY <1>1, <1>6, <2>1
  <2>3. u[k + 1] = u[k] + From(b, c) /\ u[k + 1] < Turn
    <3>1. u[k + 1] = u[k] + f[k + 1]
      BY <1>6, <2>1
    <3>2. f[k + 1] = From(b, c)
      BY <1>3, <2>1
    <3>3. u[k + 1] < u[n]
      BY <1>7, <2>1
    <3> QED BY <1>6, <3>1, <3>2, <3>3
  <2>4. From(base, b) = u[k]
    BY <1>9 DEF Off, From
  <2> HIDE DEF b, c
  <2>5. From(b, c) + From(base, b) < Turn
    <3>1. From(b, c) \in Int
      BY <1>2, <2>2, TurnBetween DEF Bearings
    <3> QED BY <2>2, <2>3, <2>4, <3>1
  <2>6. From(base, c) = From(b, c) + From(base, b)
    BY <1>2, <2>2, <2>5, TurnBetween
  <2>7. From(base, c) = u[k + 1]
    <3>1. From(b, c) \in Int
      BY <1>2, <2>2, TurnBetween DEF Bearings
    <3> QED BY <2>2, <2>3, <2>4, <2>6, <3>1
  <2>8. Off(base, s[(k + 1) + 1]) = u[k + 1]
    BY <2>7 DEF Off, From, c
  <2> QED BY <2>1, <2>8
<1>10. \A k \in 0..(n - 1) : k \in T
  <2>1. n - 1 \in Nat
    BY <1>1
  <2> HIDE DEF T
  <2> QED BY <1>8, <1>9, <2>1, CountUp
<1>11. ASSUME NEW j \in 1..n, NEW k \in 1..n, j < k PROVE Off(base, s[j]) < Off(base, s[k])
  <2>1. /\ j - 1 \in 0..(n - 1) /\ k - 1 \in 0..(n - 1) /\ j - 1 \in 0..n /\ k - 1 \in 0..n
        /\ (j - 1) + 1 = j /\ (k - 1) + 1 = k /\ j - 1 < k - 1
    BY <1>1, <1>11
  <2>2. Off(base, s[j]) = u[j - 1] /\ Off(base, s[k]) = u[k - 1]
    BY <1>10, <2>1
  <2> QED BY <1>7, <2>1, <2>2
<1> QED BY <1>1, <1>11 DEF Going

(* Pulls are things with a bearing, and so are the entries of a ring.      *)
LEMMA BorneAre == Borne(Pull) /\ \A n : Borne(Entries(n))
    BY AnglesAre DEF Borne, Bearings, Entries

(* Pulls are in order if and only if they go round.                        *)
LEMMA InOrderIsGoing ==
    ASSUME NEW pulls \in Seq(Pull), pulls # <<>>
    PROVE  InOrder(pulls) <=> Going(pulls)
<1>0. Len(pulls) \in Nat \ {0} /\ DOMAIN pulls = 1..Len(pulls)
    BY EmptySeq, LenProperties
<1>1. \A k \in DOMAIN pulls : pulls[k].bearing \in Bearings
    BY <1>0, ElementOfSeq, AnglesAre DEF Bearings
<1>2. ASSUME InOrder(pulls) PROVE Going(pulls)
  <2>1. CASE Len(pulls) > 1
    BY <1>2, <2>1, WindsGoing, BorneAre DEF InOrder
  <2>2. CASE ~(Len(pulls) > 1)
    <3>1. \A j, k \in DOMAIN pulls : ~(j < k)
      BY <1>0, <2>2
    <3> QED BY <3>1 DEF Going
  <2> QED BY <2>1, <2>2
<1>3. ASSUME Going(pulls) PROVE InOrder(pulls)
  <2>1. Len(pulls) > 1 => Winding(pulls) = Turn
    BY <1>3, GoingWinds, BorneAre
  <2>2. ASSUME NEW i \in DOMAIN pulls, NEW j \in DOMAIN pulls, pulls[i].bearing = pulls[j].bearing
        PROVE  i = j
    <3> DEFINE base == pulls[1].bearing
    <3>1. Off(base, pulls[i]) = Off(base, pulls[j]) /\ Off(base, pulls[i]) \in Int
      <4>1. 1 \in DOMAIN pulls
        BY <1>0
      <4>2. base \in Bearings /\ pulls[i].bearing \in Bearings
        BY <1>1, <4>1
      <4> HIDE DEF base
      <4>3. Off(base, pulls[i]) \in Bearings /\ Off(base, pulls[j]) = Off(base, pulls[i])
        BY <2>2, <4>2, OffIs DEF Off
      <4>4. Off(base, pulls[i]) \in Int
        BY <4>3, AnglesAre DEF Bearings
      <4> QED BY <4>3, <4>4
    <3>2. ~(i < j) /\ ~(j < i)
      BY <1>3, <3>1 DEF Going
    <3> QED BY <1>0, <3>2
  <2> QED BY <2>1, <2>2 DEF InOrder
<1> QED BY <1>2, <1>3

(* The outline of pulls that go round goes round once.                     *)
THEOREM GoesRoundOnceAlways == Spec => []GoesRoundOnce
<1>1. ShapeInv => GoesRoundOnce
  <2> SUFFICES ASSUME ShapeInv, shape.kind = "pulled", InOrder(shape.pulls)
               PROVE  Winding(PulledRing(shape.pulls)) = Turn
    BY DEF GoesRoundOnce
  <2> DEFINE pulls == shape.pulls  ring == PulledRing(pulls)  n == Len(pulls)
  <2>1. pulls \in Seq(Pull) /\ pulls # <<>>
    BY ByKind, ShapeIs DEF ShapeInv
  <2>2. Going(pulls)
    BY <2>1, InOrderIsGoing
  <2>3. ring \in Seq(Entries(n)) /\ Drawn(pulls, ring, n) /\ (n = 1 => Len(ring) > 1)
    BY <2>1, <2>2, RingGoes, RingType
  <2>4. n \in Nat \ {0} /\ DOMAIN pulls = 1..n
    BY <2>1, EmptySeq, LenProperties
  <2> HIDE DEF ring, n
  <2>5. Going(ring)
    BY <2>3 DEF Drawn, Rising, Going
  <2>6. Len(ring) > 1
    <3>1. CASE n = 1
      BY <2>3, <3>1
    <3>2. CASE n # 1
      <4>1. 1 \in 1..n /\ 2 \in 1..n
        BY <2>4, <3>2
      <4>2. pulls[1].bearing # pulls[2].bearing
        BY <2>4, <4>1 DEF InOrder
      <4>3. PICK j \in DOMAIN ring, k \in DOMAIN ring :
                ring[j].bearing = pulls[1].bearing /\ ring[k].bearing = pulls[2].bearing
        BY <2>3, <4>1 DEF Drawn
      <4>4. j # k
        BY <4>2, <4>3
      <4>5. Len(ring) \in Nat /\ DOMAIN ring = 1..Len(ring)
        BY <2>3, LenProperties
      <4> QED BY <4>4, <4>5
    <3> QED BY <3>1, <3>2
  <2>7. Winding(ring) = Turn
    BY <2>3, <2>5, <2>6, GoingWinds, BorneAre
  <2> QED BY <2>7 DEF ring
<1> QED BY <1>1, ShapeInvariant, PTL

-----------------------------------------------------------------------------
(* A bearing within the width of an entry of the ring lies between the     *)
(* pull the entry was drawn after and the next.                            *)
LEMMA GapHolds ==
    ASSUME NEW pulls \in Seq(Pull), pulls # <<>>, Going(pulls),
           NEW ring, ring = PulledRing(pulls), NEW k \in DOMAIN ring, NEW b \in Bearings,
           \A i \in DOMAIN pulls : pulls[i].bearing # b,
           From(ring[k].bearing, b) < From(ring[k].bearing, After(ring, k).bearing)
    PROVE  LET base == pulls[1].bearing  g == ring[k].gap
           IN /\ g \in DOMAIN pulls
              /\ Off(base, pulls[g]) < From(base, b) /\ From(base, b) < Upto(pulls, g)
<1> DEFINE n == Len(pulls)  base == pulls[1].bearing  g == ring[k].gap  m == Len(ring)
           r == ring[k].bearing  o == Off(base, ring[k])  x == From(base, b)
<1>1. /\ n \in Nat \ {0} /\ DOMAIN pulls = 1..n /\ base \in Bearings
      /\ \A i \in 1..n : pulls[i].bearing \in Bearings
  <2>1. n \in Nat \ {0} /\ DOMAIN pulls = 1..n
    BY EmptySeq, LenProperties
  <2>2. \A i \in 1..n : pulls[i].bearing \in Bearings
    BY ElementOfSeq, AnglesAre DEF Bearings
  <2>3. 1 \in 1..n
    BY <2>1
  <2> QED BY <2>1, <2>2, <2>3
<1>2. ring \in Seq(Entries(n)) /\ Drawn(pulls, ring, n)
    BY RingGoes, RingType
<1>3. /\ m \in Nat /\ DOMAIN ring = 1..m /\ k \in 1..m /\ 1 \in 1..m
      /\ \A i \in 1..m : ring[i].bearing \in Bearings
  <2>1. m \in Nat /\ DOMAIN ring = 1..m
    BY <1>2, LenProperties
  <2>2. \A i \in 1..m : ring[i].bearing \in Bearings
    BY <1>2, <2>1, ElementOfSeq, BorneAre DEF Borne
  <2>3. k \in 1..m
    BY <2>1
  <2>4. 1 \in 1..m
    BY <2>1, <2>3
  <2> QED BY <2>1, <2>2, <2>3, <2>4
<1>4. /\ ring[1].bearing = base /\ g \in 1..n
      /\ Off(base, pulls[g]) <= o /\ o < Upto(pulls, g)
      /\ \A j \in 1..n : \E i \in 1..m : ring[i].bearing = pulls[j].bearing
      /\ \A i, j \in 1..m : i < j => Off(base, ring[i]) < Off(base, ring[j])
    BY <1>2, <1>3 DEF Drawn, Rising
<1>5. \A i \in 1..m : /\ Off(base, ring[i]) = From(base, ring[i].bearing)
                      /\ Off(base, ring[i]) \in Nat /\ Off(base, ring[i]) < Turn
  <2>1. \A i \in 1..m : Off(base, ring[i]) \in Bearings
    BY <1>1, <1>3, OffIs
  <2> QED BY <2>1, AnglesAre DEF Bearings, Off, From
<1>7. Upto(pulls, g) \in Nat /\ Upto(pulls, g) <= Turn /\ Off(base, pulls[g]) \in Nat
    BY <1>1, <1>4, WidthIs
<1>8. x \in Nat /\ x < Turn /\ Turn \in Nat /\ x # Off(base, pulls[g])
  <2>1. x \in Bearings
    BY <1>1, TurnBetween
  <2>2. x # From(base, pulls[g].bearing)
    BY <1>1, <1>4, TurnBetween
  <2> QED BY <2>1, <2>2, AnglesAre DEF Bearings, Off, From
<1>9. \A i \in 1..m : k < i \/ g = n \/ Off(base, ring[i]) < Upto(pulls, g)
           \/ Off(base, ring[i]) # Upto(pulls, g)
  <2> SUFFICES ASSUME NEW i \in 1..m, ~(k < i) PROVE Off(base, ring[i]) < Upto(pulls, g)
    OBVIOUS
  <2>1. i = k \/ i < k
    BY <1>3
  <2>2. Off(base, ring[i]) = o \/ Off(base, ring[i]) < o
    BY <1>3, <1>4, <2>1
  <2> HIDE DEF o
  <2> QED BY <1>3, <1>4, <1>5, <1>7, <2>2 DEF o
<1>10. g # n => \E i \in 1..m : k < i /\ Off(base, ring[i]) = Upto(pulls, g)
  <2> SUFFICES ASSUME g # n PROVE \E i \in 1..m : k < i /\ Off(base, ring[i]) = Upto(pulls, g)
    OBVIOUS
  <2>1. g + 1 \in 1..n
    BY <1>1, <1>4
  <2>2. PICK i \in 1..m : ring[i].bearing = pulls[g + 1].bearing
    BY <1>4, <2>1
  <2>3. Off(base, ring[i]) = Upto(pulls, g)
    BY <2>2 DEF Upto, Off
  <2>4. ~(Off(base, ring[i]) < Upto(pulls, g))
    BY <1>7, <2>3
  <2> QED BY <1>9, <2>3, <2>4
<1>11. CASE k # m
  <2> DEFINE y == Off(base, ring[k + 1])  c == ring[k + 1].bearing
  <2>1. k + 1 \in 1..m /\ After(ring, k) = ring[k + 1]
    BY <1>2, <1>3, <1>11, AfterIs
  <2>2. o < y /\ y = From(base, c) /\ c \in Bearings /\ y \in Nat /\ y < Turn
    BY <1>3, <1>4, <1>5, <2>1
  <2>3. From(r, c) = y - o /\ o = From(base, r) /\ o \in Nat /\ r \in Bearings
    <3>1. o = From(base, r) /\ o \in Nat /\ r \in Bearings
      BY <1>3, <1>5
    <3> HIDE DEF o, y, c, r, base
    <3>2. o <= y
      BY <2>2, <3>1
    <3> QED BY <1>1, <2>2, <3>1, <3>2, TurnBetween
  <2>4. From(r, b) < y - o /\ From(r, b) \in Nat
    <3>1. From(r, b) \in Bearings
      BY <2>3, TurnBetween
    <3> QED BY <2>1, <2>3, <3>1, AnglesAre DEF Bearings
  <2> HIDE DEF o, y, c, r, base, x
  <2>5. x = From(r, b) + o
    <3>1. From(r, b) + From(base, r) < Turn
      BY <1>8, <2>2, <2>3, <2>4
    <3>2. From(base, b) = From(r, b) + From(base, r)
      BY <1>1, <2>3, <3>1, TurnBetween
    <3> QED BY <2>3, <3>2 DEF x
  <2>6. o <= x /\ x < y
    BY <2>2, <2>3, <2>4, <2>5
  <2>7. y <= Upto(pulls, g)
    <3>1. CASE g = n
      <4>1. Upto(pulls, g) = Turn
        BY <3>1 DEF Upto
      <4> QED BY <1>8, <2>2, <4>1
    <3>2. CASE g # n
      <4>1. PICK i \in 1..m : k < i /\ Off(base, ring[i]) = Upto(pulls, g)
        BY <1>10, <3>2
      <4>2. i = k + 1 \/ k + 1 < i
        BY <1>3, <4>1
      <4>3. y = Upto(pulls, g) \/ y < Upto(pulls, g)
        BY <1>4, <2>1, <4>1, <4>2 DEF y
      <4> QED BY <1>7, <2>2, <4>3
    <3> QED BY <3>1, <3>2
  <2>8. Off(base, pulls[g]) < x /\ x < Upto(pulls, g)
    BY <1>4, <1>7, <1>8, <2>2, <2>3, <2>6, <2>7, SMTT(60)
  <2> QED BY <1>1, <1>4, <2>8 DEF x, base
<1>12. CASE k = m
  <2>1. After(ring, k).bearing = base
    BY <1>2, <1>3, <1>4, <1>12, AfterIs
  <2>2. g = n
    <3>1. \A i \in 1..m : ~(k < i)
      BY <1>3, <1>12
    <3> QED BY <1>10, <3>1
  <2>3. Upto(pulls, g) = Turn
    BY <2>2 DEF Upto
  <2>4. o = From(base, r) /\ o \in Nat /\ r \in Bearings
    BY <1>3, <1>5
  <2>5. From(r, b) \in Nat /\ From(r, b) < From(r, base)
    <3>1. From(r, b) \in Bearings
      BY <2>4, TurnBetween
    <3> QED BY <2>1, <3>1, AnglesAre DEF Bearings
  <2> HIDE DEF o, r, base, x
  <2>6. o # 0 /\ From(r, base) = Turn - o
    <3>1. o # 0
      <4> SUFFICES ASSUME o = 0 PROVE FALSE
        OBVIOUS
      <4>1. From(r, base) = 0
        BY <1>1, <2>4, TurnBetween
      <4> QED BY <2>5, <4>1
    <3> QED BY <1>1, <2>4, <3>1, TurnBetween
  <2>7. x = From(r, b) + o
    <3>1. From(r, b) + From(base, r) < Turn
      BY <1>8, <2>4, <2>5, <2>6
    <3>2. From(base, b) = From(r, b) + From(base, r)
      BY <1>1, <2>4, <3>1, TurnBetween
    <3> QED BY <2>4, <3>2 DEF x
  <2>8. Off(base, pulls[g]) < x /\ x < Upto(pulls, g)
    BY <1>4, <1>7, <1>8, <2>3, <2>4, <2>5, <2>7
  <2> QED BY <1>1, <1>4, <2>8 DEF x, base
<1> QED BY <1>11, <1>12

(* A pull put in its gap keeps the pulls going round.                      *)
LEMMA InsertGoes ==
    ASSUME NEW pulls \in Seq(Pull), pulls # <<>>, Going(pulls),
           NEW g \in DOMAIN pulls, NEW grab \in Pull,
           Off(pulls[1].bearing, pulls[g]) < From(pulls[1].bearing, grab.bearing),
           From(pulls[1].bearing, grab.bearing) < Upto(pulls, g)
    PROVE  Going(InsertAt(pulls, g + 1, grab))
<1> DEFINE n == Len(pulls)  base == pulls[1].bearing  s == InsertAt(pulls, g + 1, grab)
           F(i) == Off(base, pulls[i])  x == Off(base, grab)
<1>1. /\ n \in Nat \ {0} /\ DOMAIN pulls = 1..n /\ g \in 1..n /\ 1 \in 1..n
      /\ \A i \in 1..n : F(i) \in Nat
  <2>1. n \in Nat \ {0} /\ DOMAIN pulls = 1..n
    BY EmptySeq, LenProperties
  <2>2. \A i \in 1..n : F(i) \in Nat
    BY <2>1, WidthIs
  <2>3. 1 \in 1..n /\ g \in 1..n
    BY <2>1
  <2> QED BY <2>1, <2>2, <2>3
<1>2. /\ s \in Seq(Pull) /\ DOMAIN s = 1..(n + 1)
      /\ \A j \in 1..(n + 1) : s[j] = IF j < g + 1 THEN pulls[j] ELSE IF j = g + 1 THEN grab
                                      ELSE pulls[j - 1]
  <2>1. g + 1 \in 1..(n + 1)
    BY <1>1
  <2>2. /\ s \in Seq(Pull) /\ Len(s) = n + 1
        /\ \A j \in 1..(n + 1) : s[j] = IF j < g + 1 THEN pulls[j] ELSE IF j = g + 1 THEN grab
                                        ELSE pulls[j - 1]
    <3> DEFINE h == g + 1
    <3> HIDE DEF h
    <3>1. h \in 1..(Len(pulls) + 1)
      BY <2>1 DEF h
    <3>2. /\ InsertAt(pulls, h, grab) \in Seq(Pull)
          /\ Len(InsertAt(pulls, h, grab)) = Len(pulls) + 1
          /\ \A j \in 1..(Len(pulls) + 1) :
                InsertAt(pulls, h, grab)[j] = IF j < h THEN pulls[j] ELSE IF j = h THEN grab
                                              ELSE pulls[j - 1]
      BY <3>1, InsertAtIs
    <3> QED BY <3>2 DEF h
  <2>3. DOMAIN s = 1..(n + 1)
    BY <2>2, LenProperties
  <2> QED BY <2>2, <2>3
<1>3. x = From(base, grab.bearing) /\ F(g) < x /\ x < Upto(pulls, g) /\ x \in Nat
  <2>1. base \in Bearings /\ grab.bearing \in Bearings
    BY <1>1, ElementOfSeq, AnglesAre DEF Bearings
  <2>2. x \in Bearings
    BY <2>1, OffIs
  <2> QED BY <2>2, AnglesAre DEF Off, From, Bearings
<1>4. \A i, j \in 1..n : i < j => F(i) < F(j)
    BY <1>1 DEF Going
<1>5. \A i \in 1..n : (i <= g => F(i) < x) /\ (g < i => x < F(i))
  <2> SUFFICES ASSUME NEW i \in 1..n PROVE (i <= g => F(i) < x) /\ (g < i => x < F(i))
    OBVIOUS
  <2> DEFINE fi == F(i)  fg == F(g)
  <2>1. i <= g => fi < x
    <3>1. i <= g => (i = g \/ i < g)
      BY <1>1
    <3>2. i < g => fi < fg
      BY <1>1, <1>4
    <3>3. i = g => fi = fg
      OBVIOUS
    <3>4. fi \in Nat /\ fg \in Nat /\ fg < x /\ x \in Nat
      BY <1>1, <1>3
    <3> HIDE DEF fi, fg, x
    <3> QED BY <3>1, <3>2, <3>3, <3>4
  <2>2. ASSUME g < i PROVE x < fi
    <3>1. g + 1 \in 1..n /\ g # n /\ (g + 1 = i \/ g + 1 < i)
      BY <1>1, <2>2
    <3> DEFINE h == F(g + 1)
    <3>2. Upto(pulls, g) = h
      BY <3>1 DEF Upto
    <3>3. h = fi \/ h < fi
      BY <1>4, <3>1
    <3>4. h \in Nat /\ fi \in Nat /\ x < h /\ x \in Nat
      BY <1>1, <1>3, <3>1, <3>2
    <3> HIDE DEF fi, h, x
    <3> QED BY <3>3, <3>4
  <2> QED BY <2>1, <2>2
<1>6. s[1].bearing = base
  <2>1. 1 \in 1..(n + 1) /\ 1 < g + 1
    BY <1>1
  <2> HIDE DEF s
  <2> QED BY <1>2, <2>1
<1>7. ASSUME NEW j \in 1..(n + 1), NEW k \in 1..(n + 1), j < k
      PROVE  Off(base, s[j]) < Off(base, s[k])
  <2>1. /\ (j < g + 1 => j \in 1..n /\ j <= g) /\ (k < g + 1 => k \in 1..n /\ k <= g)
        /\ (~(j < g + 1) /\ j # g + 1 => j - 1 \in 1..n /\ g < j - 1)
        /\ (~(k < g + 1) /\ k # g + 1 => k - 1 \in 1..n /\ g < k - 1)
        /\ (k < g + 1 => j < g + 1)
    BY <1>1, <1>7
  <2> HIDE DEF s, x
  <2>2. CASE k < g + 1
    <3>1. s[j] = pulls[j] /\ s[k] = pulls[k]
      BY <1>2, <2>1, <2>2
    <3> QED BY <1>4, <1>7, <2>1, <2>2, <3>1
  <2>3. CASE k = g + 1
    <3>1. j < g + 1 /\ ~(k < g + 1)
      BY <1>1, <1>7, <2>3
    <3>2. s[j] = pulls[j] /\ s[k] = grab
      BY <1>2, <2>3, <3>1
    <3> QED BY <1>5, <2>1, <3>1, <3>2 DEF x
  <2>4. CASE ~(k < g + 1) /\ k # g + 1
    <3>1. s[k] = pulls[k - 1]
      BY <1>2, <2>4
    <3>2. CASE j < g + 1
      <4>1. s[j] = pulls[j] /\ j < k - 1
        BY <1>1, <1>2, <2>1, <2>4, <3>2
      <4> QED BY <1>4, <2>1, <2>4, <3>1, <3>2, <4>1
    <3>3. CASE j = g + 1
      <4>1. s[j] = grab
        BY <1>1, <1>2, <3>3
      <4> QED BY <1>5, <2>1, <2>4, <3>1, <4>1 DEF x
    <3>4. CASE ~(j < g + 1) /\ j # g + 1
      <4>1. s[j] = pulls[j - 1] /\ j - 1 < k - 1
        BY <1>1, <1>2, <1>7, <3>4
      <4> QED BY <1>4, <2>1, <2>4, <3>1, <3>4, <4>1
    <3> QED BY <3>2, <3>3, <3>4
  <2> QED BY <2>2, <2>3, <2>4
<1> QED BY <1>2, <1>6, <1>7 DEF Going

(* With a pull taken away the others go on going round.                    *)
LEMMA RemoveGoes ==
    ASSUME NEW pulls \in Seq(Pull), Going(pulls), NEW i \in DOMAIN pulls, Len(pulls) > 1
    PROVE  Going(RemoveAt(pulls, i))
<1> DEFINE n == Len(pulls)  base == pulls[1].bearing  s == RemoveAt(pulls, i)
           F(j) == Off(base, pulls[j])  new == s[1].bearing
<1>1. /\ n \in Nat /\ n > 1 /\ DOMAIN pulls = 1..n /\ i \in 1..n /\ 1 \in 1..n /\ 2 \in 1..n
      /\ \A j \in 1..n : F(j) \in Nat
      /\ \A j \in 1..n : pulls[j].bearing \in Bearings
  <2>1. n \in Nat /\ DOMAIN pulls = 1..n
    BY LenProperties
  <2>2. \A j \in 1..n : F(j) \in Nat
    BY <2>1, WidthIs, SMTT(60)
  <2>3. \A j \in 1..n : pulls[j].bearing \in Bearings
    BY ElementOfSeq, AnglesAre DEF Bearings
  <2>4. 1 \in 1..n /\ 2 \in 1..n
    BY <2>1
  <2> QED BY <2>1, <2>2, <2>3, <2>4
<1>2. /\ s \in Seq(Pull) /\ DOMAIN s = 1..(n - 1)
      /\ \A j \in 1..(n - 1) : s[j] = IF j < i THEN pulls[j] ELSE pulls[j + 1]
  <2>1. /\ s \in Seq(Pull) /\ Len(s) = n - 1
        /\ \A j \in 1..(n - 1) : s[j] = IF j < i THEN pulls[j] ELSE pulls[j + 1]
    BY <1>1, RemoveAtIs
  <2> QED BY <2>1, LenProperties
<1>3. \A j, k \in 1..n : j < k => F(j) < F(k)
    BY <1>1 DEF Going
<1> HIDE DEF s
<1>4. ASSUME NEW j \in 1..(n - 1)
      PROVE  \E m \in 1..n : m = (IF j < i THEN j ELSE j + 1) /\ s[j] = pulls[m]
  <2>1. (IF j < i THEN j ELSE j + 1) \in 1..n
    BY <1>1
  <2> QED BY <1>2, <2>1
<1>5. 1 \in 1..(n - 1)
    BY <1>1
<1>6. PICK one \in 1..n : one = (IF 1 < i THEN 1 ELSE 1 + 1) /\ s[1] = pulls[one]
    BY <1>4, <1>5
<1>7. ASSUME NEW j \in 1..(n - 1), NEW k \in 1..(n - 1), j < k
      PROVE  Off(new, s[j]) < Off(new, s[k])
  <2>1. PICK p \in 1..n : p = (IF j < i THEN j ELSE j + 1) /\ s[j] = pulls[p]
    BY <1>4
  <2>2. PICK q \in 1..n : q = (IF k < i THEN k ELSE k + 1) /\ s[k] = pulls[q]
    BY <1>4
  <2>3. p < q /\ (one = p \/ one < p)
    BY <1>1, <1>6, <1>7, <2>1, <2>2
  <2> DEFINE fo == F(one)  fp == F(p)  fq == F(q)
             bo == pulls[one].bearing  bp == pulls[p].bearing  bq == pulls[q].bearing
  <2>4. fp < fq /\ fo <= fp /\ fo <= fq /\ fo \in Nat /\ fp \in Nat /\ fq \in Nat
    <3>1. fo \in Nat /\ fp \in Nat /\ fq \in Nat
      BY <1>1
    <3>2. fp < fq /\ (fo = fp \/ fo < fp)
      BY <1>3, <2>3
    <3> HIDE DEF fo, fp, fq
    <3> QED BY <3>1, <3>2
  <2>5. /\ fo = From(base, bo) /\ fp = From(base, bp) /\ fq = From(base, bq)
        /\ base \in Bearings /\ bo \in Bearings /\ bp \in Bearings /\ bq \in Bearings
    BY <1>1 DEF Off, From
  <2>6. Off(new, s[j]) = From(bo, bp) /\ Off(new, s[k]) = From(bo, bq)
    BY <1>6, <2>1, <2>2 DEF Off, From
  <2> HIDE DEF fo, fp, fq, bo, bp, bq, base, new
  <2>7. From(bo, bp) = fp - fo /\ From(bo, bq) = fq - fo
    BY <2>4, <2>5, TurnBetween
  <2> QED BY <2>4, <2>6, <2>7
<1>8. Going(s)
    BY <1>2, <1>7 DEF Going
<1> QED BY <1>8 DEF s

(* Pulling out a new point and taking one away keep pulls in order that    *)
(* were, whatever the circle, the cones and the number of pulls.           *)
THEOREM EditsKeepOrderAlways == Spec => EditsKeepOrder
<1> DEFINE Edit == /\ shape.kind = "pulled" /\ shape'.kind = "pulled"
                   /\ InOrder(shape.pulls) /\ Len(shape'.pulls) # Len(shape.pulls)
<1>1. ASSUME ShapeInv, Next, Edit PROVE InOrder(shape'.pulls)
  <2> DEFINE pulls == shape.pulls
  <2>1. shape \in Pulleds /\ shape \in Shapes /\ pulls \in Seq(Pull) /\ pulls # <<>>
    BY <1>1, ByKind, ShapeIs DEF ShapeInv
  <2>2. Going(pulls)
    BY <1>1, <2>1, InOrderIsGoing
  <2>3. CASE Thin
    <3>1. shape' = shape \/ \E q : shape' = Freehand(q)
      BY <2>3 DEF Thin, StartThin, ThinStep, ThinAgain, ThinDone
    <3>2. \A q : Freehand(q).kind # "pulled"
      BY DEF Freehand
    <3> QED BY <1>1, <3>1, <3>2
  <2>4. ASSUME NEW grab \in Pull, StartPull(grab) PROVE FALSE
    BY <1>1, <2>4, ShapeIs DEF StartPull
  <2>5. ASSUME NEW grab \in Pull, InsertPull(grab) PROVE InOrder(shape'.pulls)
    <3> DEFINE ring == PulledRing(pulls)  base == pulls[1].bearing
    <3>1. PICK k \in DOMAIN ring :
             /\ (grab.bearing - ring[k].bearing) % Turn
                   < (After(ring, k).bearing - ring[k].bearing) % Turn
             /\ ring[k].gap \in DOMAIN pulls
             /\ shape' = Pulled(Circle, InsertAt(pulls, ring[k].gap + 1, grab))
      BY <2>1, <2>5, InsertPullIs
    <3>2. From(ring[k].bearing, grab.bearing) < From(ring[k].bearing, After(ring, k).bearing)
      BY <3>1 DEF From
    <3>3. \A i \in DOMAIN pulls : pulls[i].bearing # grab.bearing
      BY <2>5 DEF InsertPull
    <3>4. grab.bearing \in Bearings
      BY AnglesAre DEF Bearings
    <3> DEFINE g == ring[k].gap
    <3>5. Off(base, pulls[g]) < From(base, grab.bearing) /\ From(base, grab.bearing) < Upto(pulls, g)
      <4> HIDE DEF ring
      <4>1. ring = PulledRing(pulls)
        BY DEF ring
      <4> QED BY <2>1, <2>2, <3>1, <3>2, <3>3, <3>4, <4>1, GapHolds
    <3> HIDE DEF g, ring
    <3>6. g \in DOMAIN pulls /\ shape' = Pulled(Circle, InsertAt(pulls, g + 1, grab))
      BY <3>1 DEF g
    <3>7. Going(InsertAt(pulls, g + 1, grab))
      BY <2>1, <2>2, <3>5, <3>6, InsertGoes
    <3>8. InsertAt(pulls, g + 1, grab) \in Seq(Pull) /\ InsertAt(pulls, g + 1, grab) # <<>>
      <4>1. shape' \in Pulleds /\ shape'.pulls = InsertAt(pulls, g + 1, grab)
        BY <2>1, <2>5, <3>6, InsertPullIs DEF Pulled
      <4> QED BY <4>1, ShapeIs
    <3>9. shape'.pulls = InsertAt(pulls, g + 1, grab)
      BY <3>6 DEF Pulled
    <3> QED BY <3>7, <3>8, <3>9, InOrderIsGoing
  <2>6. ASSUME NEW grab \in Grid, InsertCorner(grab) PROVE FALSE
    BY <1>1, <2>6 DEF InsertCorner
  <2>7. ASSUME NEW index, Move(index) PROVE FALSE
    <3>1. PICK to : to \in Pull /\ shape' = MoveHandle(shape, index, to)
      BY <1>1, <2>7 DEF Move
    <3>2. IsHandle(shape, index)
      BY <2>7 DEF Move
    <3>3. Len(MoveHandle(shape, index, to).pulls) = Len(shape.pulls)
      BY <1>1, <2>1, <3>1, <3>2, Moved
    <3> QED BY <1>1, <3>1, <3>3
  <2>8. ASSUME NEW index, TakeOut(index) PROVE InOrder(shape'.pulls)
    <3>1. IsHandle(shape, index) /\ CanRemove(shape) /\ shape' = RemoveHandle(shape, index)
      BY <2>8 DEF TakeOut
    <3>2. /\ index \in 1..Len(pulls) /\ Len(pulls) > 1
          /\ shape' = Pulled(Circle, RemoveAt(pulls, index))
      BY <1>1, <2>1, <3>1, TakenOut
    <3>3. index \in DOMAIN pulls
      BY <2>1, <3>2, LenProperties
    <3>4. Going(RemoveAt(pulls, index))
      BY <2>1, <2>2, <3>2, <3>3, RemoveGoes
    <3>5. RemoveAt(pulls, index) \in Seq(Pull) /\ RemoveAt(pulls, index) # <<>>
      <4>1. RemoveAt(pulls, index) \in Seq(Pull) /\ Len(RemoveAt(pulls, index)) = Len(pulls) - 1
        BY <2>1, <3>2, RemoveAtIs
      <4>2. Len(pulls) \in Nat
        BY <2>1, LenProperties
      <4> QED BY <3>2, <4>1, <4>2
    <3>6. shape'.pulls = RemoveAt(pulls, index)
      BY <3>2 DEF Pulled
    <3> QED BY <3>4, <3>5, <3>6, InOrderIsGoing
  <2> QED BY <1>1, <2>3, <2>4, <2>5, <2>6, <2>7, <2>8 DEF Next
<1>2. ShapeInv /\ [Next]_vars =>
         [(/\ shape.kind = "pulled" /\ shape'.kind = "pulled"
           /\ InOrder(shape.pulls)
           /\ Len(shape'.pulls) # Len(shape.pulls)) => InOrder(shape'.pulls)]_vars
    BY <1>1
<1> QED BY <1>2, ShapeInvariant, PTL DEF Spec, EditsKeepOrder

-----------------------------------------------------------------------------
(* A place of a segment that is not beyond its first end is that end.      *)
LEMMA AtTheEnd ==
    ASSUME NEW p \in Place, NEW a \in Place, NEW b \in Place,
           OnSegment(a, b, p), Along(p, a, b) <= 0
    PROVE  p = a
<1>1. /\ p.x \in Int /\ p.y \in Int /\ a.x \in Int /\ a.y \in Int /\ b.x \in Int /\ b.y \in Int
    BY DEF Place
<1>2. ASSUME NEW k \in Int, NEW l \in Int, NEW m \in Int, Between(l, m, k)
      PROVE  (k - l) * (m - l) \in Nat /\ ((k - l) * (m - l) = 0 => k = l)
  <2> DEFINE u == k - l  w == m - l
  <2>1. /\ u \in Int /\ w \in Int /\ ((u >= 0 /\ w >= 0) \/ (u <= 0 /\ w <= 0))
        /\ (w = 0 => u = 0) /\ (u = 0 => k = l)
    BY <1>2 DEF Between
  <2>2. \A s, t \in Nat : s * t \in Nat /\ (s * t = 0 => s = 0 \/ t = 0)
    BY Z3
  <2>3. \A s, t \in Int : (-s) * (-t) = s * t
    BY Z3
  <2> HIDE DEF u, w
  <2>4. u * w \in Nat /\ (u * w = 0 => u = 0 \/ w = 0)
    <3>1. CASE u >= 0 /\ w >= 0
      BY <2>1, <2>2, <3>1
    <3>2. CASE u <= 0 /\ w <= 0
      <4>1. -u \in Nat /\ -w \in Nat /\ (-u) * (-w) = u * w
        BY <2>1, <2>3, <3>2
      <4>2. (-u) * (-w) \in Nat /\ ((-u) * (-w) = 0 => -u = 0 \/ -w = 0)
        BY <2>2, <4>1
      <4> QED BY <2>1, <4>1, <4>2
    <3> QED BY <2>1, <3>1, <3>2
  <2> QED BY <2>1, <2>4 DEF u, w
<1> DEFINE kx == (p.x - a.x) * (b.x - a.x)  ky == (p.y - a.y) * (b.y - a.y)
<1>3. kx \in Nat /\ ky \in Nat /\ (kx = 0 => p.x = a.x) /\ (ky = 0 => p.y = a.y)
    BY <1>1, <1>2 DEF OnSegment
<1>4. kx + ky <= 0
    BY DEF Along
<1> HIDE DEF kx, ky
<1>5. kx = 0 /\ ky = 0
    BY <1>3, <1>4
<1> QED BY <1>3, <1>5 DEF Place

(* A place on a segment is at no distance from it.                         *)
LEMMA OnItIsNear ==
    ASSUME NEW p \in Place, NEW a \in Place, NEW b \in Place,
           Orientation(a, b, p) = 0, OnSegment(a, b, p)
    PROVE  DistanceToSegment(p, a, b).num = 0
<1>1. /\ Gap(p, a) \in Nat /\ Gap(p, b) \in Nat /\ Gap(a, b) \in Nat /\ Gap(b, b) = 0
      /\ Gap(a, a) = 0 /\ Along(p, a, b) \in Int /\ Along(p, b, a) \in Int
    BY GapIs, GapAlong
<1>2. /\ Gap(p, b) = Gap(p, a) - 2 * Along(p, a, b) + Gap(a, b)
      /\ Gap(p, a) = Gap(p, b) - 2 * Along(p, b, a) + Gap(b, a)
    BY GapAlong
<1>3. Gap(b, a) = Gap(a, b)
  <2>1. a.x \in Int /\ a.y \in Int /\ b.x \in Int /\ b.y \in Int
    BY DEF Place
  <2>2. \A k, l \in Int : (k - l) * (k - l) = (l - k) * (l - k)
    BY Z3
  <2>3. Square(b.x - a.x) = Square(a.x - b.x) /\ Square(b.y - a.y) = Square(a.y - b.y)
    BY <2>1, <2>2 DEF Square
  <2> QED BY <2>3 DEF Gap
<1>4. OnSegment(b, a, p)
    BY DEF OnSegment, Between
<1>5. \A k \in Int : 0 * k = 0 /\ k * 0 = 0
    OBVIOUS
<1>6. DistanceToSegment(p, a, b).den \in Nat
    BY DistanceIs
<1>7. CASE Along(p, a, b) <= 0
  <2>1. p = a
    BY <1>7, AtTheEnd
  <2>2. DistanceToSegment(p, a, b).num = Gap(p, a) * DistanceToSegment(p, a, b).den
    <3>1. ~(Along(p, a, b) > 0)
      BY <1>1, <1>7
    <3> QED BY <3>1, DistanceIs
  <2> QED BY <1>1, <1>5, <1>6, <2>1, <2>2
<1>8. CASE Along(p, a, b) > 0 /\ Along(p, a, b) >= Gap(a, b)
  <2>1. Along(p, b, a) <= 0
    BY <1>1, <1>2, <1>3, <1>8
  <2>2. p = b
    BY <1>4, <2>1, AtTheEnd
  <2>3. DistanceToSegment(p, a, b).num = Gap(p, b) * Gap(a, b)
    <3>1. ~(Along(p, a, b) <= 0) /\ ~(Along(p, a, b) < Gap(a, b))
      BY <1>1, <1>8
    <3> QED BY <3>1, DistanceIs
  <2> QED BY <1>1, <1>5, <2>2, <2>3
<1>9. CASE Along(p, a, b) > 0 /\ Along(p, a, b) < Gap(a, b)
  <2>1. DistanceToSegment(p, a, b).num = Orientation(a, b, p) * Orientation(a, b, p)
    <3>1. ~(Along(p, a, b) <= 0) /\ ~(Along(p, a, b) >= Gap(a, b))
      BY <1>1, <1>9
    <3> QED BY <3>1, DistanceIs
  <2> QED BY <1>5, <2>1
<1> QED BY <1>1, <1>7, <1>8, <1>9

(* A place at no distance from a segment is in its line.                   *)
LEMMA NearIsInLine ==
    ASSUME NEW p \in Place, NEW a \in Place, NEW b \in Place,
           DistanceToSegment(p, a, b).num = 0
    PROVE  Orientation(a, b, p) = 0
<1>0. /\ p.x \in Int /\ p.y \in Int /\ a.x \in Int /\ a.y \in Int /\ b.x \in Int /\ b.y \in Int
    BY DEF Place
<1>1. /\ Gap(p, a) \in Nat /\ Gap(p, b) \in Nat /\ Gap(a, b) \in Nat
      /\ (Gap(p, a) = 0 => p = a) /\ (Gap(p, b) = 0 => p = b)
      /\ DistanceToSegment(p, a, b).den \in Nat \ {0} /\ Orientation(a, b, p) \in Int
    BY GapIs, GapAlong, DistanceIs
<1>2. \A k \in Nat, d \in Nat \ {0} : k * d = 0 => k = 0
    BY Z3
<1>3. \A k \in Int : k * k = 0 => k = 0
    BY Z3
<1>4. p = a => Orientation(a, b, p) = 0
    BY <1>0 DEF Orientation
<1>5. p = b => Orientation(a, b, p) = 0
  <2>1. \A k, l \in Int : k * l - l * k = 0
    BY Z3
  <2> QED BY <1>0, <2>1 DEF Orientation
<1>6. CASE DistanceToSegment(p, a, b).num = Gap(p, a) * DistanceToSegment(p, a, b).den
    BY <1>1, <1>2, <1>4, <1>6
<1>7. CASE /\ DistanceToSegment(p, a, b).den = Gap(a, b)
           /\ DistanceToSegment(p, a, b).num = Gap(p, b) * Gap(a, b)
    BY <1>1, <1>2, <1>5, <1>7
<1>8. CASE DistanceToSegment(p, a, b).num = Orientation(a, b, p) * Orientation(a, b, p)
    BY <1>1, <1>3, <1>8
<1> QED BY <1>6, <1>7, <1>8, DistanceIs

(* The nearest segment of one that is on an edge is in its line.           *)
LEMMA NearestInLine ==
    ASSUME NEW ring \in Seq(Place), ring # <<>>, NEW p \in Place, NEW i \in DOMAIN ring,
           Orientation(ring[i], After(ring, i), p) = 0, OnSegment(ring[i], After(ring, i), p)
    PROVE  LET n == NearestSegment(ring, p)
           IN  n \in DOMAIN ring /\ Orientation(ring[n], After(ring, n), p) = 0
<1> DEFINE n == NearestSegment(ring, p)
           di == DistanceToSegment(p, ring[i], After(ring, i))
           dn == DistanceToSegment(p, ring[n], After(ring, n))
<1>1. n \in DOMAIN ring /\ ~Nearer(di, dn)
    BY NearestIs
<1> HIDE DEF n
<1>2. ring[i] \in Place /\ After(ring, i) \in Place /\ ring[n] \in Place /\ After(ring, n) \in Place
    BY <1>1, AfterIs, ElementOfSeq, LenProperties
<1>3. di.num = 0 /\ di.den \in Nat \ {0} /\ dn.num \in Nat /\ dn.den \in Nat \ {0}
    BY <1>2, DistanceIs, OnItIsNear
<1>4. ~(di.num * dn.den < dn.num * di.den)
    BY <1>1 DEF Nearer
<1> HIDE DEF di, dn
<1>5. dn.num = 0
  <2>1. \A k \in Nat, l \in Nat \ {0}, m \in Nat \ {0} : ~(0 * l < k * m) => k = 0
    BY Z3
  <2> QED BY <1>3, <1>4, <2>1
<1> QED BY <1>1, <1>2, <1>5, NearIsInLine DEF dn, n

(* Twice the area between an edge and the origin.                          *)
Cross(a, b) == a.x * b.y - b.x * a.y

(* The edges of a ring, each by that area.                                 *)
EdgeAreas(ring) == [i \in DOMAIN ring |-> Cross(ring[i], After(ring, i))]

(* An edge divided at a place in its line has the area of its parts.       *)
LEMMA CrossDivides ==
    ASSUME NEW p \in Place, NEW a \in Place, NEW b \in Place, Orientation(a, b, p) = 0
    PROVE  /\ Cross(a, p) + Cross(p, b) = Cross(a, b)
           /\ Cross(a, p) \in Int /\ Cross(p, b) \in Int /\ Cross(a, b) \in Int
<1>1. /\ p.x \in Int /\ p.y \in Int /\ a.x \in Int /\ a.y \in Int /\ b.x \in Int /\ b.y \in Int
    BY DEF Place
<1>2. \A px, py, ax, ay, bx, by \in Int :
         (ax * py - px * ay) + (px * by - bx * py)
           = (ax * by - bx * ay) - ((bx - ax) * (py - ay) - (by - ay) * (px - ax))
    BY Z3
<1>3. Cross(a, p) + Cross(p, b) = Cross(a, b) - Orientation(a, b, p)
    BY <1>1, <1>2 DEF Cross, Orientation
<1>4. Cross(a, p) \in Int /\ Cross(p, b) \in Int /\ Cross(a, b) \in Int
    BY <1>1 DEF Cross
<1> QED BY <1>3, <1>4

(* A corner put in there leaves the sum of the edges as it was.            *)
LEMMA InsertKeepsSum ==
    ASSUME NEW ring \in Seq(Place), NEW n \in DOMAIN ring, NEW p \in Place,
           Orientation(ring[n], After(ring, n), p) = 0
    PROVE  SumOf(EdgeAreas(InsertAt(ring, n + 1, p))) = SumOf(EdgeAreas(ring))
<1> DEFINE m == Len(ring)  s == InsertAt(ring, n + 1, p)  f == EdgeAreas(ring)  g == EdgeAreas(s)
           a == ring[n]  b == After(ring, n)
<1>1. /\ m \in Nat \ {0} /\ DOMAIN ring = 1..m /\ n \in 1..m
      /\ \A i \in 1..m : /\ ring[i] \in Place /\ After(ring, i) \in Place
                         /\ After(ring, i) = ring[IF i = m THEN 1 ELSE i + 1]
  <2>1. m \in Nat /\ DOMAIN ring = 1..m /\ n \in 1..m
    BY LenProperties
  <2>2. ASSUME NEW i \in 1..m
        PROVE  /\ ring[i] \in Place /\ After(ring, i) \in Place
               /\ After(ring, i) = ring[IF i = m THEN 1 ELSE i + 1]
    <3>1. i \in DOMAIN ring
      BY <2>1
    <3> QED BY <3>1, AfterIs, ElementOfSeq, LenProperties, SMTT(60)
  <2>3. m \in Nat \ {0}
    BY <2>1
  <2> QED BY <2>1, <2>2, <2>3
<1>2. /\ Cross(a, p) + Cross(p, b) = Cross(a, b)
      /\ Cross(a, p) \in Int /\ Cross(p, b) \in Int /\ Cross(a, b) \in Int
    BY <1>1, CrossDivides
<1>3. /\ s \in Seq(Place) /\ Len(s) = m + 1 /\ DOMAIN s = 1..(m + 1)
      /\ \A j \in 1..(m + 1) : s[j] = IF j < n + 1 THEN ring[j] ELSE IF j = n + 1 THEN p
                                      ELSE ring[j - 1]
  <2> DEFINE h == n + 1
  <2>1. h \in 1..(Len(ring) + 1)
    <3>1. m \in Nat /\ n \in 1..m
      BY <1>1
    <3> QED BY <3>1, SMTT(60)
  <2> HIDE DEF h
  <2>2. InsertAt(ring, h, p) \in Seq(Place) /\ IsWith(InsertAt(ring, h, p), ring, h, p)
    BY <2>1, InsertAtPuts
  <2>3. /\ s \in Seq(Place) /\ Len(s) = m + 1
        /\ \A j \in 1..(m + 1) : s[j] = IF j < n + 1 THEN ring[j] ELSE IF j = n + 1 THEN p
                                        ELSE ring[j - 1]
    BY <2>2 DEF IsWith, h
  <2> QED BY <2>3, LenProperties
<1>4. /\ \A i \in 1..m : f[i] = Cross(ring[i], After(ring, i)) /\ f[i] \in Int
      /\ f \in Seq(Int) /\ Len(f) = m
  <2>1. ASSUME NEW i \in 1..m PROVE Cross(ring[i], After(ring, i)) \in Int
    <3>1. ring[i] \in Place /\ After(ring, i) \in Place
      BY <1>1, ZenonT(60)
    <3> QED BY <3>1, SMTT(60) DEF Cross, Place
  <2>2. f = [i \in 1..m |-> Cross(ring[i], After(ring, i))]
    BY <1>1 DEF EdgeAreas
  <2> HIDE DEF f, m
  <2>3. f \in [1..m -> Int] /\ \A i \in 1..m : f[i] = Cross(ring[i], After(ring, i))
    BY <2>1, <2>2
  <2> QED BY <1>1, <2>1, <2>3
<1> HIDE DEF s
<1>5. ASSUME NEW j \in 1..(m + 1)
      PROVE  After(s, j) = s[IF j = m + 1 THEN 1 ELSE j + 1]
  <2>1. j \in DOMAIN s
    BY <1>3
  <2>2. After(s, j) = s[IF j = Len(s) THEN 1 ELSE j + 1]
    BY <1>3, <2>1, AfterIs, ZenonT(60)
  <2> QED BY <1>3, <2>2
<1>6. g = [j \in 1..(m + 1) |-> Cross(s[j], After(s, j))]
    BY <1>3 DEF EdgeAreas
<1> HIDE DEF m, f, g
<1>7. ASSUME NEW j \in 1..(m + 1)
      PROVE  /\ j < n => g[j] = f[j]
             /\ j = n => g[j] = Cross(a, p)
             /\ j = n + 1 => g[j] = Cross(p, b)
             /\ j > n + 1 => g[j] = f[j - 1]
             /\ g[j] \in Int
  <2>1. g[j] = Cross(s[j], After(s, j))
    BY <1>6
  <2>2. CASE j < n
    <3>1. j \in 1..m /\ j # m /\ j + 1 \in 1..(m + 1) /\ j # m + 1 /\ j < n + 1 /\ j + 1 < n + 1
      BY <1>1, <2>2
    <3>2. s[j] = ring[j] /\ s[j + 1] = ring[j + 1]
      BY <1>3, <3>1
    <3>3. After(s, j) = ring[j + 1] /\ After(ring, j) = ring[j + 1]
      BY <1>1, <1>5, <3>1, <3>2
    <3>4. g[j] = f[j] /\ g[j] \in Int
      BY <1>4, <2>1, <3>1, <3>2, <3>3
    <3> QED BY <1>1, <2>2, <3>4
  <2>3. CASE j = n
    <3>1. j \in 1..m /\ j # m + 1 /\ j + 1 \in 1..(m + 1) /\ j < n + 1 /\ ~(n + 1 < n + 1)
      BY <1>1, <2>3
    <3>2. s[j] = a /\ s[j + 1] = p
      BY <1>3, <2>3, <3>1
    <3>3. g[j] = Cross(a, p)
      BY <1>5, <2>1, <3>1, <3>2
    <3> QED BY <1>1, <1>2, <2>3, <3>3
  <2>4. CASE j = n + 1
    <3>1. s[j] = p
      BY <1>3, <2>4
    <3>2. After(s, j) = b
      <4>1. CASE n = m
        <5>1. 1 \in 1..(m + 1) /\ 1 < n + 1 /\ j = m + 1
          BY <1>1, <2>4, <4>1
        <5> QED BY <1>1, <1>3, <1>5, <4>1, <5>1
      <4>2. CASE n # m
        <5>1. /\ j + 1 \in 1..(m + 1) /\ ~(j + 1 < n + 1) /\ j + 1 # n + 1 /\ j # m + 1
              /\ (j + 1) - 1 = n + 1
          BY <1>1, <2>4, <4>2
        <5>2. s[j + 1] = ring[n + 1]
          BY <1>3, <5>1
        <5> QED BY <1>1, <1>5, <4>2, <5>1, <5>2
      <4> QED BY <4>1, <4>2
    <3>3. g[j] = Cross(p, b)
      BY <2>1, <3>1, <3>2
    <3> QED BY <1>1, <1>2, <2>4, <3>3
  <2>5. CASE j > n + 1
    <3>1. j - 1 \in 1..m /\ ~(j < n + 1) /\ j # n + 1 /\ ~(j < n) /\ j # n
      BY <1>1, <2>5
    <3>2. s[j] = ring[j - 1]
      BY <1>3, <3>1
    <3>3. After(s, j) = After(ring, j - 1)
      <4>1. CASE j = m + 1
        <5>1. 1 \in 1..(m + 1) /\ 1 < n + 1 /\ j - 1 = m
          BY <1>1, <4>1
        <5> QED BY <1>1, <1>3, <1>5, <3>1, <4>1, <5>1
      <4>2. CASE j # m + 1
        <5>1. /\ j + 1 \in 1..(m + 1) /\ ~(j + 1 < n + 1) /\ j + 1 # n + 1
              /\ (j + 1) - 1 = j /\ (j - 1) + 1 = j /\ j - 1 # m
          BY <1>1, <2>5, <4>2
        <5>2. s[j + 1] = ring[j]
          BY <1>3, <5>1
        <5> QED BY <1>1, <1>5, <3>1, <4>2, <5>1, <5>2
      <4> QED BY <4>1, <4>2
    <3>4. g[j] = f[j - 1] /\ g[j] \in Int
      BY <1>4, <2>1, <3>1, <3>2, <3>3
    <3> QED BY <2>5, <3>1, <3>4
  <2>6. j < n \/ j = n \/ j = n + 1 \/ j > n + 1
    BY <1>1
  <2> QED BY <2>2, <2>3, <2>4, <2>5, <2>6
<1>8. g \in Seq(Int) /\ Len(g) = m + 1
  <2>1. \A j \in 1..(m + 1) : g[j] \in Int
    BY <1>7
  <2>2. g \in [1..(m + 1) -> Int]
    BY <1>6, <2>1
  <2> QED BY <1>1, <2>2
<1>9. PICK u \in [0..m -> Int] :
         u[0] = 0 /\ (\A k \in 1..m : u[k] = u[k - 1] + f[k]) /\ SumOf(f) = u[m]
  <2>1. PICK u \in [0..Len(f) -> Int] :
              /\ u[0] = 0 /\ \A k \in 1..Len(f) : u[k] = u[k - 1] + f[k]
              /\ SumOf(f) = u[Len(f)]
    BY <1>4, SumIs
  <2> QED BY <1>4, <2>1
<1> DEFINE v == [k \in 0..(m + 1) |-> IF k < n THEN u[k] ELSE IF k = n THEN u[n - 1] + Cross(a, p)
                                      ELSE u[k - 1]]
<1>10. v[0] = 0 /\ v[m + 1] = u[m]
  <2>1. /\ 0 \in 0..(m + 1) /\ 0 < n /\ m + 1 \in 0..(m + 1) /\ ~(m + 1 < n) /\ m + 1 # n
        /\ (m + 1) - 1 = m
    BY <1>1
  <2> QED BY <1>9, <2>1
<1>11. ASSUME NEW k \in 1..(m + 1) PROVE v[k] = v[k - 1] + g[k]
  <2>1. k \in 0..(m + 1) /\ k - 1 \in 0..(m + 1)
    BY <1>1
  <2>2. CASE k < n
    <3>1. k - 1 < n /\ k \in 1..m
      BY <1>1, <2>2
    <3>2. v[k] = u[k] /\ v[k - 1] = u[k - 1]
      BY <2>1, <2>2, <3>1
    <3> HIDE DEF v
    <3> QED BY <1>7, <1>9, <2>2, <3>1, <3>2
  <2>3. CASE k = n
    <3>1. k - 1 < n /\ ~(k < n)
      BY <1>1, <2>3
    <3>2. v[k] = u[n - 1] + Cross(a, p) /\ v[k - 1] = u[n - 1]
      BY <2>1, <2>3, <3>1
    <3> HIDE DEF v
    <3> QED BY <1>7, <2>3, <3>2
  <2>4. CASE k = n + 1
    <3>1. k - 1 = n /\ ~(k < n) /\ k # n /\ ~(k - 1 < n) /\ n \in 0..m /\ n - 1 \in 0..m
      BY <1>1, <2>4
    <3>2. v[k] = u[n] /\ v[k - 1] = u[n - 1] + Cross(a, p)
      BY <2>1, <2>4, <3>1
    <3>3. u[n] = u[n - 1] + f[n] /\ f[n] = Cross(a, b) /\ u[n] \in Int /\ u[n - 1] \in Int
      BY <1>1, <1>4, <1>9, <3>1
    <3>4. g[k] = Cross(p, b)
      BY <1>7, <2>4
    <3> HIDE DEF v, a, b
    <3> QED BY <1>2, <3>2, <3>3, <3>4
  <2>5. CASE k > n + 1
    <3>1. ~(k < n) /\ k # n /\ ~(k - 1 < n) /\ k - 1 # n /\ k - 1 \in 1..m
      BY <1>1, <2>5
    <3>2. v[k] = u[k - 1] /\ v[k - 1] = u[(k - 1) - 1]
      BY <2>1, <3>1
    <3>3. u[k - 1] = u[(k - 1) - 1] + f[k - 1]
      BY <1>9, <3>1
    <3> HIDE DEF v
    <3> QED BY <1>7, <2>5, <3>2, <3>3
  <2>6. k < n \/ k = n \/ k = n + 1 \/ k > n + 1
    BY <1>1, SMTT(60)
  <2> QED BY <2>2, <2>3, <2>4, <2>5, <2>6
<1> HIDE DEF v
<1>12. SumOf(g) = v[m + 1]
  <2>1. \A k \in 1..Len(g) : v[k] = v[k - 1] + g[k]
    BY <1>8, <1>11
  <2>2. SumOf(g) = v[Len(g)]
    BY <1>8, <1>10, <2>1, SumTo
  <2> QED BY <1>8, <2>2
<1> QED BY <1>9, <1>10, <1>12, SMTT(60) DEF f, g, s

(* A handle put on an edge of any outline, on its nearest segment, leaves  *)
(* the area as it was.                                                     *)
THEOREM GrabKeepsAreaAlways == Spec => []GrabKeepsArea
<1>1. ShapeInv => GrabKeepsArea
  <2> SUFFICES ASSUME ShapeInv, shape.kind = "freehand",
                      NEW grab \in {p \in Probes : OnEdge(p)}
               PROVE  TwiceArea(InsertAt(Outline, NearestSegment(Outline, grab) + 1, grab))
                        = TwiceArea(Outline)
    BY DEF GrabKeepsArea
  <2> DEFINE ring == Outline  n == NearestSegment(ring, grab)
  <2>1. shape.points \in Seq(Points) /\ shape.points # <<>>
    BY ByKind, ShapeIs DEF ShapeInv
  <2>2. ring \in Seq(Place) /\ ring # <<>>
    <3>1. ring \in Seq(Place) /\ Len(ring) = Len(shape.points)
      BY <2>1, CornersAre DEF Outline
    <3>2. Len(shape.points) # 0
      BY <2>1, EmptySeq
    <3> QED BY <3>1, <3>2, EmptySeq
  <2>3. grab \in Place /\ OnEdge(grab)
    BY ShapeAssumption DEF Place
  <2>4. PICK i \in DOMAIN ring : Orientation(ring[i], After(ring, i), grab) = 0
                                 /\ OnSegment(ring[i], After(ring, i), grab)
    BY <2>3 DEF OnEdge
  <2>5. n \in DOMAIN ring /\ Orientation(ring[n], After(ring, n), grab) = 0
    <3> HIDE DEF ring
    <3> QED BY <2>2, <2>3, <2>4, NearestInLine
  <2>6. SumOf(EdgeAreas(InsertAt(ring, n + 1, grab))) = SumOf(EdgeAreas(ring))
    <3> HIDE DEF ring, n
    <3> QED BY <2>2, <2>3, <2>5, InsertKeepsSum
  <2>7. \A r : TwiceArea(r) = LET k == SumOf(EdgeAreas(r)) IN IF k < 0 THEN -k ELSE k
    BY DEF TwiceArea, EdgeAreas, Cross
  <2> HIDE DEF ring, n
  <2>8. TwiceArea(InsertAt(ring, n + 1, grab)) = TwiceArea(ring)
    BY <2>6, <2>7
  <2> QED BY <2>8 DEF ring, n
<1> QED BY <1>1, ShapeInvariant, PTL

-----------------------------------------------------------------------------
(* What is in line with two others and between them by its first           *)
(* coordinate is so by its second, if those are two by the first.          *)
LEMMA BetweenToo ==
    /\ \A u, w, e, f \in Int :
          (u # 0 /\ u * f = w * e /\ Between(0, u, e)) => Between(0, w, f)
    /\ \A s, t, k, l \in Int :
          (s # t /\ ~((s > 0 /\ t > 0) \/ (s < 0 /\ t < 0)) /\ t * k = s * l)
             => Between(k, l, 0)
<1>1. \A u, w, e, f \in Int :
         (u > 0 /\ u * f = w * e /\ 0 <= e /\ e <= u) =>
            (w >= 0 => 0 <= f /\ f <= w) /\ (w <= 0 => w <= f /\ f <= 0)
  <2> SUFFICES ASSUME NEW u \in Int, NEW w \in Int, NEW e \in Int, NEW f \in Int,
                      u > 0, u * f = w * e, 0 <= e, e <= u
               PROVE  (w >= 0 => 0 <= f /\ f <= w) /\ (w <= 0 => w <= f /\ f <= 0)
    OBVIOUS
  <2>1. \A k \in Int, d \in Int : (d > 0 /\ d * k >= 0) => k >= 0
    BY Z3
  <2>2. \A k, l \in Int : (k >= 0 /\ l >= 0) => k * l >= 0
    BY Z3
  <2>3. \A k, l \in Int : (k <= 0 /\ l >= 0) => k * l <= 0
    BY Z3
  <2>4. u * (w - f) = w * (u - e) /\ u * (-f) = -(w * e) /\ u * (f - w) = -(w * (u - e))
    BY Z3
  <2>5. ASSUME w >= 0 PROVE 0 <= f /\ f <= w
    <3>1. w * e >= 0 /\ w * (u - e) >= 0
      BY <2>2, <2>5
    <3>2. f >= 0
      BY <2>1, <3>1
    <3>3. w - f \in Int /\ w - f >= 0
      BY <2>1, <2>4, <3>1
    <3> QED BY <3>2, <3>3
  <2>6. ASSUME w <= 0 PROVE w <= f /\ f <= 0
    <3>1. w * e <= 0 /\ w * (u - e) <= 0 /\ w * e \in Int /\ w * (u - e) \in Int
      BY <2>3, <2>6
    <3>2. -f >= 0
      BY <2>1, <2>4, <3>1
    <3>3. f - w \in Int /\ f - w >= 0
      BY <2>1, <2>4, <3>1
    <3> QED BY <3>2, <3>3
  <2> QED BY <2>5, <2>6
<1>2. ASSUME NEW u \in Int, NEW w \in Int, NEW e \in Int, NEW f \in Int,
             u # 0, u * f = w * e, Between(0, u, e)
      PROVE  Between(0, w, f)
  <2>1. CASE u > 0
    <3>1. 0 <= e /\ e <= u
      BY <1>2, <2>1 DEF Between
    <3>2. (w >= 0 => 0 <= f /\ f <= w) /\ (w <= 0 => w <= f /\ f <= 0)
      BY <1>1, <1>2, <2>1, <3>1
    <3> QED BY <3>2 DEF Between
  <2>2. CASE ~(u > 0)
    <3>1. -u > 0 /\ 0 <= -e /\ -e <= -u
      BY <1>2, <2>2 DEF Between
    <3>2. (-u) * f = w * (-e)
      <4>1. \A k, l, m, n \in Int : k * l = m * n => (-k) * l = m * (-n)
        BY Z3
      <4> QED BY <1>2, <4>1
    <3>3. (w >= 0 => 0 <= f /\ f <= w) /\ (w <= 0 => w <= f /\ f <= 0)
      <4>1. -u \in Int /\ -e \in Int
        OBVIOUS
      <4> QED BY <1>1, <3>1, <3>2, <4>1
    <3> QED BY <3>3 DEF Between
  <2> QED BY <2>1, <2>2
<1>3. ASSUME NEW s \in Int, NEW t \in Int, NEW k \in Int, NEW l \in Int, s # t,
             ~((s > 0 /\ t > 0) \/ (s < 0 /\ t < 0)), t * k = s * l
      PROVE  Between(k, l, 0)
  <2>1. \A d, n \in Int : /\ (d > 0 /\ n > 0) => d * n > 0
                          /\ (d > 0 /\ n < 0) => d * n < 0
                          /\ (d < 0 /\ n > 0) => d * n < 0
                          /\ (d < 0 /\ n < 0) => d * n > 0
                          /\ (d = 0 \/ n = 0) => d * n = 0
    BY Z3
  <2> DEFINE x == t * k  y == s * l
  <2>2. /\ (t > 0 /\ k > 0) => x > 0
        /\ (t > 0 /\ k < 0) => x < 0
        /\ (t < 0 /\ k > 0) => x < 0
        /\ (t < 0 /\ k < 0) => x > 0
        /\ (t = 0 \/ k = 0) => x = 0
    BY <2>1
  <2>3. /\ (s > 0 /\ l > 0) => y > 0
        /\ (s > 0 /\ l < 0) => y < 0
        /\ (s < 0 /\ l > 0) => y < 0
        /\ (s < 0 /\ l < 0) => y > 0
        /\ (s = 0 \/ l = 0) => y = 0
    BY <2>1
  <2>4. x = y /\ x \in Int /\ y \in Int
    BY <1>3
  <2> HIDE DEF x, y
  <2>5. (k <= 0 /\ 0 <= l) \/ (l <= 0 /\ 0 <= k)
    BY <1>3, <2>2, <2>3, <2>4
  <2> QED BY <2>5 DEF Between
<1> QED BY <1>2, <1>3

(* The sides of a segment as products of differences.                      *)
LEMMA SideIs ==
    ASSUME NEW a \in Place, NEW b \in Place, NEW c \in Place
    PROVE  /\ Orientation(a, b, c) \in Int
           /\ Orientation(b, a, c) = -Orientation(a, b, c)
           /\ Orientation(a, b, c) = 0 =>
                 (b.x - a.x) * (c.y - a.y) = (b.y - a.y) * (c.x - a.x)
           /\ Orientation(Turned(a), Turned(b), Turned(c)) = -Orientation(a, b, c)
           /\ Turned(a) \in Place
<1>1. /\ a.x \in Int /\ a.y \in Int /\ b.x \in Int /\ b.y \in Int /\ c.x \in Int /\ c.y \in Int
    BY DEF Place
<1>2. \A ax, ay, bx, by, cx, cy \in Int :
         /\ (ax - bx) * (cy - by) - (ay - by) * (cx - bx)
               = -((bx - ax) * (cy - ay) - (by - ay) * (cx - ax))
         /\ (by - ay) * (cx - ax) - (bx - ax) * (cy - ay)
               = -((bx - ax) * (cy - ay) - (by - ay) * (cx - ax))
    BY Z3
<1>3. Orientation(b, a, c) = -Orientation(a, b, c)
    BY <1>1, <1>2 DEF Orientation
<1>4. Orientation(Turned(a), Turned(b), Turned(c)) = -Orientation(a, b, c)
    BY <1>1, <1>2 DEF Orientation, Turned
<1>5. Orientation(a, b, c) \in Int
    BY <1>1 DEF Orientation
<1>6. \A k, l \in Int : k - l = 0 => k = l
    OBVIOUS
<1>7. Orientation(a, b, c) = 0 => (b.x - a.x) * (c.y - a.y) = (b.y - a.y) * (c.x - a.x)
  <2> DEFINE k == (b.x - a.x) * (c.y - a.y)  l == (b.y - a.y) * (c.x - a.x)
  <2>1. k \in Int /\ l \in Int
    BY <1>1
  <2>2. Orientation(a, b, c) = k - l
    BY DEF Orientation
  <2> HIDE DEF k, l
  <2>3. Orientation(a, b, c) = 0 => k = l
    BY <1>6, <2>1, <2>2
  <2> QED BY <2>3 DEF k, l
<1>8. Turned(a) \in Place
    BY <1>1 DEF Turned, Place
<1> QED BY <1>3, <1>4, <1>5, <1>7, <1>8

(* In line with a segment that is one by its first coordinate, and within  *)
(* it by that, is on it.                                                   *)
LEMMA InLineIsOn ==
    ASSUME NEW a \in Place, NEW b \in Place, NEW c \in Place,
           Orientation(a, b, c) = 0, a.x # b.x, Between(a.x, b.x, c.x)
    PROVE  OnSegment(a, b, c)
<1>1. /\ a.x \in Int /\ a.y \in Int /\ b.x \in Int /\ b.y \in Int /\ c.x \in Int /\ c.y \in Int
    BY DEF Place
<1> DEFINE u == b.x - a.x  w == b.y - a.y  e == c.x - a.x  f == c.y - a.y
<1>2. u * f = w * e
    BY SideIs
<1>3. u \in Int /\ w \in Int /\ e \in Int /\ f \in Int /\ u # 0 /\ Between(0, u, e)
    BY <1>1 DEF Between
<1> HIDE DEF u, w, e, f
<1>4. Between(0, w, f)
    BY <1>2, <1>3, BetweenToo
<1>5. Between(a.y, b.y, c.y)
    BY <1>1, <1>4 DEF Between, w, f
<1> QED BY <1>5 DEF OnSegment

(* A place in line with c and d that has them on its two sides along a     *)
(* line through it that is not theirs lies between them.                   *)
LEMMA SplitIsOn ==
    ASSUME NEW a \in Place, NEW b \in Place, NEW c \in Place, NEW d \in Place,
           Orientation(c, d, a) = 0, Orientation(c, d, b) # 0,
           ~(/\ Orientation(a, b, c) > 0 /\ Orientation(a, b, d) > 0),
           ~(/\ Orientation(a, b, c) < 0 /\ Orientation(a, b, d) < 0)
    PROVE  OnSegment(c, d, a)
<1>1. /\ a.x \in Int /\ a.y \in Int /\ b.x \in Int /\ b.y \in Int /\ c.x \in Int /\ c.y \in Int
      /\ d.x \in Int /\ d.y \in Int
    BY DEF Place
<1> DEFINE s == Orientation(a, b, c)  t == Orientation(a, b, d)
           kx == c.x - a.x  lx == d.x - a.x  ky == c.y - a.y  ly == d.y - a.y
           mx == b.x - a.x  my == b.y - a.y
<1>2. /\ kx \in Int /\ lx \in Int /\ ky \in Int /\ ly \in Int /\ mx \in Int /\ my \in Int
      /\ s \in Int /\ t \in Int
  <2>1. s \in Int /\ t \in Int
    BY SideIs
  <2>2. /\ kx \in Int /\ lx \in Int /\ ky \in Int /\ ly \in Int /\ mx \in Int /\ my \in Int
    BY <1>1
  <2> HIDE DEF kx, lx, ky, ly, mx, my, s, t
  <2> QED BY <2>1, <2>2
<1>3. s = mx * ky - my * kx /\ t = mx * ly - my * lx
    BY DEF Orientation
<1>4. kx * ly - ky * lx = Orientation(c, d, a)
  <2>1. \A ax, ay, cx, cy, dx, dy \in Int :
           (cx - ax) * (dy - ay) - (cy - ay) * (dx - ax)
             = (dx - cx) * (ay - cy) - (dy - cy) * (ax - cx)
    BY Z3
  <2> QED BY <1>1, <2>1 DEF Orientation
<1>5. s - t = Orientation(c, d, b) - Orientation(c, d, a)
  <2>1. \A ax, ay, bx, by, cx, cy, dx, dy \in Int :
           ((bx - ax) * (cy - ay) - (by - ay) * (cx - ax))
               - ((bx - ax) * (dy - ay) - (by - ay) * (dx - ax))
             = ((dx - cx) * (by - cy) - (dy - cy) * (bx - cx))
               - ((dx - cx) * (ay - cy) - (dy - cy) * (ax - cx))
    BY Z3
  <2> QED BY <1>1, <2>1 DEF Orientation
<1>6. s # t
  <2>1. Orientation(c, d, b) \in Int
    BY SideIs
  <2> HIDE DEF s, t
  <2> QED BY <1>2, <1>5, <2>1
<1>7. t * kx = s * lx /\ t * ky = s * ly
  <2>1. \A px, py, qx, qy, rx, ry \in Int :
           px * qy - py * qx = 0 =>
             /\ (rx * qy - ry * qx) * px = (rx * py - ry * px) * qx
             /\ (rx * qy - ry * qx) * py = (rx * py - ry * px) * qy
    <3> SUFFICES ASSUME NEW px \in Int, NEW py \in Int, NEW qx \in Int, NEW qy \in Int,
                        NEW rx \in Int, NEW ry \in Int, px * qy - py * qx = 0
                 PROVE  /\ (rx * qy - ry * qx) * px = (rx * py - ry * px) * qx
                        /\ (rx * qy - ry * qx) * py = (rx * py - ry * px) * qy
      OBVIOUS
    <3>1. /\ (rx * qy - ry * qx) * px - (rx * py - ry * px) * qx = rx * (px * qy - py * qx)
          /\ (rx * qy - ry * qx) * py - (rx * py - ry * px) * qy = ry * (px * qy - py * qx)
      BY Z3
    <3>2. rx * (px * qy - py * qx) = 0 /\ ry * (px * qy - py * qx) = 0
      OBVIOUS
    <3> DEFINE e == (rx * qy - ry * qx) * px  f == (rx * py - ry * px) * qx
               g == (rx * qy - ry * qx) * py  h == (rx * py - ry * px) * qy
    <3>3. e - f = 0 /\ g - h = 0 /\ e \in Int /\ f \in Int /\ g \in Int /\ h \in Int
      BY <3>1, <3>2
    <3> HIDE DEF e, f, g, h
    <3>4. e = f /\ g = h
      BY <3>3
    <3> QED BY <3>4 DEF e, f, g, h
  <2> HIDE DEF kx, ky, lx, ly, mx, my, s, t
  <2> QED BY <1>2, <1>3, <1>4, <2>1
<1> HIDE DEF s, t
<1>8. ~((s > 0 /\ t > 0) \/ (s < 0 /\ t < 0))
    BY DEF s, t
<1> HIDE DEF kx, ky, lx, ly
<1>9. Between(kx, lx, 0) /\ Between(ky, ly, 0)
    BY <1>2, <1>6, <1>7, <1>8, BetweenToo
<1>10. Between(c.x, d.x, a.x) /\ Between(c.y, d.y, a.y)
    BY <1>1, <1>9 DEF Between, kx, ky, lx, ly
<1> QED BY <1>10 DEF OnSegment

(* Two segments in one line of which the first is one by its first         *)
(* coordinate, and that overlap by it, intersect.                          *)
LEMMA InOneLine ==
    ASSUME NEW a \in Place, NEW b \in Place, NEW c \in Place, NEW d \in Place,
           Orientation(c, d, a) = 0, Orientation(c, d, b) = 0,
           Orientation(a, b, c) = 0, Orientation(a, b, d) = 0,
           a.x # b.x,
           Between(a.x, b.x, c.x) \/ Between(a.x, b.x, d.x) \/ Between(c.x, d.x, a.x)
    PROVE  \/ OnSegment(c, d, a) \/ OnSegment(c, d, b)
           \/ OnSegment(a, b, c) \/ OnSegment(a, b, d)
<1>0. a.x \in Int /\ b.x \in Int /\ c.x \in Int /\ d.x \in Int
    BY DEF Place
<1>1. CASE Between(a.x, b.x, c.x)
    BY <1>1, InLineIsOn
<1>2. CASE Between(a.x, b.x, d.x)
    BY <1>2, InLineIsOn
<1>3. CASE Between(c.x, d.x, a.x) /\ c.x # d.x
    BY <1>3, InLineIsOn
<1>4. CASE Between(c.x, d.x, a.x) /\ c.x = d.x
  <2>1. Between(a.x, b.x, c.x)
    BY <1>0, <1>4 DEF Between
  <2> QED BY <2>1, InLineIsOn
<1> QED BY <1>1, <1>2, <1>3, <1>4

(* Segments that meet intersect.                                           *)
LEMMA MeetIsIntersect ==
    ASSUME NEW a \in Place, NEW b \in Place, NEW c \in Place, NEW d \in Place,
           Meet(a, b, c, d)
    PROVE  SegmentsIntersect(a, b, c, d)
<1> DEFINE d1 == Orientation(c, d, a)  d2 == Orientation(c, d, b)
           d3 == Orientation(a, b, c)  d4 == Orientation(a, b, d)
<1>1. /\ d1 \in Int /\ d2 \in Int /\ d3 \in Int /\ d4 \in Int
      /\ Orientation(d, c, a) = -d1 /\ Orientation(d, c, b) = -d2
      /\ Orientation(b, a, c) = -d3 /\ Orientation(b, a, d) = -d4
    BY SideIs
<1>2. /\ ~(d1 > 0 /\ d2 > 0) /\ ~(d1 < 0 /\ d2 < 0) /\ ~(d3 > 0 /\ d4 > 0) /\ ~(d3 < 0 /\ d4 < 0)
      /\ Between(a.x, b.x, c.x) \/ Between(a.x, b.x, d.x) \/ Between(c.x, d.x, a.x)
      /\ Between(a.y, b.y, c.y) \/ Between(a.y, b.y, d.y) \/ Between(c.y, d.y, a.y)
    BY DEF Meet
<1>3. SUFFICES \/ Opposite(d1, d2) /\ Opposite(d3, d4)
               \/ d1 = 0 /\ OnSegment(c, d, a)
               \/ d2 = 0 /\ OnSegment(c, d, b)
               \/ d3 = 0 /\ OnSegment(a, b, c)
               \/ d4 = 0 /\ OnSegment(a, b, d)
    BY DEF SegmentsIntersect
<1>4. CASE d1 = 0 /\ d2 # 0
    BY <1>2, <1>4, SplitIsOn
<1>5. CASE d2 = 0 /\ d1 # 0
  <2>1. ~(-d3 > 0 /\ -d4 > 0) /\ ~(-d3 < 0 /\ -d4 < 0)
    <3> HIDE DEF d3, d4
    <3> QED BY <1>1, <1>2
  <2>2. /\ ~(Orientation(b, a, c) > 0 /\ Orientation(b, a, d) > 0)
        /\ ~(Orientation(b, a, c) < 0 /\ Orientation(b, a, d) < 0)
    BY <1>1, <2>1
  <2> QED BY <1>5, <2>2, SplitIsOn
<1>6. CASE d3 = 0 /\ d4 # 0
    BY <1>2, <1>6, SplitIsOn
<1>7. CASE d4 = 0 /\ d3 # 0
  <2>1. ~(-d1 > 0 /\ -d2 > 0) /\ ~(-d1 < 0 /\ -d2 < 0)
    <3> HIDE DEF d1, d2
    <3> QED BY <1>1, <1>2
  <2>2. /\ ~(Orientation(d, c, a) > 0 /\ Orientation(d, c, b) > 0)
        /\ ~(Orientation(d, c, a) < 0 /\ Orientation(d, c, b) < 0)
    BY <1>1, <2>1
  <2> QED BY <1>7, <2>2, SplitIsOn
<1>8. CASE d1 # 0 /\ d2 # 0 /\ d3 # 0 /\ d4 # 0
  <2> HIDE DEF d1, d2, d3, d4
  <2> QED BY <1>1, <1>2, <1>8 DEF Opposite
<1>9. d1 - d2 = d4 - d3
  <2>1. /\ a.x \in Int /\ a.y \in Int /\ b.x \in Int /\ b.y \in Int /\ c.x \in Int /\ c.y \in Int
        /\ d.x \in Int /\ d.y \in Int
    BY DEF Place
  <2>2. \A ax, ay, bx, by, cx, cy, dx, dy \in Int :
           ((dx - cx) * (ay - cy) - (dy - cy) * (ax - cx))
               - ((dx - cx) * (by - cy) - (dy - cy) * (bx - cx))
             = ((bx - ax) * (dy - ay) - (by - ay) * (dx - ax))
               - ((bx - ax) * (cy - ay) - (by - ay) * (cx - ax))
    BY Z3
  <2> QED BY <2>1, <2>2 DEF Orientation
<1>10. CASE d1 = 0 /\ d2 = 0 /\ d3 = 0 /\ d4 = 0
  <2>1. CASE a.x # b.x
    <3>1. \/ OnSegment(c, d, a) \/ OnSegment(c, d, b) \/ OnSegment(a, b, c) \/ OnSegment(a, b, d)
      BY <1>2, <1>10, <2>1, InOneLine
    <3> QED BY <1>10, <3>1
  <2>2. /\ a.x \in Int /\ a.y \in Int /\ b.x \in Int /\ b.y \in Int /\ c.x \in Int /\ c.y \in Int
        /\ d.x \in Int /\ d.y \in Int
    BY DEF Place
  <2>3. /\ Between(c.x, d.x, a.x) \/ Between(c.x, d.x, b.x) \/ Between(a.x, b.x, c.x)
        /\ Between(c.y, d.y, a.y) \/ Between(c.y, d.y, b.y) \/ Between(a.y, b.y, c.y)
    BY <1>2, <2>2 DEF Between
  <2>4. CASE c.x # d.x
    <3>1. \/ OnSegment(a, b, c) \/ OnSegment(a, b, d) \/ OnSegment(c, d, a) \/ OnSegment(c, d, b)
      BY <1>10, <2>3, <2>4, InOneLine
    <3> QED BY <1>10, <3>1
  <2> DEFINE ta == Turned(a)  tb == Turned(b)  tc == Turned(c)  td == Turned(d)
  <2>5. /\ ta \in Place /\ tb \in Place /\ tc \in Place /\ td \in Place
        /\ ta.x = a.y /\ tb.x = b.y /\ tc.x = c.y /\ td.x = d.y
        /\ \A p, q, r : OnSegment(Turned(p), Turned(q), Turned(r)) => OnSegment(p, q, r)
    <3>1. ta \in Place /\ tb \in Place /\ tc \in Place /\ td \in Place
      BY SideIs
    <3>2. ta.x = a.y /\ tb.x = b.y /\ tc.x = c.y /\ td.x = d.y
      BY DEF Turned
    <3>3. \A p, q, r : OnSegment(Turned(p), Turned(q), Turned(r)) => OnSegment(p, q, r)
      BY DEF Turned, OnSegment
    <3> QED BY <3>1, <3>2, <3>3
  <2>6. /\ Orientation(tc, td, ta) = 0 /\ Orientation(tc, td, tb) = 0
        /\ Orientation(ta, tb, tc) = 0 /\ Orientation(ta, tb, td) = 0
    <3>1. /\ Orientation(tc, td, ta) = -d1 /\ Orientation(tc, td, tb) = -d2
          /\ Orientation(ta, tb, tc) = -d3 /\ Orientation(ta, tb, td) = -d4
      BY SideIs
    <3>2. /\ Orientation(tc, td, ta) \in Int /\ Orientation(tc, td, tb) \in Int
          /\ Orientation(ta, tb, tc) \in Int /\ Orientation(ta, tb, td) \in Int
      BY <2>5, SideIs
    <3>3. \A k, m \in Int : (m = -k /\ k >= 0 /\ k <= 0) => m = 0
      OBVIOUS
    <3> HIDE DEF ta, tb, tc, td, d1, d2, d3, d4
    <3>4. /\ d1 >= 0 /\ d1 <= 0 /\ d2 >= 0 /\ d2 <= 0 /\ d3 >= 0 /\ d3 <= 0 /\ d4 >= 0 /\ d4 <= 0
      BY <1>10
    <3> QED BY <1>1, <3>1, <3>2, <3>3, <3>4
  <2>7. CASE a.y # b.y
    <3>1. \/ OnSegment(tc, td, ta) \/ OnSegment(tc, td, tb)
          \/ OnSegment(ta, tb, tc) \/ OnSegment(ta, tb, td)
      <4> HIDE DEF ta, tb, tc, td
      <4> QED BY <1>2, <2>5, <2>6, <2>7, InOneLine
    <3>2. \/ OnSegment(c, d, a) \/ OnSegment(c, d, b) \/ OnSegment(a, b, c) \/ OnSegment(a, b, d)
      BY <2>5, <3>1
    <3> QED BY <1>10, <3>2
  <2>8. CASE c.y # d.y
    <3>1. \/ OnSegment(ta, tb, tc) \/ OnSegment(ta, tb, td)
          \/ OnSegment(tc, td, ta) \/ OnSegment(tc, td, tb)
      <4> HIDE DEF ta, tb, tc, td
      <4> QED BY <2>3, <2>5, <2>6, <2>8, InOneLine
    <3>2. \/ OnSegment(c, d, a) \/ OnSegment(c, d, b) \/ OnSegment(a, b, c) \/ OnSegment(a, b, d)
      BY <2>5, <3>1
    <3> QED BY <1>10, <3>2
  <2>9. CASE a.x = b.x /\ a.y = b.y /\ c.x = d.x /\ c.y = d.y
    <3>1. OnSegment(a, b, c)
      BY <1>2, <2>2, <2>9 DEF OnSegment, Between
    <3> QED BY <1>10, <3>1
  <2> QED BY <2>1, <2>4, <2>7, <2>8, <2>9
<1>11. ~(d1 = 0 /\ d2 = 0 /\ d3 # 0) /\ ~(d3 = 0 /\ d4 = 0 /\ d1 # 0)
  <2>1. \A e, f, g, h \in Int :
           (/\ ~(e > 0 /\ f > 0) /\ ~(e < 0 /\ f < 0) /\ ~(g > 0 /\ h > 0) /\ ~(g < 0 /\ h < 0)
            /\ e - f = h - g)
             => ~(e = 0 /\ f = 0 /\ g # 0) /\ ~(g = 0 /\ h = 0 /\ e # 0)
    OBVIOUS
  <2>2. d1 \in Int /\ d2 \in Int /\ d3 \in Int /\ d4 \in Int
    BY <1>1
  <2>3. ~(d1 > 0 /\ d2 > 0) /\ ~(d1 < 0 /\ d2 < 0) /\ ~(d3 > 0 /\ d4 > 0) /\ ~(d3 < 0 /\ d4 < 0)
    BY <1>2
  <2> HIDE DEF d1, d2, d3, d4
  <2> QED BY <1>9, <2>1, <2>2, <2>3
<1> HIDE DEF d1, d2, d3, d4
<1> QED BY <1>4, <1>5, <1>6, <1>7, <1>8, <1>10, <1>11

-----------------------------------------------------------------------------
(* The edge a-b crosses the ray from p to the right.                       *)
ToTheRight(a, b, p) ==
    /\ (a.y > p.y) # (b.y > p.y)
    /\ IF b.y > a.y THEN Orientation(a, b, p) > 0 ELSE Orientation(a, b, p) < 0

(* The quadrant between the ray to the right and the ray upwards.          *)
Ahead(v, p) == v.x > p.x /\ v.y > p.y

(* An edge p is not on crosses one of its two rays, and not the other, if  *)
(* and only if it leads into the quadrant between them or out of it.       *)
LEMMA RaysOfEdge ==
    ASSUME NEW a \in Place, NEW b \in Place, NEW p \in Place,
           ~(Orientation(a, b, p) = 0 /\ OnSegment(a, b, p))
    PROVE  (ToTheRight(a, b, p) <=> ToTheRight(Turned(a), Turned(b), Turned(p)))
             <=> (Ahead(a, p) <=> Ahead(b, p))
<1> DEFINE ax == a.x - p.x  ay == a.y - p.y  bx == b.x - p.x  by == b.y - p.y
           o == Orientation(a, b, p)  h == ax * by  l == bx * ay
<1>1. /\ a.x \in Int /\ a.y \in Int /\ b.x \in Int /\ b.y \in Int /\ p.x \in Int /\ p.y \in Int
    BY DEF Place
<1>2. ax \in Int /\ ay \in Int /\ bx \in Int /\ by \in Int /\ h \in Int /\ l \in Int
    BY <1>1
<1>3. o = h - l
  <2>1. \A x, y, u, v, px, py \in Int :
           (u - x) * (py - y) - (v - y) * (px - x) = (x - px) * (v - py) - (u - px) * (y - py)
    BY Z3
  <2> QED BY <1>1, <2>1 DEF Orientation
<1>4. ToTheRight(a, b, p) <=>
         /\ ~((ay > 0) <=> (by > 0))
         /\ IF by > ay THEN o > 0 ELSE o < 0
    BY <1>1 DEF ToTheRight
<1>5. ToTheRight(Turned(a), Turned(b), Turned(p)) <=>
         /\ ~((ax > 0) <=> (bx > 0))
         /\ IF bx > ax THEN -o > 0 ELSE -o < 0
  <2>1. Orientation(Turned(a), Turned(b), Turned(p)) = -o
    BY SideIs
  <2>2. /\ Turned(a).y = a.x /\ Turned(b).y = b.x /\ Turned(p).y = p.x
    BY DEF Turned
  <2>3. /\ (a.x > p.x <=> ax > 0) /\ (b.x > p.x <=> bx > 0) /\ (b.x > a.x <=> bx > ax)
    BY <1>1
  <2> HIDE DEF o, ax, bx
  <2> QED BY <2>1, <2>2, <2>3 DEF ToTheRight
<1>6. (Ahead(a, p) <=> (ax > 0 /\ ay > 0)) /\ (Ahead(b, p) <=> (bx > 0 /\ by > 0))
    BY <1>1 DEF Ahead
<1>7. ASSUME ~((ax > 0) <=> (bx > 0)) PROVE o # 0
  <2> SUFFICES ASSUME o = 0 PROVE FALSE
    OBVIOUS
  <2>1. a.x # b.x /\ Between(a.x, b.x, p.x)
    BY <1>1, <1>7 DEF Between
  <2> QED BY <2>1, InLineIsOn
<1>8. \A d, n \in Int : /\ (d > 0 /\ n > 0) => d * n > 0
                        /\ (d > 0 /\ n <= 0) => d * n <= 0
                        /\ (d <= 0 /\ n > 0) => d * n <= 0
                        /\ (d <= 0 /\ n <= 0) => d * n >= 0
    BY Z3
<1>9. /\ (ax > 0 /\ by > 0) => h > 0
      /\ (ax > 0 /\ by <= 0) => h <= 0
      /\ (ax <= 0 /\ by > 0) => h <= 0
      /\ (ax <= 0 /\ by <= 0) => h >= 0
      /\ (bx > 0 /\ ay > 0) => l > 0
      /\ (bx > 0 /\ ay <= 0) => l <= 0
      /\ (bx <= 0 /\ ay > 0) => l <= 0
      /\ (bx <= 0 /\ ay <= 0) => l >= 0
  <2> HIDE DEF ax, ay, bx, by
  <2> QED BY <1>2, <1>8
<1> HIDE DEF ax, ay, bx, by, h, l, o
<1>10. \/ (ax > 0 /\ ~(ax <= 0)) \/ (ax <= 0 /\ ~(ax > 0))
    BY <1>2
<1> QED BY <1>2, <1>3, <1>4, <1>5, <1>6, <1>7, <1>9, <1>10, SMTT(40)

(* Whether the number of members of R up to k is odd.                      *)
OddUpTo(R, k) == Cardinality(R \cap (1..k)) % 2 = 1

(* One more member makes an odd number even and an even one odd.           *)
LEMMA OddToggles ==
    ASSUME NEW R, NEW k \in Nat
    PROVE  /\ OddUpTo(R, k + 1) <=> ~(OddUpTo(R, k) <=> k + 1 \in R)
           /\ ~OddUpTo(R, 0)
<1> DEFINE now == R \cap (1..k)  next == R \cap (1..(k + 1))
<1>1. IsFiniteSet(now) /\ Cardinality(now) \in Nat
  <2>1. IsFiniteSet(1..k)
    BY FS_Interval
  <2>2. now \subseteq 1..k
    OBVIOUS
  <2> QED BY <2>1, <2>2, FS_Subset, FS_CardinalityType
<1>2. k + 1 \notin now
    OBVIOUS
<1>3. ASSUME k + 1 \in R
      PROVE  OddUpTo(R, k + 1) <=> ~(OddUpTo(R, k) <=> k + 1 \in R)
  <2>1. next = now \cup {k + 1}
    BY <1>3
  <2>2. Cardinality(next) = Cardinality(now) + 1
    BY <1>1, <1>2, <2>1, FS_AddElement
  <2>3. \A n \in Nat : ((n + 1) % 2 = 1) <=> ~(n % 2 = 1)
    BY Z3
  <2> QED BY <1>1, <1>3, <2>2, <2>3 DEF OddUpTo
<1>4. ASSUME k + 1 \notin R
      PROVE  OddUpTo(R, k + 1) <=> ~(OddUpTo(R, k) <=> k + 1 \in R)
  <2>1. next = now
    BY <1>4
  <2> QED BY <1>4, <2>1 DEF OddUpTo
<1>5. ~OddUpTo(R, 0)
  <2>1. R \cap (1..0) = {}
    OBVIOUS
  <2>2. Cardinality(R \cap (1..0)) = 0
    BY <2>1, FS_EmptySet
  <2>3. ~(0 % 2 = 1)
    OBVIOUS
  <2> QED BY <2>2, <2>3 DEF OddUpTo
<1> QED BY <1>3, <1>4, <1>5

(* Round a ring of n, R and U have each an odd number of members or        *)
(* neither has, when they differ where the ring enters or leaves Q.        *)
LEMMA OddTogether ==
    ASSUME NEW n \in Nat \ {0}, NEW R, NEW U, NEW Q,
           \A i \in 1..n : (i \in R <=> i \in U)
                             <=> (i \in Q <=> (IF i = n THEN 1 ELSE i + 1) \in Q)
    PROVE  OddUpTo(R, n) <=> OddUpTo(U, n)
<1> DEFINE P(k) == (OddUpTo(R, k) <=> OddUpTo(U, k)) <=> (1 \in Q <=> k + 1 \in Q)
           T == {k \in 0..(n - 1) : P(k)}
<1>1. 0 \in T
  <2>1. P(0)
    BY OddToggles
  <2> HIDE DEF P
  <2> QED BY <2>1
<1>2. ASSUME NEW k \in 0..((n - 1) - 1), k \in T PROVE k + 1 \in T
  <2>1. k \in Nat /\ k + 1 \in 0..(n - 1) /\ k + 1 \in 1..n /\ k + 1 # n
    OBVIOUS
  <2>2. P(k)
    <3> HIDE DEF P
    <3> QED BY <1>2
  <2>3. (k + 1 \in R <=> k + 1 \in U) <=> (k + 1 \in Q <=> (k + 1) + 1 \in Q)
    BY <2>1
  <2>4. /\ OddUpTo(R, k + 1) <=> ~(OddUpTo(R, k) <=> k + 1 \in R)
        /\ OddUpTo(U, k + 1) <=> ~(OddUpTo(U, k) <=> k + 1 \in U)
    BY <2>1, OddToggles
  <2>5. P(k + 1)
    BY <2>2, <2>3, <2>4
  <2> HIDE DEF P
  <2> QED BY <2>1, <2>5
<1>3. n - 1 \in T
  <2> HIDE DEF T
  <2>1. n - 1 \in Nat /\ n - 1 \in 0..(n - 1)
    OBVIOUS
  <2>2. \A k \in 0..(n - 1) : k \in T
    BY <1>1, <1>2, <2>1, CountUp
  <2> QED BY <2>1, <2>2
<1>4. P(n - 1)
  <2> HIDE DEF P
  <2> QED BY <1>3
<1> DEFINE m == n - 1
<1>5. m \in Nat /\ m + 1 = n /\ n \in 1..n
    OBVIOUS
<1>6. (OddUpTo(R, m) <=> OddUpTo(U, m)) <=> (1 \in Q <=> n \in Q)
    BY <1>4, <1>5
<1>7. (n \in R <=> n \in U) <=> (n \in Q <=> 1 \in Q)
    BY <1>5
<1> HIDE DEF m
<1>8. /\ OddUpTo(R, n) <=> ~(OddUpTo(R, m) <=> n \in R)
      /\ OddUpTo(U, n) <=> ~(OddUpTo(U, m) <=> n \in U)
  <2>1. /\ OddUpTo(R, m + 1) <=> ~(OddUpTo(R, m) <=> m + 1 \in R)
        /\ OddUpTo(U, m + 1) <=> ~(OddUpTo(U, m) <=> m + 1 \in U)
    BY <1>5, OddToggles
  <2> QED BY <1>5, <2>1
<1> QED BY <1>6, <1>7, <1>8

(* A place on no edge is inside by the ray to the right if and only if it  *)
(* is by the ray upwards, whatever the ring.                               *)
LEMMA EitherRay ==
    ASSUME NEW ring \in Seq(Place), ring # <<>>, NEW p \in Place,
           \A i \in DOMAIN ring : ~(/\ Orientation(ring[i], After(ring, i), p) = 0
                                    /\ OnSegment(ring[i], After(ring, i), p))
    PROVE  ContainsPoint(ring, p)
             <=> ContainsPoint([i \in DOMAIN ring |-> Turned(ring[i])], Turned(p))
<1> DEFINE n == Len(ring)  turned == [i \in DOMAIN ring |-> Turned(ring[i])]
           R == {i \in 1..n : ToTheRight(ring[i], After(ring, i), p)}
           U == {i \in 1..n : ToTheRight(Turned(ring[i]), Turned(After(ring, i)), Turned(p))}
           Q == {i \in 1..n : Ahead(ring[i], p)}
<1>1. n \in Nat \ {0} /\ DOMAIN ring = 1..n
    BY LenProperties, EmptySeq
<1>2. ASSUME NEW i \in 1..n
      PROVE  /\ ring[i] \in Place /\ After(ring, i) \in Place
             /\ After(ring, i) = ring[IF i = n THEN 1 ELSE i + 1]
             /\ (IF i = n THEN 1 ELSE i + 1) \in 1..n
    BY <1>1, AfterIs, ElementOfSeq
<1>3. turned \in Seq(Place) /\ Len(turned) = n /\ DOMAIN turned = 1..n
      /\ \A i \in 1..n : turned[i] = Turned(ring[i])
  <2>1. turned = [i \in 1..n |-> Turned(ring[i])]
    BY <1>1
  <2>2. \A i \in 1..n : Turned(ring[i]) \in Place
    BY <1>2, SideIs
  <2> HIDE DEF turned, n
  <2>3. turned \in [1..n -> Place] /\ \A i \in 1..n : turned[i] = Turned(ring[i])
    BY <2>1, <2>2
  <2> QED BY <1>1, <2>3
<1> HIDE DEF turned
<1>4. ASSUME NEW i \in 1..n PROVE After(turned, i) = Turned(After(ring, i))
  <2>1. After(turned, i) = turned[IF i = Len(turned) THEN 1 ELSE i + 1]
    BY <1>3, AfterIs
  <2> HIDE DEF n
  <2> QED BY <1>2, <1>3, <2>1, SMTT(60)
<1>5. ContainsPoint(ring, p) <=> Cardinality(R) % 2 = 1
  <2>1. {i \in DOMAIN ring : ToTheRight(ring[i], After(ring, i), p)} = R
    BY <1>1
  <2> HIDE DEF R
  <2> QED BY <2>1 DEF ContainsPoint, ToTheRight
<1>6. ContainsPoint(turned, Turned(p)) <=> Cardinality(U) % 2 = 1
  <2>1. {i \in DOMAIN turned : ToTheRight(turned[i], After(turned, i), Turned(p))} = U
    BY <1>3, <1>4
  <2> HIDE DEF U
  <2> QED BY <2>1 DEF ContainsPoint, ToTheRight
<1>7. ASSUME NEW i \in 1..n
      PROVE  (i \in R <=> i \in U) <=> (i \in Q <=> (IF i = n THEN 1 ELSE i + 1) \in Q)
  <2> DEFINE a == ring[i]  b == After(ring, i)
  <2>1. a \in Place /\ b \in Place /\ ~(Orientation(a, b, p) = 0 /\ OnSegment(a, b, p))
    BY <1>1, <1>2
  <2>2. (ToTheRight(a, b, p) <=> ToTheRight(Turned(a), Turned(b), Turned(p)))
           <=> (Ahead(a, p) <=> Ahead(b, p))
    BY <2>1, RaysOfEdge
  <2>3. /\ i \in R <=> ToTheRight(a, b, p)
        /\ i \in U <=> ToTheRight(Turned(a), Turned(b), Turned(p))
        /\ i \in Q <=> Ahead(a, p)
    <3> HIDE DEF n
    <3> QED OBVIOUS
  <2>4. (IF i = n THEN 1 ELSE i + 1) \in Q <=> Ahead(b, p)
    <3> DEFINE k == IF i = n THEN 1 ELSE i + 1
    <3>1. k \in 1..n /\ b = ring[k]
      BY <1>2
    <3> HIDE DEF k, b, n
    <3>2. k \in Q <=> Ahead(b, p)
      BY <3>1
    <3> QED BY <3>2 DEF k
  <2> HIDE DEF R, U, Q, a, b
  <2> QED BY <2>2, <2>3, <2>4
<1>8. R \cap (1..n) = R /\ U \cap (1..n) = U
    OBVIOUS
<1> HIDE DEF R, U, Q, n
<1>9. OddUpTo(R, n) <=> OddUpTo(U, n)
    BY <1>1, <1>7, OddTogether
<1> QED BY <1>5, <1>6, <1>8, <1>9 DEF OddUpTo, turned

(* An outline that is accepted, of whatever length, has no two edges that  *)
(* meet other than neighbours, and the worker's ray may go either way.     *)
THEOREM AcceptedIsSimpleAlways == Spec => []AcceptedIsSimple
<1>1. ShapeInv => AcceptedIsSimple
  <2> SUFFICES ASSUME ShapeInv, shape.kind = "freehand", ValidateOutline(Outline) = "none"
               PROVE  /\ \A e \in ApartEdges(Outline) :
                            ~Meet(Outline[e[1]], After(Outline, e[1]),
                                  Outline[e[2]], After(Outline, e[2]))
                      /\ \A p \in Probes : OnEdge(p) \/
                            (ContainsPoint(Outline, p)
                               <=> ContainsPoint([i \in DOMAIN Outline |-> Turned(Outline[i])],
                                                 Turned(p)))
    BY DEF AcceptedIsSimple
  <2> DEFINE ring == Outline
  <2>1. shape.points \in Seq(Points) /\ shape.points # <<>>
    BY ByKind, ShapeIs DEF ShapeInv
  <2>2. ring \in Seq(Place) /\ ring # <<>>
    <3>1. ring \in Seq(Place) /\ Len(ring) = Len(shape.points)
      BY <2>1, CornersAre DEF Outline
    <3>2. Len(shape.points) # 0
      BY <2>1, EmptySeq
    <3> QED BY <3>1, <3>2, EmptySeq
  <2>3. ~HasCrossingEdges(ring)
    <3> HIDE DEF ring
    <3>1. ValidateOutline(ring) = "none"
      BY DEF ring
    <3>2. Len(ring) \in Nat /\ MinPoints \in Nat /\ MaxPoints \in Nat
      BY <2>2, LenProperties, MinPointsAssumption, ShapeAssumption
    <3>3. CASE Len(ring) < MinPoints
      BY <3>1, <3>2, <3>3 DEF ValidateOutline
    <3>4. CASE ~(Len(ring) < MinPoints) /\ Len(ring) > MaxPoints
      BY <3>1, <3>2, <3>4 DEF ValidateOutline
    <3>5. CASE ~(Len(ring) < MinPoints) /\ ~(Len(ring) > MaxPoints)
      BY <3>1, <3>5 DEF ValidateOutline
    <3> QED BY <3>3, <3>4, <3>5
  <2> HIDE DEF ring
  <2>4. ASSUME NEW e \in ApartEdges(ring)
        PROVE  ~Meet(ring[e[1]], After(ring, e[1]), ring[e[2]], After(ring, e[2]))
    <3>1. e[1] \in DOMAIN ring /\ e[2] \in DOMAIN ring
      BY DEF ApartEdges
    <3>2. /\ ring[e[1]] \in Place /\ After(ring, e[1]) \in Place
          /\ ring[e[2]] \in Place /\ After(ring, e[2]) \in Place
      BY <2>2, <3>1, AfterIs, ElementOfSeq
    <3>3. ~SegmentsIntersect(ring[e[1]], After(ring, e[1]), ring[e[2]], After(ring, e[2]))
      BY <2>3 DEF HasCrossingEdges
    <3> QED BY <3>2, <3>3, MeetIsIntersect
  <2>5. ASSUME NEW p \in Probes, ~OnEdge(p)
        PROVE  ContainsPoint(ring, p)
                 <=> ContainsPoint([i \in DOMAIN ring |-> Turned(ring[i])], Turned(p))
    <3>1. p \in Place
      BY ShapeAssumption DEF Place
    <3>2. \A i \in DOMAIN ring : ~(/\ Orientation(ring[i], After(ring, i), p) = 0
                                   /\ OnSegment(ring[i], After(ring, i), p))
      BY <2>5 DEF OnEdge, ring
    <3> QED BY <2>2, <3>1, <3>2, EitherRay
  <2> QED BY <2>4, <2>5 DEF ring
<1> QED BY <1>1, ShapeInvariant, PTL
=============================================================================
