------------------------------ MODULE Screen_proofs ------------------------------
(***************************************************************************)
(* What is on the screen beside the panels' own content: the surfaces and  *)
(* who of them takes Escape, the notices, and the bottom sheet, for any    *)
(* number of requests, lengths of time and heights.  Each is proved apart  *)
(* from the others.  What a key does is a recursion along the listeners;   *)
(* RoundEnds says by induction on their number what comes of it, and       *)
(* SurfacesInv what the listeners and their order are when it comes.       *)
(***************************************************************************)
EXTENDS Surfaces, Notices, BottomSheet, DataLemmas
-----------------------------------------------------------------------------
(* The surfaces and the Escape key.                                        *)

(* The types of Surfaces' variables.                                       *)
SurfacesTypeOK ==
    /\ asked \subseteq Surfaces /\ listed \in BOOLEAN /\ session \in BOOLEAN
    /\ mounted \subseteq Surfaces /\ heard \in Seq(Surfaces)
    /\ due \in {"none", "mount", "render"}
    /\ waiting \in [Requests -> 0..MaxWaiting]

(* The listeners of the panels that keep theirs come before those of the   *)
(* dialogs.                                                                *)
DialogsLast(seq) ==
    \A i, j \in DOMAIN seq : seq[i] \in Dialogs /\ seq[j] \in Stable => j < i

(* With a dialog on the screen, the panels that keep their listeners have  *)
(* been put there before it, or with it.                                   *)
StableFirst == shown \cap Dialogs # {} => open \cap Stable \subseteq mounted

(* Once the effects have run, those that listen are those that are shown;  *)
(* when a Presence alone has rendered, no dialog listens before a panel    *)
(* that is still to be heard and will keep its listener.                   *)
ListenersAre ==
    /\ due = "none" => Range(heard) = shown
    /\ due = "mount" =>
          /\ Range(heard) \subseteq shown
          /\ Range(heard) \cap Dialogs # {} => shown \cap Stable \subseteq Range(heard)

SurfacesInv ==
    /\ SurfacesTypeOK
    /\ ~ ({"detail", "station"} \subseteq asked)
    /\ StableFirst
    /\ ListenersAre
    /\ DialogsLast(heard)

-----------------------------------------------------------------------------
(* The names of the surfaces.                                              *)
LEMMA SurfacesAre ==
    /\ Surfaces = {"form", "zone", "zones", "station", "detail", "shortcuts", "auth", "claim"}
    /\ TreeOrder \in Seq(Surfaces)
    /\ DialogsLast(TreeOrder)
<1>1. DOMAIN TreeOrder = 1..8
    BY DEF TreeOrder
<1>2. 1..8 = {1, 2, 3, 4, 5, 6, 7, 8}
    OBVIOUS
<1>3. /\ TreeOrder[1] = "form" /\ TreeOrder[2] = "zone" /\ TreeOrder[3] = "zones"
      /\ TreeOrder[4] = "station" /\ TreeOrder[5] = "detail" /\ TreeOrder[6] = "shortcuts"
      /\ TreeOrder[7] = "auth" /\ TreeOrder[8] = "claim"
    BY DEF TreeOrder
<1>4. Surfaces = {"form", "zone", "zones", "station", "detail", "shortcuts", "auth", "claim"}
    BY <1>1, <1>2, <1>3 DEF Surfaces, Range
<1>5. TreeOrder \in Seq(Surfaces)
    BY <1>4 DEF TreeOrder
<1>6. DialogsLast(TreeOrder)
  <2>1. ASSUME NEW i \in DOMAIN TreeOrder, TreeOrder[i] \in Dialogs PROVE i \in {6, 7, 8}
    BY <1>1, <1>2, <1>3, <2>1 DEF Dialogs
  <2>2. ASSUME NEW j \in DOMAIN TreeOrder, TreeOrder[j] \in Stable PROVE j \in {1, 2}
    BY <1>1, <1>2, <1>3, <2>2 DEF Stable
  <2>3. \A i \in {6, 7, 8} : \A j \in {1, 2} : j < i
    OBVIOUS
  <2> QED BY <2>1, <2>2, <2>3 DEF DialogsLast
<1> QED BY <1>4, <1>5, <1>6

(* What the key's round carries from one listener to the next.             *)
Rounds == [asked : SUBSET Surfaces, live : SUBSET Surfaces]

(* The key's round is what its recursive definition says.                  *)
LEMMA RoundIs ==
    ASSUME SurfacesTypeOK
    PROVE  /\ Len(heard) \in Nat /\ DOMAIN heard = 1..Len(heard)
           /\ \A n \in 0..Len(heard) : Round[n] \in Rounds
           /\ Round[0] = [asked |-> asked, live |-> Range(heard)]
           /\ \A n \in 1..Len(heard) : Round[n] = HeardBy(heard[n], Round[n - 1])
<1> DEFINE g == [n \in 1..Len(heard) |-> [r \in Rounds |-> HeardBy(heard[n], r)]]
           start == [asked |-> asked, live |-> Range(heard)]
           IsRound(f) == f = [n \in 0..Len(heard) |->
                                 IF n = 0 THEN [asked |-> asked, live |-> Range(heard)]
                                 ELSE HeardBy(heard[n], f[n - 1])]
<1>0. /\ Len(heard) \in Nat /\ DOMAIN heard = 1..Len(heard)
      /\ start \in Rounds
  <2>1. heard \in Seq(Surfaces) /\ asked \subseteq Surfaces
    BY DEF SurfacesTypeOK
  <2>2. Len(heard) \in Nat /\ DOMAIN heard = 1..Len(heard)
    BY <2>1, LenProperties
  <2>3. Range(heard) \in SUBSET Surfaces
    BY <2>1, RangeOfSeq
  <2> QED BY <2>1, <2>2, <2>3 DEF Rounds
<1>1. ASSUME NEW n \in 1..Len(heard), NEW r \in Rounds PROVE HeardBy(heard[n], r) \in Rounds
    BY DEF HeardBy, Rounds
<1>2. PICK f : Iterates(f, Rounds, start, Len(heard), g)
  <2>1. g \in [1..Len(heard) -> [Rounds -> Rounds]]
    BY <1>1
  <2> HIDE DEF g, start
  <2> QED BY <1>0, <2>1, RecursionExists
<1>3. ASSUME NEW n \in 1..Len(heard)
      PROVE  f[n - 1] \in Rounds /\ f[n] = HeardBy(heard[n], f[n - 1])
  <2>1. n - 1 \in 0..Len(heard)
    BY <1>0
  <2>2. f[n - 1] \in Rounds /\ f[n] = g[n][f[n - 1]]
    BY <1>2, <2>1 DEF Iterates
  <2> QED BY <2>2
<1>4. IsRound(f)
  <2>1. ASSUME NEW n \in 0..Len(heard)
        PROVE  f[n] = IF n = 0 THEN start ELSE HeardBy(heard[n], f[n - 1])
    <3>1. CASE n = 0
      BY <1>2, <3>1 DEF Iterates
    <3>2. CASE n # 0
      <4>1. n \in 1..Len(heard)
        BY <1>0, <3>2
      <4> QED BY <1>3, <3>2, <4>1
    <3> QED BY <3>1, <3>2
  <2>2. f = [n \in 0..Len(heard) |-> f[n]]
    BY <1>2 DEF Iterates
  <2> QED BY <2>1, <2>2
<1>5. IsRound(Round)
  <2>1. \E h : IsRound(h)
    BY <1>4
  <2>2. Round = CHOOSE h : IsRound(h)
    BY DEF Round
  <2> HIDE DEF IsRound
  <2> QED BY <2>1, <2>2
<1> HIDE DEF g
<1> DEFINE Body(n) == IF n = 0 THEN start ELSE HeardBy(heard[n], Round[n - 1])
<1>6. Round = [n \in 0..Len(heard) |-> Body(n)]
    BY <1>5
<1> HIDE DEF IsRound
<1>7. \A n \in 0..Len(heard) : Round[n] = Body(n)
  <2> HIDE DEF Body
  <2> QED BY <1>6
<1>8. Round[0] = start
  <2>1. Round[0] = Body(0)
    BY <1>0, <1>7
  <2> QED BY <2>1
<1>9. ASSUME NEW n \in 1..Len(heard) PROVE Round[n] = HeardBy(heard[n], Round[n - 1])
  <2>1. n \in 0..Len(heard) /\ n # 0
    BY <1>0
  <2>2. Round[n] = Body(n)
    BY <1>7, <2>1
  <2> QED BY <2>1, <2>2
<1> HIDE DEF Body
<1> DEFINE T == {n \in 0..Len(heard) : Round[n] \in Rounds}
<1>10. 0 \in T
    BY <1>0, <1>8
<1>11. ASSUME NEW n \in 0..(Len(heard) - 1), n \in T PROVE n + 1 \in T
  <2>1. n + 1 \in 1..Len(heard) /\ n + 1 \in 0..Len(heard) /\ (n + 1) - 1 = n
    BY <1>0
  <2>2. Round[n + 1] = HeardBy(heard[n + 1], Round[n])
    BY <1>9, <2>1
  <2> QED BY <1>1, <1>11, <2>1, <2>2
<1>12. \A n \in 0..Len(heard) : n \in T
  <2> HIDE DEF T
  <2> QED BY <1>0, <1>10, <1>11, CountUp
<1> QED BY <1>0, <1>8, <1>9, <1>12

(* What the first n listeners have closed.                                 *)
Closed(n) == asked \ Round[n].asked

(* Who would close at a key that nobody has taken yet.                     *)
Takes(s) == s \in asked /\ ~ InWay(s, asked)

(* The round so far: nobody has taken the key, or somebody has, after whom *)
(* only the panels that keep their listeners are called.                   *)
Untouched(n) == Round[n] = Round[0] /\ \A j \in 1..n : ~ Takes(heard[j])
Taken(n) ==
    /\ Closed(n) # {} /\ Closed(n) \subseteq Range(heard)
    /\ Round[n].asked \subseteq asked
    /\ Round[n].live \subseteq Stable
    /\ \E d : Closed(n) \cap Dialogs \subseteq {d}
    /\ shown \cap ZonePanels # {} => Closed(n) \cap {"detail", "station"} = {}
    /\ shown \cap Dialogs # {} =>
          Closed(n) \cap Panels = {} /\ \E j \in 1..n : heard[j] \in Dialogs

(* One more listener.                                                      *)
LEMMA RoundStep ==
    ASSUME SurfacesInv, NEW n \in 0..(Len(heard) - 1), Untouched(n) \/ Taken(n)
    PROVE  Untouched(n + 1) \/ Taken(n + 1)
<1> DEFINE s == heard[n + 1]  r == Round[n]  t == Round[n + 1]
           on == Open(r.asked \ {s}, listed) \cap mounted
<1>0. SurfacesTypeOK
    BY DEF SurfacesInv
<1>1. /\ Len(heard) \in Nat /\ n \in Nat /\ n + 1 \in 1..Len(heard)
      /\ n + 1 \in DOMAIN heard /\ r \in Rounds
      /\ 1..(n + 1) = 1..n \cup {n + 1} /\ \A j \in 1..n : j \in DOMAIN heard
    BY <1>0, RoundIs
<1>2. t = HeardBy(s, r)
  <2>1. (n + 1) - 1 = n
    BY <1>1
  <2> QED BY <1>0, <1>1, <2>1, RoundIs
<1>3. Round[0] = [asked |-> asked, live |-> Range(heard)]
    BY <1>0, RoundIs
<1>4. s \in Range(heard)
    BY <1>1 DEF Range
<1> HIDE DEF s, r, t
<1>5. \/ t = r /\ (s \notin r.live \/ s \notin r.asked \/ InWay(s, r.asked))
      \/ /\ t = [asked |-> r.asked \ {s}, live |-> r.live \cap Stable \cap on]
         /\ s \in r.live /\ s \in r.asked /\ ~ InWay(s, r.asked)
    BY <1>2 DEF HeardBy
<1>6. CASE Untouched(n)
  <2>1. r.asked = asked /\ r.live = Range(heard)
    BY <1>3, <1>6 DEF Untouched, r
  <2>2. CASE t = r /\ (s \notin r.live \/ s \notin r.asked \/ InWay(s, r.asked))
    <3>1. ~ Takes(s)
      BY <1>4, <2>1, <2>2 DEF Takes
    <3> QED BY <1>1, <1>6, <2>2, <3>1 DEF Untouched, r, s, t
  <2>3. CASE /\ t = [asked |-> r.asked \ {s}, live |-> r.live \cap Stable \cap on]
             /\ s \in r.live /\ s \in r.asked /\ ~ InWay(s, r.asked)
    <3>1. Closed(n + 1) = {s} /\ t.live \subseteq Stable /\ t.asked \subseteq asked
      BY <2>1, <2>3 DEF Closed, t
    <3>2. shown \cap (IF s \in ZonePanels THEN Dialogs ELSE Dialogs \cup ZonePanels) = {}
             \/ s \in Dialogs
      BY <2>1, <2>3 DEF InWay, shown, open
    <3>3. shown \cap ZonePanels # {} => s \notin {"detail", "station"}
      BY <3>2 DEF ZonePanels, Dialogs
    <3>4. shown \cap Dialogs # {} => s \in Dialogs
      BY <3>2
    <3>5. s \in Dialogs => s \notin Panels
      BY DEF Panels
    <3>6. shown \cap Dialogs # {} => \E j \in 1..(n + 1) : heard[j] \in Dialogs
      BY <1>1, <3>4 DEF s
    <3> QED BY <1>4, <3>1, <3>3, <3>4, <3>5, <3>6 DEF Taken, t
  <2> QED BY <1>5, <2>2, <2>3
<1>7. CASE Taken(n)
  <2>1. CASE t = r
    <3>1. /\ Closed(n + 1) = Closed(n) /\ Round[n + 1].live \subseteq Stable
          /\ Round[n + 1].asked \subseteq asked
      BY <1>7, <2>1 DEF Taken, Closed, r, t
    <3>2. (\E j \in 1..n : heard[j] \in Dialogs) => \E j \in 1..(n + 1) : heard[j] \in Dialogs
      BY <1>1
    <3> QED BY <1>7, <3>1, <3>2 DEF Taken
  <2>2. CASE /\ t = [asked |-> r.asked \ {s}, live |-> r.live \cap Stable \cap on]
             /\ s \in r.live /\ s \in r.asked
    <3>1. s \in Stable /\ t.live \subseteq Stable /\ t.asked \subseteq asked
      BY <1>7, <2>2 DEF Taken, r
    <3>2. Closed(n + 1) \subseteq Closed(n) \cup {s} /\ Closed(n) \subseteq Closed(n + 1)
      BY <2>2 DEF Closed, r, t
    <3>3. s \notin Dialogs /\ s \notin {"detail", "station"}
      BY <3>1 DEF Stable, Dialogs
    <3>4. shown \cap Dialogs = {}
      <4>1. SUFFICES ASSUME shown \cap Dialogs # {} PROVE FALSE
        OBVIOUS
      <4>2. PICK j \in 1..n : heard[j] \in Dialogs
        BY <1>7, <4>1 DEF Taken
      <4>3. n + 1 < j
        BY <1>1, <3>1, <4>2 DEF SurfacesInv, DialogsLast, s
      <4> QED BY <1>1, <4>3
    <3>5. \E d : Closed(n + 1) \cap Dialogs \subseteq {d}
      BY <1>7, <3>2, <3>3 DEF Taken
    <3>6. shown \cap ZonePanels # {} => Closed(n + 1) \cap {"detail", "station"} = {}
      BY <1>7, <3>2, <3>3 DEF Taken
    <3>7. Closed(n + 1) # {} /\ Closed(n + 1) \subseteq Range(heard)
      BY <1>4, <1>7, <3>2 DEF Taken
    <3> QED BY <3>1, <3>4, <3>5, <3>6, <3>7 DEF Taken, t
  <2> QED BY <1>5, <2>1, <2>2
<1> QED BY <1>6, <1>7

(* The whole round.                                                        *)
LEMMA RoundEnds ==
    ASSUME SurfacesInv
    PROVE  Untouched(Len(heard)) \/ Taken(Len(heard))
<1> DEFINE T == {n \in 0..Len(heard) : Untouched(n) \/ Taken(n)}
<1>0. Len(heard) \in Nat
    BY RoundIs DEF SurfacesInv
<1>1. 0 \in T
    BY <1>0 DEF Untouched
<1>2. ASSUME NEW n \in 0..(Len(heard) - 1), n \in T PROVE n + 1 \in T
    BY <1>0, <1>2, RoundStep
<1>3. \A n \in 0..Len(heard) : n \in T
  <2> HIDE DEF T
  <2> QED BY <1>0, <1>1, <1>2, CountUp
<1> QED BY <1>0, <1>3

(* What closes at a key is what its round has closed of what is open.      *)
LEMMA ClosingIs ==
    ASSUME SurfacesInv
    PROVE  /\ AfterEscape \subseteq asked
           /\ Closing \subseteq Closed(Len(heard))
           /\ Closed(Len(heard)) \cap open \subseteq Closing
<1>1. AfterEscape = Round[Len(heard)].asked
    BY DEF AfterEscape
<1>2. AfterEscape \subseteq asked
  <2>1. CASE Untouched(Len(heard))
    <3>1. Round[0].asked = asked
      BY RoundIs DEF SurfacesInv
    <3> QED BY <1>1, <2>1, <3>1 DEF Untouched
  <2>2. CASE Taken(Len(heard))
    BY <1>1, <2>2 DEF Taken
  <2> QED BY <2>1, <2>2, RoundEnds
<1> QED BY <1>1, <1>2 DEF Closing, Closed, open, Open

(* The round lets Escape close what is topmost only.                       *)
LEMMA TopmostOnlyHolds ==
    ASSUME SurfacesInv
    PROVE  TopmostOnly
<1>1. ~ ({"detail", "station"} \subseteq open)
    BY DEF SurfacesInv, open, Open
<1>2. CASE Untouched(Len(heard))
  <2>1. Round[0].asked = asked
    BY RoundIs DEF SurfacesInv
  <2>2. Closing = {}
    BY <1>2, <2>1, ClosingIs DEF Untouched, Closed
  <2>3. Cardinality(Closing \cap Dialogs) = 0
    BY <2>2, FS_EmptySet
  <2> QED BY <1>1, <2>2, <2>3 DEF TopmostOnly
<1>3. CASE Taken(Len(heard))
  <2>1. PICK d : Closed(Len(heard)) \cap Dialogs \subseteq {d}
    BY <1>3 DEF Taken
  <2>2. Closing \cap Dialogs \subseteq {d}
    BY <2>1, ClosingIs
  <2>3. Cardinality(Closing \cap Dialogs) <= 1
    <3>1. IsFiniteSet({d}) /\ Cardinality({d}) = 1
      BY FS_Singleton
    <3>2. Cardinality(Closing \cap Dialogs) <= Cardinality({d})
      BY <2>2, <3>1, FS_Subset
    <3> QED BY <3>1, <3>2
  <2>4. shown \cap Dialogs # {} => Closing \cap Panels = {}
    BY <1>3, ClosingIs DEF Taken
  <2>5. shown \cap ZonePanels # {} => Closing \cap {"detail", "station"} = {}
    BY <1>3, ClosingIs DEF Taken
  <2> QED BY <1>1, <2>3, <2>4, <2>5 DEF TopmostOnly
<1> QED BY <1>2, <1>3, RoundEnds

(* With everything open on the screen and listening, one of the surfaces   *)
(* has none of those in its way that it leaves the key to.                 *)
LEMMA EscapeActsHolds ==
    ASSUME SurfacesInv
    PROVE  EscapeActs
<1>1. SUFFICES ASSUME due = "none", open # {}, open \subseteq mounted
               PROVE  Closing # {}
    BY DEF EscapeActs
<1>2. shown = open /\ Range(heard) = open /\ open \subseteq asked
    BY <1>1 DEF SurfacesInv, ListenersAre, shown, open, Open
<1>3. CASE Untouched(Len(heard))
  <2>1. ASSUME NEW s \in open PROVE s \notin Dialogs /\ InWay(s, asked)
    <3>1. PICK j \in DOMAIN heard : heard[j] = s
      BY <1>2 DEF Range
    <3>2. j \in 1..Len(heard)
      BY <3>1, RoundIs DEF SurfacesInv
    <3> QED BY <1>2, <1>3, <3>1, <3>2 DEF Untouched, Takes, InWay
  <2>2. open \cap Dialogs = {}
    BY <2>1
  <2>3. open \cap ZonePanels = {}
    BY <2>1, <2>2 DEF InWay, open
  <2>4. PICK s \in open : TRUE
    BY <1>1
  <2> QED BY <2>1, <2>2, <2>3, <2>4 DEF InWay, open
<1>4. CASE Taken(Len(heard))
    BY <1>2, <1>4, ClosingIs DEF Taken
<1> QED BY <1>3, <1>4, RoundEnds

-----------------------------------------------------------------------------
(* A selection from listeners in which the dialogs are last is another.    *)
LEMMA ThoseLast ==
    ASSUME NEW seq \in Seq(Surfaces), NEW on, DialogsLast(seq)
    PROVE  DialogsLast(Those(seq, on))
<1> DEFINE q == Those(seq, on)
<1>1. /\ q \in Seq(Surfaces)
      /\ \A i, j \in DOMAIN q : i < j =>
            \E k, l \in DOMAIN seq : k < l /\ q[i] = seq[k] /\ q[j] = seq[l]
    BY ThoseIs
<1> HIDE DEF q
<1>2. DOMAIN q \subseteq Nat /\ DOMAIN seq \subseteq Nat
    BY <1>1, LenProperties
<1>3. ASSUME NEW i \in DOMAIN q, NEW j \in DOMAIN q, q[i] \in Dialogs, q[j] \in Stable
      PROVE  j < i
  <2>1. i # j
    BY <1>3 DEF Dialogs, Stable
  <2>2. ~ (i < j)
    <3>1. SUFFICES ASSUME i < j PROVE FALSE
      OBVIOUS
    <3>2. PICK k \in DOMAIN seq, l \in DOMAIN seq : k < l /\ q[i] = seq[k] /\ q[j] = seq[l]
      BY <1>1, <3>1
    <3>3. l < k
      BY <1>3, <3>2 DEF DialogsLast
    <3> QED BY <1>2, <3>2, <3>3
  <2> QED BY <1>2, <2>1, <2>2
<1>4. DialogsLast(q)
    BY <1>3 DEF DialogsLast
<1> QED BY <1>4 DEF q

(* Listeners after listeners: what the two sequences give together.        *)
LEMMA Appended ==
    ASSUME NEW p \in Seq(Surfaces), NEW q \in Seq(Surfaces), DialogsLast(p), DialogsLast(q),
           Range(p) \cap Dialogs = {} \/ Range(q) \cap Stable = {}
    PROVE  /\ p \o q \in Seq(Surfaces)
           /\ Range(p \o q) = Range(p) \cup Range(q)
           /\ DialogsLast(p \o q)
<1> DEFINE r == p \o q
<1>1. /\ r \in Seq(Surfaces) /\ Len(r) = Len(p) + Len(q)
      /\ Len(p) \in Nat /\ Len(q) \in Nat
      /\ DOMAIN p = 1..Len(p) /\ DOMAIN q = 1..Len(q) /\ DOMAIN r = 1..(Len(p) + Len(q))
    BY ConcatProperties, LenProperties
<1>2. /\ \A i \in 1..Len(p) : r[i] = p[i]
      /\ \A i \in 1..Len(q) : r[Len(p) + i] = q[i]
    BY ConcatProperties
<1> HIDE DEF r
<1>3. ASSUME NEW i \in DOMAIN r
      PROVE  \/ i \in DOMAIN p /\ r[i] = p[i]
             \/ i - Len(p) \in DOMAIN q /\ r[i] = q[i - Len(p)]
  <2>1. CASE i <= Len(p)
    BY <1>1, <1>2, <2>1
  <2>2. CASE ~ (i <= Len(p))
    <3>1. i - Len(p) \in 1..Len(q) /\ Len(p) + (i - Len(p)) = i
      BY <1>1, <2>2
    <3>2. r[Len(p) + (i - Len(p))] = q[i - Len(p)]
      BY <1>2, <3>1
    <3> QED BY <1>1, <3>1, <3>2
  <2> QED BY <2>1, <2>2
<1>4. Range(r) \subseteq Range(p) \cup Range(q)
    BY <1>3 DEF Range
<1>5. Range(p) \subseteq Range(r)
  <2>1. \A i \in DOMAIN p : i \in DOMAIN r /\ r[i] = p[i]
    BY <1>1, <1>2
  <2> QED BY <2>1 DEF Range
<1>6. Range(q) \subseteq Range(r)
  <2>1. \A i \in DOMAIN q : Len(p) + i \in DOMAIN r /\ r[Len(p) + i] = q[i]
    BY <1>1, <1>2
  <2> QED BY <2>1 DEF Range
<1>7. ASSUME NEW i \in DOMAIN r, NEW j \in DOMAIN r, r[i] \in Dialogs, r[j] \in Stable
      PROVE  j < i
  <2>1. CASE i \in DOMAIN p /\ r[i] = p[i] /\ j \in DOMAIN p /\ r[j] = p[j]
    BY <1>7, <2>1 DEF DialogsLast
  <2>2. CASE /\ i - Len(p) \in DOMAIN q /\ r[i] = q[i - Len(p)]
             /\ j - Len(p) \in DOMAIN q /\ r[j] = q[j - Len(p)]
    <3>1. j - Len(p) < i - Len(p)
      BY <1>7, <2>2 DEF DialogsLast
    <3> QED BY <1>1, <3>1
  <2>3. CASE /\ i - Len(p) \in DOMAIN q /\ r[i] = q[i - Len(p)]
             /\ j \in DOMAIN p /\ r[j] = p[j]
    BY <1>1, <2>3
  <2>4. CASE /\ i \in DOMAIN p /\ r[i] = p[i]
             /\ j - Len(p) \in DOMAIN q /\ r[j] = q[j - Len(p)]
    <3>1. r[i] \in Range(p) \cap Dialogs
      BY <1>7, <2>4 DEF Range
    <3>2. r[j] \in Range(q) \cap Stable
      BY <1>7, <2>4 DEF Range
    <3> QED BY <3>1, <3>2
  <2> QED BY <1>3, <2>1, <2>2, <2>3, <2>4
<1>8. DialogsLast(r)
    BY <1>7 DEF DialogsLast
<1> QED BY <1>1, <1>4, <1>5, <1>6, <1>8 DEF r

(* The listeners after a render's effects.                                 *)
LEMMA RelistenIs ==
    ASSUME NEW before \in Seq(Surfaces), NEW on \in SUBSET Surfaces
    PROVE  /\ Relisten(before, on) \in Seq(Surfaces)
           /\ Range(Relisten(before, on)) = on
           /\ DialogsLast(Relisten(before, on))
<1> DEFINE kept == Those(before, on \cap Stable)
           new == Those(TreeOrder, on \ Range(kept))
<1>1. kept \in Seq(Surfaces) /\ Range(kept) = Range(before) \cap (on \cap Stable)
    BY ThoseIs
<1>2. TreeOrder \in Seq(Surfaces) /\ DialogsLast(TreeOrder) /\ Range(TreeOrder) = Surfaces
    BY SurfacesAre DEF Surfaces
<1> HIDE DEF kept
<1>3. /\ new \in Seq(Surfaces) /\ Range(new) = Surfaces \cap (on \ Range(kept))
      /\ DialogsLast(new)
    BY <1>2, ThoseIs, ThoseLast
<1>4. Range(kept) \cap Dialogs = {}
    BY <1>1 DEF Dialogs, Stable
<1>5. DialogsLast(kept)
    BY <1>4 DEF DialogsLast, Range
<1> HIDE DEF new
<1>6. /\ kept \o new \in Seq(Surfaces)
      /\ Range(kept \o new) = Range(kept) \cup Range(new)
      /\ DialogsLast(kept \o new)
    BY <1>1, <1>3, <1>4, <1>5, Appended
<1>7. Relisten(before, on) = kept \o new
    BY DEF Relisten, kept, new
<1> QED BY <1>1, <1>3, <1>6, <1>7

(* The listeners after the effects of one Presence's render.               *)
LEMMA JoinIs ==
    ASSUME NEW before \in Seq(Surfaces), NEW on \in SUBSET Surfaces, DialogsLast(before),
           Range(before) \cap Dialogs # {} => on \cap Stable \subseteq Range(before)
    PROVE  /\ Join(before, on) \in Seq(Surfaces)
           /\ Range(Join(before, on)) = Range(before) \cup on
           /\ DialogsLast(Join(before, on))
<1> DEFINE new == Those(TreeOrder, on \ Range(before))
<1>1. TreeOrder \in Seq(Surfaces) /\ DialogsLast(TreeOrder) /\ Range(TreeOrder) = Surfaces
    BY SurfacesAre DEF Surfaces
<1>2. /\ new \in Seq(Surfaces) /\ Range(new) = Surfaces \cap (on \ Range(before))
      /\ DialogsLast(new)
    BY <1>1, ThoseIs, ThoseLast
<1> HIDE DEF new
<1>3. Range(before) \cap Dialogs = {} \/ Range(new) \cap Stable = {}
    BY <1>2
<1>4. /\ before \o new \in Seq(Surfaces)
      /\ Range(before \o new) = Range(before) \cup Range(new)
      /\ DialogsLast(before \o new)
    BY <1>2, <1>3, Appended
<1>5. Join(before, on) = before \o new
    BY DEF Join, new
<1> QED BY <1>2, <1>4, <1>5

(* Once the effects that are due have run, those that are shown listen.    *)
LEMMA FlushedIs ==
    ASSUME SurfacesInv
    PROVE  /\ Flushed \in Seq(Surfaces) /\ Range(Flushed) = shown
           /\ DialogsLast(Flushed) /\ shown \in SUBSET Surfaces
<1>1. heard \in Seq(Surfaces) /\ DialogsLast(heard) /\ ListenersAre
    BY DEF SurfacesInv, SurfacesTypeOK
<1>2. shown \in SUBSET Surfaces
    BY DEF SurfacesInv, SurfacesTypeOK, shown
<1>3. CASE due = "none"
    BY <1>1, <1>2, <1>3 DEF Flushed, ListenersAre
<1>4. CASE due = "mount"
  <2>1. Flushed = Join(heard, shown)
    BY <1>4 DEF Flushed
  <2>2. /\ Range(heard) \subseteq shown
        /\ Range(heard) \cap Dialogs # {} => shown \cap Stable \subseteq Range(heard)
    BY <1>1, <1>4 DEF ListenersAre
  <2>3. /\ Flushed \in Seq(Surfaces) /\ Range(Flushed) = Range(heard) \cup shown
        /\ DialogsLast(Flushed)
    BY <1>1, <1>2, <2>1, <2>2, JoinIs
  <2>4. Range(heard) \cup shown = shown
    BY <2>2
  <2> QED BY <1>2, <2>3, <2>4
<1>5. CASE due = "render"
  <2>1. Flushed = Relisten(heard, shown)
    BY <1>5 DEF Flushed
  <2> QED BY <1>1, <1>2, <2>1, RelistenIs
<1> QED BY <1>3, <1>4, <1>5 DEF SurfacesInv, SurfacesTypeOK

(* A panel that keeps its listener, or a dialog, is open when asked for.   *)
LEMMA OpenIs ==
    ASSUME NEW a \in SUBSET Surfaces, NEW l
    PROVE  /\ Open(a, l) \subseteq a
           /\ Open(a, l) \cap Stable = a \cap Stable
           /\ Open(a, l) \cap Dialogs = a \cap Dialogs
           /\ Open(a, l) \cap ByHand \subseteq Surfaces
    BY DEF Open, Stable, Dialogs

-----------------------------------------------------------------------------
(* What a render for a key or a click may ask for: never the alert and the *)
(* station at once; and no panel that keeps its listener comes to be there *)
(* after a dialog.                                                         *)
MayAsk(a) ==
    /\ a \subseteq Surfaces /\ ~ ({"detail", "station"} \subseteq a)
    /\ \/ a \cap (Stable \cup Dialogs) \subseteq asked
       \/ Seen /\ a \cap Stable \subseteq asked
       \/ shown \cap Dialogs = {} /\ a \cap Dialogs \subseteq asked

(* The types of what a step leaves to the session and the requests.        *)
RestOK == session \in BOOLEAN /\ waiting \in [Requests -> 0..MaxWaiting]

(* A render for a key or a click keeps the invariant.                      *)
LEMMA NowKeeps ==
    ASSUME SurfacesInv, NEW a, MayAsk(a), NEW l \in BOOLEAN, Now(a, l), RestOK'
    PROVE  SurfacesInv'
<1> DEFINE on == Open(a, l) \cap mounted
<1>1. a \in SUBSET Surfaces /\ asked \in SUBSET Surfaces /\ mounted \in SUBSET Surfaces
    BY DEF MayAsk, SurfacesInv, SurfacesTypeOK
<1>2. on \in SUBSET Surfaces
    BY <1>1
<1>3. /\ asked' = a /\ listed' = l /\ mounted' = mounted /\ due' = "none"
      /\ heard' = Relisten(Flushed, on)
    BY DEF Now
<1>4. open' = Open(a, l) /\ shown' = on
    BY <1>3 DEF open, shown
<1>5. heard' \in Seq(Surfaces) /\ Range(heard') = on /\ DialogsLast(heard')
    BY <1>2, <1>3, FlushedIs, RelistenIs
<1>6. SurfacesTypeOK'
    BY <1>1, <1>3, <1>5 DEF SurfacesTypeOK, RestOK
<1>7. ListenersAre'
    BY <1>3, <1>4, <1>5 DEF ListenersAre
<1>8. /\ Open(a, l) \cap Stable = a \cap Stable /\ Open(a, l) \cap Dialogs = a \cap Dialogs
      /\ open \cap Stable = asked \cap Stable /\ open \cap Dialogs = asked \cap Dialogs
    BY <1>1, OpenIs DEF open
<1>9. StableFirst'
  <2>1. SUFFICES ASSUME on \cap Dialogs # {} PROVE a \cap Stable \subseteq mounted
    BY <1>3, <1>4, <1>8 DEF StableFirst
  <2>2. CASE a \cap (Stable \cup Dialogs) \subseteq asked
    <3>1. shown \cap Dialogs # {}
      BY <1>8, <2>1, <2>2 DEF shown
    <3>2. open \cap Stable \subseteq mounted
      BY <3>1 DEF SurfacesInv, StableFirst
    <3> QED BY <1>8, <2>2, <3>2
  <2>3. CASE Seen /\ a \cap Stable \subseteq asked
    <3>1. Stable \subseteq ByHand
      BY SurfacesAre DEF Stable, ByHand
    <3>2. open \cap Stable \subseteq mounted
      BY <2>3, <3>1 DEF Seen
    <3> QED BY <1>8, <2>3, <3>2
  <2>4. CASE shown \cap Dialogs = {} /\ a \cap Dialogs \subseteq asked
    BY <1>8, <2>1, <2>4 DEF shown
  <2> QED BY <2>2, <2>3, <2>4 DEF MayAsk
<1>10. (DialogsLast(heard))'
    BY <1>5 DEF DialogsLast
<1> HIDE DEF on
<1> QED BY <1>3, <1>6, <1>7, <1>9, <1>10 DEF SurfacesInv, MayAsk

(* A render for an answer, an event or a timer keeps the invariant.        *)
LEMMA LaterKeeps ==
    ASSUME SurfacesInv, NEW a \in SUBSET Surfaces, NEW l \in BOOLEAN, Later(a, l), RestOK',
           a \cap Stable \subseteq asked, ~ ({"detail", "station"} \subseteq a)
    PROVE  SurfacesInv'
<1>1. asked \in SUBSET Surfaces /\ mounted \in SUBSET Surfaces
    BY DEF SurfacesInv, SurfacesTypeOK
<1>2. /\ asked' = a /\ listed' = l /\ due' = "render" /\ heard' = Flushed
      /\ mounted' = mounted \cup (open \cap Open(a, l))
    BY DEF Later
<1>3. Flushed \in Seq(Surfaces) /\ DialogsLast(Flushed)
    BY FlushedIs
<1>4. Open(a, l) \subseteq a /\ Open(a, l) \cap Stable = a \cap Stable
      /\ open \cap Stable = asked \cap Stable
    BY <1>1, OpenIs DEF open
<1>5. SurfacesTypeOK'
    BY <1>1, <1>2, <1>3, <1>4 DEF SurfacesTypeOK, RestOK
<1>6. ListenersAre'
    BY <1>2 DEF ListenersAre
<1>7. StableFirst'
  <2>1. open' = Open(a, l)
    BY <1>2 DEF open
  <2> QED BY <1>2, <1>4, <2>1 DEF StableFirst
<1>8. (DialogsLast(heard))'
    BY <1>2, <1>3 DEF DialogsLast
<1> QED BY <1>2, <1>5, <1>6, <1>7, <1>8 DEF SurfacesInv

-----------------------------------------------------------------------------
(* The names of the requests, and the surfaces that send them.             *)
LEMMA SendersAre ==
    \A k \in Requests \ {"offer"} :
       Sender(k) \in Surfaces /\ Sender(k) \in {"form", "zone", "detail", "auth", "claim"}
    BY SurfacesAre DEF Requests, Sender

(* One request more, or one less, on its way.                              *)
LEMMA WaitingIs ==
    ASSUME waiting \in [Requests -> 0..MaxWaiting], NEW k \in Requests
    PROVE  /\ waiting[k] > 0 => [waiting EXCEPT ![k] = @ - 1] \in [Requests -> 0..MaxWaiting]
           /\ waiting[k] < MaxWaiting =>
                 [waiting EXCEPT ![k] = @ + 1] \in [Requests -> 0..MaxWaiting]
<1>1. MaxWaiting \in Nat /\ waiting[k] \in 0..MaxWaiting
    BY SurfacesAssumption
<1>2. /\ waiting[k] > 0 => waiting[k] - 1 \in 0..MaxWaiting
      /\ waiting[k] < MaxWaiting => waiting[k] + 1 \in 0..MaxWaiting
    BY <1>1
<1> QED BY <1>2

(* In the beginning nothing is open, and nobody listens.                   *)
LEMMA SurfacesStart ==
    ASSUME SurfacesInit
    PROVE  SurfacesInv
<1>1. /\ asked = {} /\ listed = FALSE /\ session \in BOOLEAN /\ mounted = {} /\ heard = <<>>
      /\ due = "none" /\ waiting = [k \in Requests |-> 0]
    BY DEF SurfacesInit
<1>2. SurfacesTypeOK
  <2>1. heard \in Seq(Surfaces)
    BY <1>1
  <2>2. 0 \in 0..MaxWaiting
    BY SurfacesAssumption
  <2>3. waiting \in [Requests -> 0..MaxWaiting]
    BY <1>1, <2>2
  <2> QED BY <1>1, <2>1, <2>3 DEF SurfacesTypeOK
<1>3. open = {} /\ shown = {}
    BY <1>1 DEF open, shown, Open
<1>4. DOMAIN heard = {}
    BY <1>1
<1>5. Range(heard) = {}
    BY <1>4 DEF Range
<1>6. StableFirst /\ ListenersAre
    BY <1>1, <1>3, <1>5 DEF StableFirst, ListenersAre
<1>7. DialogsLast(heard)
    BY <1>4 DEF DialogsLast
<1> QED BY <1>1, <1>2, <1>6, <1>7 DEF SurfacesInv

(* Effects and the two steps of a Presence.                                *)
LEMMA PresenceKeeps ==
    ASSUME SurfacesInv, Effects \/ Mount \/ \E s \in Surfaces : Unmount(s)
    PROVE  SurfacesInv'
<1>1. CASE Effects
  <2>1. /\ heard' = Flushed /\ due' = "none" /\ asked' = asked /\ listed' = listed
        /\ session' = session /\ mounted' = mounted /\ waiting' = waiting
    BY <1>1 DEF Effects
  <2>2. open' = open /\ shown' = shown
    BY <2>1 DEF open, shown
  <2>3. heard' \in Seq(Surfaces) /\ Range(heard') = shown /\ DialogsLast(heard')
    BY <2>1, FlushedIs
  <2>4. SurfacesTypeOK'
    BY <2>1, <2>3 DEF SurfacesInv, SurfacesTypeOK
  <2>5. StableFirst' /\ ListenersAre'
    BY <2>1, <2>2, <2>3 DEF SurfacesInv, StableFirst, ListenersAre
  <2>6. (DialogsLast(heard))'
    BY <2>3 DEF DialogsLast
  <2> QED BY <2>1, <2>4, <2>5, <2>6 DEF SurfacesInv
<1>2. CASE Mount
  <2>1. /\ due = "none" /\ mounted' = mounted \cup open /\ due' = "mount"
        /\ asked' = asked /\ listed' = listed /\ session' = session /\ heard' = heard
        /\ waiting' = waiting
    BY <1>2 DEF Mount
  <2>2. open' = open /\ shown' = open
    BY <2>1 DEF open, shown
  <2>3. Range(heard) = shown
    BY <2>1 DEF SurfacesInv, ListenersAre
  <2>4. SurfacesTypeOK'
    BY <2>1 DEF SurfacesInv, SurfacesTypeOK, open, Open
  <2>5. StableFirst'
    BY <2>1, <2>2 DEF StableFirst
  <2>6. ListenersAre'
    BY <2>1, <2>2, <2>3 DEF SurfacesInv, StableFirst, ListenersAre, shown
  <2>7. (DialogsLast(heard))'
    BY <2>1 DEF SurfacesInv, DialogsLast
  <2> QED BY <2>1, <2>4, <2>5, <2>6, <2>7 DEF SurfacesInv
<1>3. ASSUME NEW s \in Surfaces, Unmount(s) PROVE SurfacesInv'
  <2>1. /\ s \in mounted \ open /\ mounted' = mounted \ {s}
        /\ asked' = asked /\ listed' = listed /\ session' = session /\ heard' = heard
        /\ due' = due /\ waiting' = waiting
    BY <1>3 DEF Unmount
  <2>2. open' = open /\ shown' = shown
    BY <2>1 DEF open, shown
  <2>3. SurfacesTypeOK'
    BY <2>1 DEF SurfacesInv, SurfacesTypeOK
  <2>4. StableFirst' /\ ListenersAre'
    BY <2>1, <2>2 DEF SurfacesInv, StableFirst, ListenersAre
  <2>5. (DialogsLast(heard))'
    BY <2>1 DEF SurfacesInv, DialogsLast
  <2> QED BY <2>1, <2>3, <2>4, <2>5 DEF SurfacesInv
<1> QED BY <1>1, <1>2, <1>3

(* The user's keys and clicks.                                             *)
LEMMA ByHandKeeps ==
    ASSUME SurfacesInv,
           \/ Escape \/ \E s \in Surfaces : Close(s)
           \/ MapClick \/ SwitchToZone \/ OpenZones \/ DrawZone \/ OpenDetail
           \/ OpenStation \/ OpenShortcuts \/ OpenAuth \/ SignOut
    PROVE  SurfacesInv'
<1>0. /\ asked \subseteq Surfaces /\ listed \in BOOLEAN /\ RestOK
      /\ ~ ({"detail", "station"} \subseteq asked)
      /\ session \in BOOLEAN
    BY DEF SurfacesInv, SurfacesTypeOK, RestOK
<1>1. ASSUME NEW a, NEW l \in BOOLEAN, Now(a, l), session' \in BOOLEAN, waiting' = waiting, MayAsk(a)
      PROVE  SurfacesInv'
  <2>1. RestOK'
    BY <1>0, <1>1 DEF RestOK
  <2> QED BY <1>1, <2>1, NowKeeps
<1>2. ASSUME NEW a, a \subseteq asked PROVE MayAsk(a)
    BY <1>0, <1>2 DEF MayAsk
<1>3. CASE Escape
    BY <1>0, <1>1, <1>2, <1>3, ClosingIs DEF Escape
<1>4. ASSUME NEW s \in Surfaces, Close(s) PROVE SurfacesInv'
    BY <1>0, <1>1, <1>2, <1>4 DEF Close
<1>5. CASE MapClick
  <2>1. MayAsk(asked \cup {"form"})
    BY <1>0, <1>5, SurfacesAre DEF MapClick, Reachable, MayAsk, Dialogs
  <2>2. MayAsk(asked \cup {"auth"})
    BY <1>0, <1>5, SurfacesAre DEF MapClick, Reachable, MayAsk, Stable
  <2> QED BY <1>0, <1>1, <1>5, <2>1, <2>2 DEF MapClick
<1>6. CASE SwitchToZone
  <2>1. MayAsk((asked \ {"form"}) \cup {"zone"})
    BY <1>0, <1>6, SurfacesAre DEF SwitchToZone, Reachable, MayAsk, Dialogs
  <2> QED BY <1>0, <1>1, <1>6, <2>1 DEF SwitchToZone
<1>7. CASE OpenZones
  <2>1. MayAsk(asked \cup {"zones"})
    BY <1>0, SurfacesAre DEF MayAsk, Dialogs, Stable
  <2> QED BY <1>0, <1>1, <1>7, <2>1 DEF OpenZones
<1>8. CASE DrawZone
  <2>1. MayAsk((asked \ {"zones"}) \cup {"zone"})
    BY <1>0, <1>8, SurfacesAre DEF DrawZone, Reachable, MayAsk, Dialogs
  <2> QED BY <1>0, <1>1, <1>8, <2>1 DEF DrawZone
<1>9. CASE OpenDetail
  <2>1. MayAsk((asked \ {"station"}) \cup {"detail"})
    BY <1>0, SurfacesAre DEF MayAsk, Dialogs, Stable
  <2> QED BY <1>0, <1>1, <1>9, <2>1 DEF OpenDetail
<1>10. CASE OpenStation
  <2>1. MayAsk((asked \ {"detail"}) \cup {"station"})
    BY <1>0, SurfacesAre DEF MayAsk, Dialogs, Stable
  <2> QED BY <1>0, <1>1, <1>10, <2>1 DEF OpenStation
<1>11. CASE OpenShortcuts
  <2>1. MayAsk(asked \cup {"shortcuts"})
    BY <1>0, <1>11, SurfacesAre DEF OpenShortcuts, MayAsk, Stable
  <2> QED BY <1>0, <1>1, <1>11, <2>1 DEF OpenShortcuts
<1>12. CASE OpenAuth
  <2>1. MayAsk(asked \cup {"auth"})
    BY <1>0, <1>12, SurfacesAre DEF OpenAuth, Reachable, MayAsk, Stable
  <2> QED BY <1>0, <1>1, <1>12, <2>1 DEF OpenAuth
<1>13. CASE SignOut
    BY <1>0, <1>1, <1>2, <1>13 DEF SignOut
<1> QED BY <1>3, <1>4, <1>5, <1>6, <1>7, <1>8, <1>9, <1>10, <1>11, <1>12, <1>13

(* Requests and their answers, and what renders by itself.                 *)
LEMMA AnswersKeep ==
    ASSUME SurfacesInv,
           \/ \E k \in Requests \ {"offer"} : Send(k)
           \/ \E k \in Requests : Answer(k) \/ Refuse(k)
           \/ SignedIn \/ OfferClaim \/ AlertsChange \/ Rerender
    PROVE  SurfacesInv'
<1>0. /\ asked \in SUBSET Surfaces /\ listed \in BOOLEAN /\ session \in BOOLEAN
      /\ waiting \in [Requests -> 0..MaxWaiting] /\ MaxWaiting \in Nat
      /\ ~ ({"detail", "station"} \subseteq asked)
    BY SurfacesAssumption DEF SurfacesInv, SurfacesTypeOK
<1>1. ASSUME NEW a \in SUBSET asked, NEW l \in BOOLEAN, Later(a, l), session' \in BOOLEAN,
             waiting' \in [Requests -> 0..MaxWaiting]
      PROVE  SurfacesInv'
  <2>1. a \in SUBSET Surfaces /\ RestOK' /\ ~ ({"detail", "station"} \subseteq a)
    BY <1>0, <1>1 DEF RestOK
  <2>2. a \cap Stable \subseteq asked
    OBVIOUS
  <2> QED BY <1>1, <2>1, <2>2, LaterKeeps
<1>2. ASSUME NEW k \in Requests, Send(k) PROVE SurfacesInv'
  <2>1. /\ waiting[k] < MaxWaiting /\ waiting' = [waiting EXCEPT ![k] = @ + 1]
        /\ asked' = asked /\ listed' = listed /\ session' = session /\ mounted' = mounted
        /\ heard' = heard /\ due' = due
    BY <1>2 DEF Send
  <2>2. waiting' \in [Requests -> 0..MaxWaiting]
    BY <1>0, <2>1, WaitingIs
  <2>3. SurfacesTypeOK'
    BY <2>1, <2>2 DEF SurfacesInv, SurfacesTypeOK
  <2>4. StableFirst' /\ ListenersAre' /\ (DialogsLast(heard))'
    BY <2>1 DEF SurfacesInv, StableFirst, ListenersAre, DialogsLast, shown, open
  <2> QED BY <2>1, <2>3, <2>4 DEF SurfacesInv
<1>3. ASSUME NEW k \in Requests, Answer(k) PROVE SurfacesInv'
  <2>1. waiting' \in [Requests -> 0..MaxWaiting]
    BY <1>0, <1>3, WaitingIs DEF Answer
  <2> QED BY <1>0, <1>1, <1>3, <2>1 DEF Answer
<1>4. ASSUME NEW k \in Requests, Refuse(k) PROVE SurfacesInv'
  <2>1. waiting' \in [Requests -> 0..MaxWaiting]
    BY <1>0, <1>4, WaitingIs DEF Refuse
  <2>2. (IF k = "adopt" THEN asked \ {"claim"} ELSE asked) \in SUBSET asked
    OBVIOUS
  <2>3. Later(IF k = "adopt" THEN asked \ {"claim"} ELSE asked, listed) /\ session' = session
    BY <1>4 DEF Refuse
  <2> QED BY <1>0, <1>1, <2>1, <2>2, <2>3
<1>5. CASE SignedIn
  <2> DEFINE fewer == [waiting EXCEPT !["login"] = @ - 1]
  <2>1. "login" \in Requests /\ "offer" \in Requests /\ waiting["login"] > 0
    BY <1>5 DEF SignedIn, Requests
  <2>2. waiting["login"] - 1 \in 0..MaxWaiting /\ waiting["offer"] \in 0..MaxWaiting
    BY <1>0, <2>1
  <2>3. (IF waiting["offer"] < MaxWaiting THEN waiting["offer"] + 1 ELSE waiting["offer"])
             \in 0..MaxWaiting
    BY <1>0, <2>2
  <2>4. waiting' \in [Requests -> 0..MaxWaiting]
    BY <1>0, <1>5, <2>1, <2>2, <2>3 DEF SignedIn
  <2>5. asked \ {"auth"} \in SUBSET asked /\ Later(asked \ {"auth"}, listed) /\ session' = TRUE
    BY <1>5 DEF SignedIn
  <2> QED BY <1>0, <1>1, <2>4, <2>5
<1>6. CASE OfferClaim
  <2>1. "offer" \in Requests
    BY DEF Requests
  <2>2. waiting' \in [Requests -> 0..MaxWaiting]
    BY <1>0, <1>6, <2>1, WaitingIs DEF OfferClaim
  <2>3. /\ asked \cup {"claim"} \in SUBSET Surfaces
        /\ ~ ({"detail", "station"} \subseteq asked \cup {"claim"})
        /\ (asked \cup {"claim"}) \cap Stable \subseteq asked
    BY <1>0, SurfacesAre DEF Stable
  <2>4. RestOK' /\ Later(asked \cup {"claim"}, listed)
    BY <1>0, <1>6, <2>2 DEF OfferClaim, RestOK
  <2> QED BY <1>0, <2>3, <2>4, LaterKeeps
<1>7. CASE AlertsChange
  <2>1. Later(asked, ~ listed) /\ session' = session /\ waiting' = waiting
    BY <1>7 DEF AlertsChange
  <2> QED BY <1>0, <1>1, <2>1
<1>8. CASE Rerender
  <2>1. session' = session /\ waiting' = waiting
    BY <1>8 DEF Rerender
  <2>2. CASE Later(asked, listed)
    BY <1>0, <1>1, <2>1, <2>2
  <2>3. CASE Now(asked, listed)
    <3>1. MayAsk(asked) /\ RestOK'
      BY <1>0, <2>1 DEF MayAsk, RestOK
    <3> QED BY <1>0, <2>3, <3>1, NowKeeps
  <2> QED BY <1>8, <2>2, <2>3 DEF Rerender
<1> QED BY <1>2, <1>3, <1>4, <1>5, <1>6, <1>7, <1>8

(* The invariant holds throughout: the listeners are those that are on the *)
(* screen once the effects have run, and no dialog is called before a      *)
(* panel that keeps its listener.                                          *)
THEOREM ListenersInvariant == SurfacesSpec => []SurfacesInv
<1>1. SurfacesInit => SurfacesInv
    BY SurfacesStart
<1>2. SurfacesInv /\ [SurfacesNext]_surfacesVars => SurfacesInv'
  <2>1. CASE SurfacesInv /\ SurfacesNext
    BY <2>1, PresenceKeeps, ByHandKeeps, AnswersKeep DEF SurfacesNext
  <2>2. CASE SurfacesInv /\ UNCHANGED surfacesVars
    <3>1. /\ asked' = asked /\ listed' = listed /\ session' = session /\ mounted' = mounted
          /\ heard' = heard /\ due' = due /\ waiting' = waiting
      BY <2>2 DEF surfacesVars
    <3>2. SurfacesTypeOK'
      BY <2>2, <3>1 DEF SurfacesInv, SurfacesTypeOK
    <3>3. StableFirst' /\ ListenersAre' /\ (DialogsLast(heard))'
      BY <2>2, <3>1 DEF SurfacesInv, StableFirst, ListenersAre, DialogsLast, shown, open
    <3> QED BY <2>2, <3>1, <3>2, <3>3 DEF SurfacesInv
  <2> QED BY <2>1, <2>2
<1> QED BY <1>1, <1>2, PTL DEF SurfacesSpec

(* Escape closes what is topmost only, whatever is on its way in or out.   *)
THEOREM EscapeClosesTopmost == SurfacesSpec => []TopmostOnly
<1>1. SurfacesInv => TopmostOnly
    BY TopmostOnlyHolds
<1> QED BY <1>1, ListenersInvariant, PTL

(* The surfaces never all leave Escape to one another.                     *)
THEOREM EscapeNeverLost == SurfacesSpec => []EscapeActs
<1>1. SurfacesInv => EscapeActs
    BY EscapeActsHolds
<1> QED BY <1>1, ListenersInvariant, PTL

-----------------------------------------------------------------------------
(* Toasts, announcements and highlights.                                   *)

(* What a timer is for, and how long it has left.                          *)
Timers == [of : Raisable, left : Nat]

(* What the variables of the notices can be.                               *)
NoticesTypeOK ==
    /\ toast \in Texts \cup {Silence} /\ liveIds \subseteq Ids
    /\ timers \subseteq Timers /\ raised \in [Raisable -> Nat]

(* The timer of what has last been raised, which nothing is up without.    *)
Own(what) == [of |-> what, left |-> LifeOf(what) - raised[what]]
HasTimer == \A what \in Up : raised[what] <= LifeOf(what) /\ Own(what) \in timers

(* The toast's timers are its own one.                                     *)
ToastsOnly == \A t \in timers : t.of = "toast" => toast # Silence /\ t = Own("toast")

(* The inductive invariant of the notices.                                 *)
NoticesInv == NoticesTypeOK /\ HasTimer /\ ToastsOnly

(* Every notice lives for a positive time.                                 *)
LEMMA LifeType == \A what : LifeOf(what) \in Nat \ {0}
BY NoticesAssumption DEF LifeOf

(* A timer that is started is one's own of what is raised.                 *)
LEMMA Started ==
    ASSUME NEW things \in SUBSET Raisable, Raise(things), raised \in [Raisable -> Nat]
    PROVE  /\ raised' \in [Raisable -> Nat]
           /\ \A what \in things : raised'[what] = 0 /\ Own(what)' = Timer(what) /\ Timer(what) \in Timers
           /\ \A what \in Raisable \ things : raised'[what] = raised[what] /\ Own(what)' = Own(what)
<1>1. /\ raised' \in [Raisable -> Nat]
      /\ \A what \in things : raised'[what] = 0
      /\ \A what \in Raisable \ things : raised'[what] = raised[what]
    BY DEF Raise
<1>2. \A what \in things : LifeOf(what) - 0 = LifeOf(what)
    BY LifeType
<1>3. \A what \in things : Timer(what) \in Timers
    BY LifeType DEF Timer, Timers
<1> QED BY <1>1, <1>2, <1>3 DEF Own, Timer

(* Notices's initial states satisfy the invariant.                         *)
LEMMA NoticesInitOK == NoticesInit => NoticesInv
BY DEF NoticesInit, NoticesInv, NoticesTypeOK, HasTimer, ToastsOnly, Up

(* ShowToast keeps the invariant.                                          *)
LEMMA ShowToastOK ==
    ASSUME NoticesInv, NEW text \in Texts, ShowToast(text)
    PROVE  NoticesInv'
<1>a. /\ toast' = text /\ toast' # Silence /\ Raise({"toast"})
      /\ timers' = {t \in timers : t.of # "toast"} \cup {Timer("toast")}
      /\ UNCHANGED <<announcement, liveIds>>
    BY NoticesAssumption DEF ShowToast
<1>b. Timer("toast").of = "toast"
    BY DEF Timer
<1>c. Up' = Up \cup {"toast"} /\ \A what \in Up : what \in Raisable /\ Own(what).of = what
    BY <1>a DEF Up, NoticesInv, NoticesTypeOK, Raisable, Own
<1>d. {"toast"} \in SUBSET Raisable
    BY DEF Raisable
<1>1. NoticesTypeOK'
    BY <1>a, <1>d, Started DEF NoticesInv, NoticesTypeOK
<1>2. HasTimer'
    BY <1>a, <1>c, <1>d, Started, LifeType DEF NoticesInv, NoticesTypeOK, HasTimer
<1>3. ToastsOnly'
    BY <1>a, <1>b, <1>d, Started DEF NoticesInv, NoticesTypeOK, ToastsOnly
<1> QED BY <1>1, <1>2, <1>3 DEF NoticesInv

(* What the stream brings leaves the toast alone and adds timers.          *)
LEMMA HeardOK ==
    ASSUME NoticesInv, NEW things \in SUBSET (Raisable \ {"toast"}), Raise(things),
           timers' = timers \cup {Timer(what) : what \in things},
           Up' \subseteq Up \cup things, toast' = toast, liveIds' \subseteq Ids
    PROVE  NoticesInv'
<1>a. Up \subseteq Raisable
    BY DEF Up, Raisable, NoticesInv, NoticesTypeOK
<1>b. "toast" \in Raisable \ things /\ \A what : Timer(what).of = what
    BY DEF Raisable, Timer
<1>1. NoticesTypeOK'
    BY Started DEF NoticesInv, NoticesTypeOK
<1>2. HasTimer'
    BY <1>a, Started, LifeType DEF NoticesInv, NoticesTypeOK, HasTimer
<1>3. ToastsOnly'
    BY <1>b, Started DEF NoticesInv, NoticesTypeOK, ToastsOnly
<1> QED BY <1>1, <1>2, <1>3 DEF NoticesInv

(* HearAlert keeps the invariant.                                          *)
LEMMA HearAlertOK ==
    ASSUME NoticesInv, NEW id \in Ids, NEW text \in Texts, NEW critical \in BOOLEAN,
           HearAlert(id, text, critical)
    PROVE  NoticesInv'
<1>1. {id, "announcement"} \in SUBSET (Raisable \ {"toast"})
    BY NoticesAssumption DEF Raisable
<1>2. timers' = timers \cup {Timer(what) : what \in {id, "announcement"}}
    BY DEF HearAlert
<1>3. Up' \subseteq Up \cup {id, "announcement"} /\ liveIds' \subseteq Ids
    BY DEF HearAlert, Up, NoticesInv, NoticesTypeOK
<1> QED BY <1>1, <1>2, <1>3, HeardOK DEF HearAlert

(* HearUpdate keeps the invariant.                                         *)
LEMMA HearUpdateOK ==
    ASSUME NoticesInv, NEW text \in Texts, HearUpdate(text)
    PROVE  NoticesInv'
<1>1. {"announcement"} \in SUBSET (Raisable \ {"toast"})
    BY DEF Raisable
<1>2. timers' = timers \cup {Timer(what) : what \in {"announcement"}}
    BY DEF HearUpdate
<1>3. Up' \subseteq Up \cup {"announcement"} /\ liveIds' \subseteq Ids
    BY DEF HearUpdate, Up, NoticesInv, NoticesTypeOK
<1> QED BY <1>1, <1>2, <1>3, HeardOK DEF HearUpdate

(* GoOff keeps the invariant.                                              *)
LEMMA GoOffOK ==
    ASSUME NoticesInv, NEW t \in timers, GoOff(t)
    PROVE  NoticesInv'
<1>a. /\ timers' = timers \ {t}
      /\ toast' = (IF t.of = "toast" THEN Silence ELSE toast)
      /\ liveIds' = liveIds \ {t.of} /\ raised' = raised
    BY DEF GoOff
<1>b. Up' \subseteq Up \ {t.of}
    BY NoticesAssumption DEF GoOff, Up, NoticesInv, NoticesTypeOK
<1>c. \A what : Own(what)' = Own(what) /\ Own(what).of = what
    BY <1>a DEF Own
<1>1. NoticesTypeOK'
    BY <1>a DEF NoticesInv, NoticesTypeOK
<1>2. HasTimer'
    BY <1>a, <1>b, <1>c DEF NoticesInv, HasTimer
<1>3. ToastsOnly'
    BY <1>a, <1>c DEF NoticesInv, ToastsOnly
<1> QED BY <1>1, <1>2, <1>3 DEF NoticesInv

(* Tick keeps the invariant.                                               *)
LEMMA TickOK ==
    ASSUME NoticesInv, Tick
    PROVE  NoticesInv'
<1>a. /\ timers' = {[t EXCEPT !.left = @ - 1] : t \in timers}
      /\ raised' = [what \in Raisable |->
                      IF raised[what] = LifeOf(what) THEN raised[what] ELSE raised[what] + 1]
      /\ UNCHANGED <<toast, announcement, liveIds>>
    BY DEF Tick
<1>b. \A t \in timers : t.left \in Nat \ {0} /\ t.of \in Raisable
    BY DEF Tick, Due, NoticesInv, NoticesTypeOK, Timers
<1>c. ASSUME NEW t \in timers
      PROVE  [t EXCEPT !.left = @ - 1] = [of |-> t.of, left |-> t.left - 1]
    BY DEF NoticesInv, NoticesTypeOK, Timers
<1>d. timers' = {[of |-> t.of, left |-> t.left - 1] : t \in timers}
    BY <1>a, <1>c
<1>e. Up' = Up /\ Up \subseteq Raisable
    BY <1>a DEF Up, Raisable, NoticesInv, NoticesTypeOK
<1>f. ASSUME NEW what \in Raisable, raised[what] <= LifeOf(what), Own(what) \in timers
      PROVE  /\ raised'[what] = raised[what] + 1 /\ raised'[what] <= LifeOf(what)
             /\ Own(what)' = [of |-> what, left |-> Own(what).left - 1]
             /\ Own(what)' \in timers'
  <2>1. Own(what).of = what /\ Own(what).left = LifeOf(what) - raised[what]
    BY DEF Own
  <2>2. LifeOf(what) \in Nat /\ raised[what] \in Nat
    BY LifeType DEF NoticesInv, NoticesTypeOK
  <2>3. LifeOf(what) - raised[what] > 0
    BY <1>b, <1>f, <2>1, <2>2
  <2>4. raised'[what] = raised[what] + 1
    BY <1>a, <2>2, <2>3
  <2>5. LifeOf(what) - raised'[what] = Own(what).left - 1
    BY <2>1, <2>2, <2>4
  <2>6. Own(what)' = [of |-> what, left |-> Own(what).left - 1]
    BY <2>5 DEF Own
  <2> QED BY <1>d, <1>f, <2>1, <2>2, <2>3, <2>4, <2>6
<1>1. NoticesTypeOK'
  <2>1. timers' \subseteq Timers
    BY <1>b, <1>d DEF Timers
  <2>2. raised' \in [Raisable -> Nat]
    BY <1>a DEF NoticesInv, NoticesTypeOK
  <2> QED BY <1>a, <2>1, <2>2 DEF NoticesInv, NoticesTypeOK
<1>2. HasTimer'
    BY <1>e, <1>f DEF NoticesInv, HasTimer
<1>3. ToastsOnly'
  <2> SUFFICES ASSUME NEW u \in timers', u.of = "toast"
               PROVE  toast' # Silence /\ u = Own("toast")'
    BY DEF ToastsOnly
  <2>1. PICK t \in timers : u = [of |-> t.of, left |-> t.left - 1]
    BY <1>d
  <2>2. t.of = "toast"
    BY <2>1
  <2>3. toast # Silence /\ t = Own("toast") /\ "toast" \in Up
    BY <2>2 DEF NoticesInv, ToastsOnly, Up
  <2> QED BY <1>a, <1>e, <1>f, <2>1, <2>2, <2>3 DEF NoticesInv, HasTimer
<1> QED BY <1>1, <1>2, <1>3 DEF NoticesInv

(* Every step keeps the invariant, or changes nothing.                     *)
LEMMA NoticesStep == NoticesInv /\ [NoticesNext]_noticeVars => NoticesInv'
<1> SUFFICES ASSUME NoticesInv, [NoticesNext]_noticeVars PROVE NoticesInv'
    OBVIOUS
<1>1. CASE UNCHANGED noticeVars
    BY <1>1 DEF noticeVars, NoticesInv, NoticesTypeOK, HasTimer, ToastsOnly, Up, Own
<1>2. CASE NoticesNext
    BY <1>2, ShowToastOK, HearAlertOK, HearUpdateOK, GoOffOK, TickOK DEF NoticesNext, Due
<1> QED BY <1>1, <1>2

(* The toast has one timer, its own, and runs its whole time; what is up   *)
(* has the timer of its last raising, and so an end - for every length of  *)
(* those times and every number of alerts.                                 *)
THEOREM NoticesEndAlways == NoticesSpec => []NoticesEnd
<1>1. NoticesInv => NoticesEnd
  <2> SUFFICES ASSUME NoticesInv PROVE NoticesEnd
    OBVIOUS
  <2> DEFINE T == {t \in timers : t.of = "toast"}
  <2>1. CASE toast = Silence
    <3>1. T = {}
        BY <2>1 DEF NoticesInv, ToastsOnly
    <3>2. Cardinality(T) = 0
        BY <3>1, FS_EmptySet
    <3> QED BY <2>1, <3>2 DEF NoticesInv, HasTimer, Own, NoticesEnd
  <2>2. CASE toast # Silence
    <3>1. Own("toast") \in timers /\ Own("toast").of = "toast"
        BY <2>2 DEF NoticesInv, HasTimer, Up, Own
    <3>2. T = {Own("toast")}
        BY <3>1 DEF NoticesInv, ToastsOnly
    <3> HIDE DEF T
    <3>3. Cardinality(T) = 1
        BY <3>2, FS_Singleton
    <3> QED BY <2>2, <3>3 DEF NoticesInv, HasTimer, Own, NoticesEnd, T
  <2> QED BY <2>1, <2>2
<1> QED BY NoticesInitOK, NoticesStep, <1>1, PTL DEF NoticesSpec
-----------------------------------------------------------------------------
(* The bottom sheet and the fingers on it.                                 *)

(* What a finger that holds the sheet has done.                            *)
Grips == [startY : Int, startOffset : Int, lastY : Int, velocity : {"slow", "up", "down"}]

(* What the variables of the sheet can be.                                 *)
SheetTypeOK ==
    /\ viewport \in Heights /\ narrow \in BOOLEAN /\ isSheet \in BOOLEAN
    /\ dragging \in BOOLEAN
    /\ snap \in Snap /\ grip \in Grips /\ touching \subseteq Fingers
    /\ offset \in Int \cup {NoOffset}

(* The inductive invariant of the sheet: its property, with the types.     *)
SheetInv == SheetTypeOK /\ SheetSettles

(* Every resting place has an offset.                                      *)
LEMMA Offsets ==
    ASSUME NEW h \in Heights, NEW p \in Snap
    PROVE  OffsetIn(h, p) \in Nat
<1>1. h \in Nat /\ Peek \in Nat
    BY SheetAssumption
<1>2. Percent(88, h) \in Nat /\ Percent(52, h) \in Nat
    BY <1>1 DEF Percent
<1>3. p \in {"full", "half", "peek"}
    BY DEF Snap
<1>4. p = "full" => OffsetIn(h, p) = 0
    BY DEF OffsetIn
<1>5. p = "half" => OffsetIn(h, p) = AtLeast(0, Percent(88, h) - Percent(52, h))
    BY DEF OffsetIn
<1>6. p = "peek" => OffsetIn(h, p) = AtLeast(0, Percent(88, h) - Peek)
    BY DEF OffsetIn
<1>7. \A x \in Int : AtLeast(0, x) \in Nat
    BY DEF AtLeast
<1> QED BY <1>1, <1>2, <1>3, <1>4, <1>5, <1>6, <1>7

(* The order of the resting places.                                        *)
LEMMA Indices ==
    IndexOf("full") = 1 /\ IndexOf("half") = 2 /\ IndexOf("peek") = 3
<1>1. DOMAIN Order = {1, 2, 3} /\ Order[1] = "full" /\ Order[2] = "half" /\ Order[3] = "peek"
    BY DEF Order
<1> QED BY <1>1 DEF IndexOf

(* Where a finger lets go, one resting place is the nearest.               *)
LEMMA NearestRests ==
    ASSUME viewport \in Heights, NEW x \in Int
    PROVE  Nearest(x) \in Snap
<1> DEFINE D(p) == Distance(OffsetFor(p), x)
           Best(p) == \A q \in Snap : \/ D(p) < D(q)
                                      \/ D(p) = D(q) /\ IndexOf(p) <= IndexOf(q)
<1>1. D("full") \in Int /\ D("half") \in Int /\ D("peek") \in Int
    BY Offsets DEF Distance, OffsetFor, Snap
<1>2. \E p \in Snap : Best(p)
  <2> HIDE DEF D
  <2> QED BY <1>1, Indices DEF Snap
<1>3. Nearest(x) = CHOOSE p \in Snap : Best(p)
    BY DEF Nearest
<1> HIDE DEF Best
<1> QED BY <1>2, <1>3

(* Wherever and however a finger lets go, the sheet has a place to rest.   *)
LEMMA ReleasedRests ==
    ASSUME SheetTypeOK, NEW y \in Int
    PROVE  Released(y) \in Snap
<1>1. CASE grip.velocity # "slow" /\ y # grip.startY
  <2> DEFINE i == IndexOf(snap) + (IF grip.velocity = "down" THEN 1 ELSE -1)
  <2>1. i \in Int
    BY Indices DEF SheetTypeOK, Snap
  <2>2. Len(Order) = 3 /\ Order[1] \in Snap /\ Order[2] \in Snap /\ Order[3] \in Snap
    BY DEF Order, Snap
  <2>3. AtMost(3, AtLeast(1, i)) \in {1, 2, 3}
    BY <2>1 DEF AtMost, AtLeast
  <2>4. Released(y) = Order[AtMost(Len(Order), AtLeast(1, i))]
    BY <1>1 DEF Released
  <2> HIDE DEF i
  <2> QED BY <2>2, <2>3, <2>4
<1>2. CASE ~(grip.velocity # "slow" /\ y # grip.startY)
  <2>1. Dragged(y) \in Int
    BY Offsets DEF Dragged, AtMost, AtLeast, OffsetFor, SheetTypeOK, Grips, Snap
  <2> QED BY <1>2, <2>1, NearestRests DEF Released, SheetTypeOK
<1> QED BY <1>1, <1>2

(* What the effect makes of the sheet.                                     *)
LEMMA SettledType ==
    ASSUME SheetTypeOK, NEW sheet \in BOOLEAN, NEW h \in Heights, NEW p \in Snap, NEW held \in BOOLEAN
    PROVE  Settled(sheet, h, p, held) \in Int \cup {NoOffset}
BY Offsets DEF Settled, SheetTypeOK

(* Sheet's initial states satisfy the invariant.                           *)
LEMMA SheetInitOK == SheetInit => SheetInv
<1> SUFFICES ASSUME SheetInit PROVE SheetInv
    OBVIOUS
<1>1. NoGrip \in Grips
    BY DEF NoGrip, Grips
<1>2. SheetTypeOK
    BY <1>1 DEF SheetInit, SheetTypeOK, Snap
<1>3. SheetSettles
    BY DEF SheetInit, SheetSettles
<1> QED BY <1>2, <1>3 DEF SheetInv

(* Resize keeps the invariant.                                             *)
LEMMA ResizeOK ==
    ASSUME SheetInv, NEW h \in Heights, Resize(h)
    PROVE  SheetInv'
<1>1. SheetTypeOK'
    BY SettledType DEF Resize, SheetInv, SheetTypeOK
<1>2. SheetSettles'
    BY DEF Resize, SheetInv, SheetTypeOK, SheetSettles, Settled, OffsetFor
<1> QED BY <1>1, <1>2 DEF SheetInv

(* Sync keeps the invariant.                                               *)
LEMMA SyncOK ==
    ASSUME SheetInv, Sync
    PROVE  SheetInv'
<1>1. SheetTypeOK'
    BY SettledType DEF Sync, SheetInv, SheetTypeOK
<1>2. SheetSettles'
    BY DEF Sync, SheetInv, SheetTypeOK, SheetSettles, Settled, OffsetFor
<1> QED BY <1>1, <1>2 DEF SheetInv

(* Cycle keeps the invariant.                                              *)
LEMMA CycleOK ==
    ASSUME SheetInv, Cycle
    PROVE  SheetInv'
<1>1. snap' \in Snap
    BY DEF Cycle, Snap
<1>2. SheetTypeOK'
    BY <1>1, SettledType DEF Cycle, SheetInv, SheetTypeOK
<1>3. SheetSettles'
    BY DEF Cycle, SheetInv, SheetTypeOK, SheetSettles, Settled, OffsetFor
<1> QED BY <1>2, <1>3 DEF SheetInv

(* Press keeps the invariant.                                              *)
LEMMA PressOK ==
    ASSUME SheetInv, NEW f \in Fingers, NEW y \in Places, Press(f, y)
    PROVE  SheetInv'
<1>1. y \in Int /\ OffsetFor(snap) \in Int
    BY SheetAssumption, Offsets DEF OffsetFor, SheetInv, SheetTypeOK
<1>2. SheetTypeOK'
  <2>1. CASE isSheet
    <3>1. /\ dragging' = TRUE /\ touching' = touching \cup {f}
          /\ grip' = [startY |-> y, startOffset |-> OffsetFor(snap), lastY |-> y, velocity |-> "slow"]
          /\ UNCHANGED <<viewport, narrow, isSheet, snap, offset>>
        BY <2>1 DEF Press
    <3>2. grip' \in Grips
        BY <1>1, <3>1 DEF Grips
    <3> QED BY <3>1, <3>2 DEF SheetInv, SheetTypeOK
  <2>2. CASE ~isSheet
    BY <2>2 DEF Press, SheetInv, SheetTypeOK
  <2> QED BY <2>1, <2>2 DEF SheetInv, SheetTypeOK
<1>3. SheetSettles'
    BY DEF Press, SheetInv, SheetTypeOK, SheetSettles, OffsetFor
<1> QED BY <1>2, <1>3 DEF SheetInv

(* Drag keeps the invariant.                                               *)
LEMMA DragOK ==
    ASSUME SheetInv, NEW y \in Places, Drag(y)
    PROVE  SheetInv'
<1>1. y \in Int /\ Dragged(y) \in Int
    BY SheetAssumption, Offsets DEF Dragged, AtMost, AtLeast, OffsetFor, SheetInv, SheetTypeOK, Grips, Snap
<1>2. grip' \in Grips
    BY <1>1 DEF Drag, SheetInv, SheetTypeOK, Grips
<1>3. SheetTypeOK'
    BY <1>1, <1>2 DEF Drag, SheetInv, SheetTypeOK
<1>4. SheetSettles'
    BY DEF Drag, SheetInv, SheetTypeOK, SheetSettles, OffsetFor
<1> QED BY <1>3, <1>4 DEF SheetInv

(* Release keeps the invariant.                                            *)
LEMMA ReleaseOK ==
    ASSUME SheetInv, NEW f \in Fingers, NEW y \in Places, Release(f, y)
    PROVE  SheetInv'
<1>1. y \in Int /\ (dragging => snap' \in Snap)
    BY SheetAssumption, ReleasedRests DEF Release, SheetInv
<1>2. SheetTypeOK'
    BY <1>1, SettledType DEF Release, SheetInv, SheetTypeOK
<1>3. SheetSettles'
    BY DEF Release, SheetInv, SheetTypeOK, SheetSettles, Settled, OffsetFor
<1> QED BY <1>2, <1>3 DEF SheetInv

(* Every step keeps the invariant, or changes nothing.                     *)
LEMMA SheetStep == SheetInv /\ [SheetNext]_sheetVars => SheetInv'
<1> SUFFICES ASSUME SheetInv, [SheetNext]_sheetVars PROVE SheetInv'
    OBVIOUS
<1>1. CASE UNCHANGED sheetVars
    BY <1>1 DEF sheetVars, SheetInv, SheetTypeOK, SheetSettles, OffsetFor
<1>2. CASE SheetNext
    BY <1>2, ResizeOK, SyncOK, CycleOK, PressOK, DragOK, ReleaseOK DEF SheetNext
<1> QED BY <1>1, <1>2

(* The sheet comes to rest at one of its places, in any viewport and under *)
(* any number of fingers: a flick or the nearest place, the release of a   *)
(* finger that is not the one that dragged, and resizes while it drags     *)
(* included.                                                               *)
THEOREM SheetSettlesAlways == SheetSpec => [](SheetTypeOK /\ SheetSettles)
BY SheetInitOK, SheetStep, PTL DEF SheetSpec, SheetInv
=============================================================================
