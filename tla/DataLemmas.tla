------------------------------- MODULE DataLemmas -------------------------------
(***************************************************************************)
(* Induction over whole numbers and over the length of a sequence, and     *)
(* what the models' recursive functions, sums and sequence operators       *)
(* compute.  The library's own induction theorems take the formula as an   *)
(* operator, which the provers at hand cannot instantiate; here a formula  *)
(* is the set of the numbers it holds of, which they can.                  *)
(***************************************************************************)
EXTENDS SeqFolds, FiniteSets, SequencesExt, FiniteSetTheorems, SequenceTheorems,
        WellFoundedInduction, TLAPS

(* A set of naturals that is not empty has a least member.                 *)
LEMMA LeastOf ==
    ASSUME NEW T \in SUBSET Nat, T # {}
    PROVE  \E m \in T : \A k \in T : m <= k
<1> DEFINE R == {p \in Nat \X Nat : p[1] < p[2]}
<1>1. IsWellFoundedOn(R, Nat)
    BY NatLessThanWellFounded DEF OpToRel
<1>2. \E x \in T : \A y \in T : ~ (<<y, x>> \in R)
  <2> HIDE DEF R
  <2> QED BY <1>1, WFMin
<1>3. ASSUME NEW x \in Nat, NEW y \in Nat, y < x PROVE <<y, x>> \in R
    BY <1>3
<1>4. PICK m \in T : \A y \in T : ~ (<<y, m>> \in R)
    BY <1>2
<1> HIDE DEF R
<1>5. ASSUME NEW k \in T PROVE m <= k
  <2>1. m \in Nat /\ k \in Nat
    OBVIOUS
  <2>2. ~(k < m)
    BY <1>3, <1>4, <2>1
  <2> QED BY <2>1, <2>2
<1> QED BY <1>5

(* Induction from 0 up to n, for the numbers that are members of T.        *)
LEMMA CountUp ==
    ASSUME NEW n \in Nat, NEW T, 0 \in T,
           \A i \in 0..(n - 1) : i \in T => i + 1 \in T
    PROVE  \A i \in 0..n : i \in T
<1> DEFINE out == {i \in 0..n : i \notin T}
<1>1. SUFFICES ASSUME out # {} PROVE FALSE
    BY DEF out
<1>2. PICK m \in out : \A k \in out : m <= k
  <2>1. out \in SUBSET Nat
    BY DEF out
  <2> HIDE DEF out
  <2> QED BY <1>1, <2>1, LeastOf
<1>3. m \in 0..n /\ m \notin T /\ m # 0
    BY DEF out
<1>4. m - 1 \in 0..(n - 1) /\ (m - 1) + 1 = m /\ m - 1 \in 0..n /\ ~(m <= m - 1)
    BY <1>3
<1>5. m - 1 \in T
    BY <1>2, <1>4 DEF out
<1> QED BY <1>3, <1>4, <1>5

(* f is what comes of a by the steps g[1], ..., g[n], within R.            *)
Iterates(f, R, a, n, g) ==
    /\ f \in [0..n -> R]
    /\ f[0] = a
    /\ \A i \in 1..n : f[i] = g[i][f[i - 1]]

(* A recursion from 0 up to n, each value a function of the one before it, *)
(* defines a function.                                                     *)
LEMMA RecursionExists ==
    ASSUME NEW R, NEW a \in R, NEW n \in Nat, NEW g \in [1..n -> [R -> R]]
    PROVE  \E f : Iterates(f, R, a, n, g)
<1> DEFINE Upto(m, f) == f[0] = a /\ \A i \in 1..m : f[i] = g[i][f[i - 1]]
           T == {m \in 0..n : \E f \in [0..m -> R] : Upto(m, f)}
<1>1. 0 \in T
  <2> DEFINE one == [i \in 0..0 |-> a]
  <2>1. one \in [0..0 -> R] /\ one[0] = a
    OBVIOUS
  <2> HIDE DEF one
  <2>2. Upto(0, one)
    BY <2>1
  <2> HIDE DEF Upto
  <2> QED BY <2>1, <2>2
<1>2. ASSUME NEW m \in 0..(n - 1), m \in T PROVE m + 1 \in T
  <2>1. PICK f \in [0..m -> R] : Upto(m, f)
    BY <1>2
  <2> DEFINE h == [i \in 0..(m + 1) |-> IF i = m + 1 THEN g[m + 1][f[m]] ELSE f[i]]
  <2>2. g[m + 1][f[m]] \in R
    <3>1. m + 1 \in 1..n /\ f[m] \in R
      BY <2>1
    <3> QED BY <3>1
  <2>3. h \in [0..(m + 1) -> R]
    BY <2>1, <2>2
  <2>4. h[0] = a
    BY <2>1
  <2>5. ASSUME NEW i \in 1..(m + 1) PROVE h[i] = g[i][h[i - 1]]
    <3>1. CASE i = m + 1
      <4>1. h[i] = g[m + 1][f[m]] /\ h[i - 1] = f[m]
        BY <3>1
      <4> QED BY <3>1, <4>1
    <3>2. CASE i # m + 1
      <4>1. i \in 1..m /\ i - 1 \in 0..m /\ h[i] = f[i] /\ h[i - 1] = f[i - 1]
        BY <3>2
      <4> QED BY <2>1, <4>1
    <3> QED BY <3>1, <3>2
  <2> HIDE DEF h
  <2>6. Upto(m + 1, h) /\ m + 1 \in 0..n
    BY <2>4, <2>5
  <2> QED BY <2>3, <2>6
<1>3. n \in T
  <2> HIDE DEF T
  <2>1. \A i \in 0..n : i \in T
    BY <1>1, <1>2, CountUp
  <2> QED BY <2>1
<1>4. PICK f \in [0..n -> R] : Upto(n, f)
    BY <1>3
<1> QED BY <1>4 DEF Iterates

-----------------------------------------------------------------------------
(* t is s with e put in as its i-th element.                               *)
IsWith(t, s, i, e) ==
    /\ Len(t) = Len(s) + 1
    /\ \A j \in 1..(Len(s) + 1) : t[j] = IF j < i THEN s[j] ELSE IF j = i THEN e ELSE s[j - 1]

(* A sequence with one element put in.                                     *)
LEMMA InsertAtPuts ==
    ASSUME NEW S, NEW s \in Seq(S), NEW i \in 1..(Len(s) + 1), NEW e \in S
    PROVE  InsertAt(s, i, e) \in Seq(S) /\ IsWith(InsertAt(s, i, e), s, i, e)
<1> DEFINE front == SubSeq(s, 1, i - 1)
           back == SubSeq(s, i, Len(s))
<1>0. Len(s) \in Nat /\ i \in Nat /\ \A j \in 1..Len(s) : s[j] \in S
    BY LenProperties, ElementOfSeq
<1>1. /\ front \in Seq(S) /\ Len(front) = i - 1 /\ \A j \in 1..(i - 1) : front[j] = s[j]
    BY <1>0, SubSeqProperties
<1>2. /\ back \in Seq(S) /\ Len(back) = Len(s) - i + 1
      /\ \A j \in 1..(Len(s) - i + 1) : back[j] = s[i + j - 1]
    BY <1>0, SubSeqProperties
<1>3. <<e>> \in Seq(S) /\ Len(<<e>>) = 1 /\ <<e>>[1] = e
    OBVIOUS
<1> HIDE DEF front, back
<1>4. /\ front \o <<e>> \in Seq(S) /\ Len(front \o <<e>>) = i
      /\ \A j \in 1..i : (front \o <<e>>)[j] = IF j < i THEN s[j] ELSE e
    BY <1>0, <1>1, <1>3, ConcatProperties
<1> DEFINE first == front \o <<e>>
<1> HIDE DEF first
<1>5. /\ first \in Seq(S) /\ Len(first) = i
      /\ \A j \in 1..i : first[j] = IF j < i THEN s[j] ELSE e
    BY <1>4 DEF first
<1>6. /\ first \o back \in Seq(S) /\ Len(first \o back) = Len(first) + Len(back)
      /\ \A j \in 1..(Len(first) + Len(back)) :
            (first \o back)[j] = IF j <= Len(first) THEN first[j] ELSE back[j - Len(first)]
    BY <1>2, <1>5, ConcatProperties
<1>7. Len(first) + Len(back) = Len(s) + 1
    BY <1>0, <1>2, <1>5
<1>8. ASSUME NEW j \in 1..(Len(s) + 1)
      PROVE  (first \o back)[j] = IF j < i THEN s[j] ELSE IF j = i THEN e ELSE s[j - 1]
  <2>1. CASE j <= i
    BY <1>0, <1>5, <1>6, <1>7, <2>1
  <2>2. CASE j > i
    <3>1. (first \o back)[j] = back[j - i]
      BY <1>0, <1>5, <1>6, <1>7, <2>2
    <3>2. j - i \in 1..(Len(s) - i + 1) /\ i + (j - i) - 1 = j - 1
      BY <1>0, <2>2
    <3>3. back[j - i] = s[i + (j - i) - 1]
      BY <1>2, <3>2
    <3> QED BY <1>0, <2>2, <3>1, <3>2, <3>3, SMTT(40)
  <2>3. j <= i \/ j > i
    BY <1>0
  <2> QED BY <2>1, <2>2, <2>3
<1>9. InsertAt(s, i, e) = first \o back
    BY DEF InsertAt, first, front, back
<1>10. IsWith(first \o back, s, i, e)
    BY <1>6, <1>7, <1>8 DEF IsWith
<1> QED BY <1>6, <1>9, <1>10

(* The same, written out.                                                  *)
LEMMA InsertAtIs ==
    ASSUME NEW S, NEW s \in Seq(S), NEW i \in 1..(Len(s) + 1), NEW e \in S
    PROVE  /\ InsertAt(s, i, e) \in Seq(S)
           /\ Len(InsertAt(s, i, e)) = Len(s) + 1
           /\ \A j \in 1..(Len(s) + 1) :
                 InsertAt(s, i, e)[j] = IF j < i THEN s[j] ELSE IF j = i THEN e ELSE s[j - 1]
<1>1. InsertAt(s, i, e) \in Seq(S) /\ IsWith(InsertAt(s, i, e), s, i, e)
    BY InsertAtPuts
<1> QED BY <1>1 DEF IsWith

(* A sequence with one element taken out.                                  *)
LEMMA RemoveAtIs ==
    ASSUME NEW S, NEW s \in Seq(S), NEW i \in 1..Len(s)
    PROVE  /\ RemoveAt(s, i) \in Seq(S)
           /\ Len(RemoveAt(s, i)) = Len(s) - 1
           /\ \A j \in 1..(Len(s) - 1) :
                 RemoveAt(s, i)[j] = IF j < i THEN s[j] ELSE s[j + 1]
<1> DEFINE front == SubSeq(s, 1, i - 1)
           back == SubSeq(s, i + 1, Len(s))
<1>0. Len(s) \in Nat /\ i \in Nat /\ \A j \in 1..Len(s) : s[j] \in S
    BY LenProperties, ElementOfSeq
<1>1. /\ front \in Seq(S) /\ Len(front) = i - 1 /\ \A j \in 1..(i - 1) : front[j] = s[j]
    BY <1>0, SubSeqProperties
<1>2. /\ back \in Seq(S) /\ Len(back) = Len(s) - i
      /\ \A j \in 1..(Len(s) - i) : back[j] = s[i + j]
    BY <1>0, SubSeqProperties
<1> HIDE DEF front, back
<1>3. /\ front \o back \in Seq(S) /\ Len(front \o back) = Len(front) + Len(back)
      /\ \A j \in 1..(Len(front) + Len(back)) :
            (front \o back)[j] = IF j <= Len(front) THEN front[j] ELSE back[j - Len(front)]
    BY <1>1, <1>2, ConcatProperties
<1>4. Len(front) + Len(back) = Len(s) - 1
    BY <1>0, <1>1, <1>2
<1>5. ASSUME NEW j \in 1..(Len(s) - 1)
      PROVE  (front \o back)[j] = IF j < i THEN s[j] ELSE s[j + 1]
  <2>1. CASE j < i
    BY <1>0, <1>1, <1>3, <1>4, <2>1
  <2>2. CASE j >= i
    <3>1. (front \o back)[j] = back[j - (i - 1)]
      BY <1>0, <1>1, <1>3, <1>4, <2>2
    <3>2. j - (i - 1) \in 1..(Len(s) - i) /\ i + (j - (i - 1)) = j + 1
      BY <1>0, <2>2
    <3>3. back[j - (i - 1)] = s[i + (j - (i - 1))]
      BY <1>2, <3>2
    <3> QED BY <1>0, <2>2, <3>1, <3>2, <3>3
  <2>3. j < i \/ j >= i
    BY <1>0
  <2> QED BY <2>1, <2>2, <2>3
<1>6. RemoveAt(s, i) = front \o back
    BY DEF RemoveAt, front, back
<1> QED BY <1>3, <1>4, <1>5, <1>6

-----------------------------------------------------------------------------
(* What a selection from a sequence has, and that it keeps the order.      *)
LEMMA ThoseIs ==
    ASSUME NEW S, NEW seq \in Seq(S), NEW on
    PROVE  /\ Those(seq, on) \in Seq(S)
           /\ Range(Those(seq, on)) = Range(seq) \cap on
           /\ \A i, j \in DOMAIN Those(seq, on) : i < j =>
                 \E k, l \in DOMAIN seq :
                    k < l /\ Those(seq, on)[i] = seq[k] /\ Those(seq, on)[j] = seq[l]
<1> DEFINE g == [n \in 1..Len(seq) |-> [q \in Seq(S) |->
                    IF seq[n] \in on THEN Append(q, seq[n]) ELSE q]]
           IsAmong(f) == f = [n \in 0..Len(seq) |->
                    IF n = 0 THEN <<>>
                    ELSE IF seq[n] \in on THEN Append(f[n - 1], seq[n]) ELSE f[n - 1]]
           among == CHOOSE f : IsAmong(f)
<1>0. Len(seq) \in Nat /\ DOMAIN seq = 1..Len(seq) /\ \A n \in 1..Len(seq) : seq[n] \in S
    BY LenProperties, ElementOfSeq
<1>1. \E f : IsAmong(f)
  <2>1. g \in [1..Len(seq) -> [Seq(S) -> Seq(S)]]
    BY <1>0
  <2>2. g = [n \in 1..Len(seq) |-> [q \in Seq(S) |->
                    IF seq[n] \in on THEN Append(q, seq[n]) ELSE q]]
    OBVIOUS
  <2> HIDE DEF g
  <2>3. PICK f \in [0..Len(seq) -> Seq(S)] :
             f[0] = <<>> /\ \A n \in 1..Len(seq) : f[n] = g[n][f[n - 1]]
    <3> DEFINE R == Seq(S)  none == <<>>  m == Len(seq)
    <3>1. none \in R /\ g \in [1..m -> [R -> R]] /\ m \in Nat
      BY <1>0, <2>1
    <3> HIDE DEF R, none, m
    <3>2. \E f : Iterates(f, R, none, m, g)
      BY <3>1, RecursionExists
    <3> QED BY <3>2 DEF R, none, m, Iterates
  <2>4. ASSUME NEW n \in 0..Len(seq)
        PROVE  f[n] = IF n = 0 THEN <<>>
                      ELSE IF seq[n] \in on THEN Append(f[n - 1], seq[n]) ELSE f[n - 1]
    <3>1. CASE n = 0
      BY <2>3, <3>1
    <3>2. CASE n # 0
      <4>1. n \in 1..Len(seq) /\ n - 1 \in 0..Len(seq)
        BY <1>0, <3>2
      <4>2. f[n - 1] \in Seq(S) /\ f[n] = g[n][f[n - 1]]
        BY <2>3, <4>1
      <4>3. g[n][f[n - 1]] =
              IF seq[n] \in on THEN Append(f[n - 1], seq[n]) ELSE f[n - 1]
        BY <2>2, <4>1, <4>2
      <4> QED BY <3>2, <4>2, <4>3
    <3> QED BY <3>1, <3>2
  <2>5. IsAmong(f)
    BY <2>3, <2>4
  <2> QED BY <2>5
<1>2. IsAmong(among)
  <2> HIDE DEF IsAmong
  <2> QED BY <1>1
<1>3. Those(seq, on) = among[Len(seq)]
    BY DEF Those
<1> HIDE DEF among
<1>4. /\ among[0] = <<>>
      /\ \A n \in 1..Len(seq) :
            among[n] = IF seq[n] \in on THEN Append(among[n - 1], seq[n]) ELSE among[n - 1]
  <2> DEFINE Body(n) == IF n = 0 THEN <<>>
                        ELSE IF seq[n] \in on THEN Append(among[n - 1], seq[n]) ELSE among[n - 1]
  <2>1. among = [n \in 0..Len(seq) |-> Body(n)]
    BY <1>2
  <2> HIDE DEF Body
  <2>2. \A n \in 0..Len(seq) : among[n] = Body(n)
    BY <2>1
  <2>3. 0 \in 0..Len(seq) /\ \A n \in 1..Len(seq) : n \in 0..Len(seq) /\ n # 0
    BY <1>0
  <2>4. among[0] = Body(0) /\ \A n \in 1..Len(seq) : among[n] = Body(n) /\ n # 0
    BY <2>2, <2>3
  <2> QED BY <2>4 DEF Body
<1> HIDE DEF IsAmong
<1> DEFINE Ordered(q, n) ==
              \A i, j \in DOMAIN q : i < j =>
                 \E k, l \in 1..n : k < l /\ q[i] = seq[k] /\ q[j] = seq[l]
           Comes(q, n) == /\ q \in Seq(S)
                          /\ Range(q) = {seq[k] : k \in 1..n} \cap on
                          /\ Ordered(q, n)
           T == {n \in 0..Len(seq) : Comes(among[n], n)}
<1>5. 0 \in T
  <2>1. /\ among[0] = <<>> /\ <<>> \in Seq(S) /\ DOMAIN <<>> = {}
        /\ {seq[k] : k \in 1..0} = {}
    BY <1>4
  <2>2. Range(<<>>) = {}
    BY <2>1 DEF Range
  <2>3. Comes(<<>>, 0)
    <3>1. Ordered(<<>>, 0)
      BY <2>1
    <3> HIDE DEF Ordered
    <3> QED BY <2>1, <2>2, <3>1
  <2>4. Comes(among[0], 0)
    BY <2>1, <2>3
  <2> HIDE DEF Comes
  <2> QED BY <1>0, <2>4
<1>6. ASSUME NEW n \in 0..(Len(seq) - 1), n \in T PROVE n + 1 \in T
  <2> DEFINE q == among[n]  r == among[n + 1]  e == seq[n + 1]
  <2>1. Comes(q, n) /\ n + 1 \in 1..Len(seq) /\ e \in S /\ (n + 1) - 1 = n
    BY <1>0, <1>6
  <2>2. r = IF e \in on THEN Append(q, e) ELSE q
    BY <1>4, <2>1
  <2>3. {seq[k] : k \in 1..(n + 1)} = {seq[k] : k \in 1..n} \cup {e}
    <3>1. 1..(n + 1) = 1..n \cup {n + 1}
      BY <1>0, <2>1
    <3> QED BY <3>1
  <2> HIDE DEF q, r, e
  <2>4. CASE e \notin on
    <3>1. r \in Seq(S) /\ Range(r) = {seq[k] : k \in 1..(n + 1)} \cap on
      BY <2>1, <2>2, <2>3, <2>4
    <3>2. Ordered(r, n + 1)
      BY <1>0, <2>1, <2>2, <2>4
    <3> QED BY <2>1, <3>1, <3>2 DEF r
  <2>5. CASE e \in on
    <3>1. /\ r = Append(q, e) /\ r \in Seq(S) /\ Len(r) = Len(q) + 1
          /\ \A i \in 1..Len(q) : r[i] = q[i]
          /\ r[Len(q) + 1] = e
      BY <2>1, <2>2, <2>5, AppendProperties
    <3>2. /\ Len(q) \in Nat /\ DOMAIN q = 1..Len(q) /\ DOMAIN r = 1..(Len(q) + 1)
      BY <2>1, <3>1, LenProperties
    <3>3. Range(r) = Range(q) \cup {e}
      <4>1. 1..(Len(q) + 1) = 1..Len(q) \cup {Len(q) + 1}
        BY <3>2
      <4> QED BY <3>1, <3>2, <4>1 DEF Range
    <3>4. ASSUME NEW i \in DOMAIN r, NEW j \in DOMAIN r, i < j
          PROVE  \E k, l \in 1..(n + 1) : k < l /\ r[i] = seq[k] /\ r[j] = seq[l]
      <4>1. i \in DOMAIN q /\ r[i] = q[i]
        BY <3>1, <3>2, <3>4
      <4>2. CASE j \in DOMAIN q
        <5>1. PICK k \in 1..n, l \in 1..n : k < l /\ q[i] = seq[k] /\ q[j] = seq[l]
          BY <2>1, <3>4, <4>1, <4>2
        <5>2. k \in 1..(n + 1) /\ l \in 1..(n + 1) /\ r[j] = q[j]
          BY <1>0, <3>1, <3>2, <4>2
        <5> QED BY <4>1, <5>1, <5>2
      <4>3. CASE j \notin DOMAIN q
        <5>1. r[j] = seq[n + 1]
          BY <3>1, <3>2, <4>3 DEF e
        <5>2. q[i] \in Range(q)
          BY <4>1 DEF Range
        <5>3. PICK k \in 1..n : q[i] = seq[k]
          BY <2>1, <5>2
        <5>4. k \in 1..(n + 1) /\ n + 1 \in 1..(n + 1) /\ k < n + 1
          BY <1>0
        <5> QED BY <4>1, <5>1, <5>3, <5>4
      <4> QED BY <4>2, <4>3
    <3>5. Range(r) = {seq[k] : k \in 1..(n + 1)} \cap on
      BY <2>1, <2>3, <2>5, <3>3
    <3>6. Ordered(r, n + 1)
      BY <3>4
    <3>7. n + 1 \in 0..Len(seq)
      BY <2>1
    <3> QED BY <3>1, <3>5, <3>6, <3>7 DEF r
  <2> QED BY <2>4, <2>5
<1>7. Len(seq) \in T
  <2> HIDE DEF T
  <2>1. \A n \in 0..Len(seq) : n \in T
    BY <1>0, <1>5, <1>6, CountUp
  <2> QED BY <1>0, <2>1
<1>8. Comes(among[Len(seq)], Len(seq))
    BY <1>7
<1>9. Range(seq) = {seq[k] : k \in 1..Len(seq)}
    BY <1>0 DEF Range
<1> DEFINE r == among[Len(seq)]
<1>10. Those(seq, on) = r /\ Comes(r, Len(seq))
    BY <1>3, <1>8
<1> HIDE DEF r, T
<1> QED BY <1>0, <1>9, <1>10

(* The sum of a sequence is reached by its partial sums.                   *)
LEMMA SumIs ==
    ASSUME NEW f \in Seq(Int)
    PROVE  \E u \in [0..Len(f) -> Int] :
              /\ u[0] = 0 /\ \A n \in 1..Len(f) : u[n] = u[n - 1] + f[n]
              /\ SumOf(f) = u[Len(f)]
<1> DEFINE g == [n \in 1..Len(f) |-> [q \in Int |-> q + f[n]]]
           IsUpTo(u) == u = [n \in 0..Len(f) |-> IF n = 0 THEN 0 ELSE u[n - 1] + f[n]]
           upTo == CHOOSE u : IsUpTo(u)
<1>0. Len(f) \in Nat /\ \A n \in 1..Len(f) : f[n] \in Int
    BY LenProperties, ElementOfSeq
<1>1. PICK u : Iterates(u, Int, 0, Len(f), g)
  <2>1. g \in [1..Len(f) -> [Int -> Int]]
    BY <1>0
  <2> DEFINE R == Int  none == 0  m == Len(f)
  <2>2. none \in R /\ m \in Nat /\ g \in [1..m -> [R -> R]]
    BY <1>0, <2>1
  <2> HIDE DEF g, R, none, m
  <2>3. \E u : Iterates(u, R, none, m, g)
    BY <2>2, RecursionExists
  <2> QED BY <2>3 DEF R, none, m
<1>2. ASSUME NEW n \in 1..Len(f) PROVE u[n - 1] \in Int /\ u[n] = u[n - 1] + f[n]
  <2>1. n - 1 \in 0..Len(f)
    BY <1>0
  <2>2. u[n - 1] \in Int /\ u[n] = g[n][u[n - 1]]
    BY <1>1, <2>1 DEF Iterates
  <2> QED BY <2>2
<1>3. u \in [0..Len(f) -> Int] /\ u[0] = 0
    BY <1>1 DEF Iterates
<1>4. IsUpTo(u)
  <2>1. ASSUME NEW n \in 0..Len(f) PROVE u[n] = IF n = 0 THEN 0 ELSE u[n - 1] + f[n]
    <3>1. n = 0 \/ n \in 1..Len(f)
      BY <1>0
    <3> QED BY <1>2, <1>3, <3>1
  <2> QED BY <1>3, <2>1
<1>5. IsUpTo(upTo)
  <2> HIDE DEF IsUpTo
  <2> QED BY <1>4
<1>6. SumOf(f) = upTo[Len(f)]
    BY DEF SumOf
<1> HIDE DEF upTo
<1> DEFINE Body(n) == IF n = 0 THEN 0 ELSE upTo[n - 1] + f[n]
<1>7. \A n \in 0..Len(f) : upTo[n] = Body(n)
  <2>1. upTo = [n \in 0..Len(f) |-> Body(n)]
    BY <1>5
  <2> HIDE DEF Body
  <2> QED BY <2>1
<1> DEFINE T == {n \in 0..Len(f) : upTo[n] = u[n]}
<1>8. 0 \in T
    BY <1>0, <1>3, <1>7
<1>9. ASSUME NEW n \in 0..(Len(f) - 1), n \in T PROVE n + 1 \in T
  <2>1. n + 1 \in 0..Len(f) /\ n + 1 \in 1..Len(f) /\ n + 1 # 0 /\ (n + 1) - 1 = n
    BY <1>0
  <2>2. upTo[n + 1] = upTo[n] + f[n + 1]
    BY <1>7, <2>1
  <2>3. u[n + 1] = u[n] + f[n + 1]
    BY <1>2, <2>1
  <2> QED BY <1>9, <2>1, <2>2, <2>3
<1>10. \A n \in 0..Len(f) : n \in T
  <2> HIDE DEF T
  <2> QED BY <1>0, <1>8, <1>9, CountUp
<1>11. upTo[Len(f)] = u[Len(f)]
    BY <1>0, <1>10
<1> QED BY <1>2, <1>3, <1>6, <1>11

(* Whatever grows from 0 by the members of a sequence reaches its sum.     *)
LEMMA SumTo ==
    ASSUME NEW f \in Seq(Int), NEW v, v[0] = 0,
           \A n \in 1..Len(f) : v[n] = v[n - 1] + f[n]
    PROVE  SumOf(f) = v[Len(f)]
<1>0. Len(f) \in Nat
    BY LenProperties
<1>1. PICK u \in [0..Len(f) -> Int] :
              /\ u[0] = 0 /\ \A n \in 1..Len(f) : u[n] = u[n - 1] + f[n]
              /\ SumOf(f) = u[Len(f)]
    BY SumIs
<1> DEFINE T == {n \in 0..Len(f) : v[n] = u[n]}
<1>2. 0 \in T
    BY <1>0, <1>1
<1>3. ASSUME NEW n \in 0..(Len(f) - 1), n \in T PROVE n + 1 \in T
  <2>1. n + 1 \in 0..Len(f) /\ n + 1 \in 1..Len(f) /\ (n + 1) - 1 = n
    BY <1>0
  <2>2. v[n + 1] = v[n] + f[n + 1] /\ u[n + 1] = u[n] + f[n + 1]
    BY <1>1, <2>1
  <2> QED BY <1>3, <2>1, <2>2
<1>4. \A n \in 0..Len(f) : n \in T
  <2> HIDE DEF T
  <2> QED BY <1>0, <1>2, <1>3, CountUp
<1> QED BY <1>0, <1>1, <1>4

(* What grows at each step grows.                                          *)
LEMMA Climbing ==
    ASSUME NEW n \in Nat, NEW v \in [0..n -> Int], \A k \in 1..n : v[k - 1] < v[k]
    PROVE  \A j, k \in 0..n : j < k => v[j] < v[k]
<1> DEFINE Low(k) == \A j \in 0..n : j < k => v[j] < v[k]
           T == {k \in 0..n : Low(k)}
<1>1. 0 \in T
    OBVIOUS
<1>2. ASSUME NEW k \in 0..(n - 1), k \in T PROVE k + 1 \in T
  <2>1. \A j \in 0..n : j < k => v[j] < v[k]
    BY <1>2
  <2>2. v[k] < v[k + 1] /\ k \in 0..n /\ k + 1 \in 0..n
    BY <1>2
  <2>3. ASSUME NEW j \in 0..n, j < k + 1 PROVE v[j] < v[k + 1]
    <3>1. CASE j = k
      BY <2>2, <3>1
    <3>2. CASE j < k
      BY <2>1, <2>2, <3>2
    <3> QED BY <2>3, <3>1, <3>2
  <2>4. Low(k + 1)
    BY <2>3
  <2> HIDE DEF Low
  <2> QED BY <2>2, <2>4
<1>3. \A k \in 0..n : k \in T
  <2> HIDE DEF T
  <2> QED BY <1>1, <1>2, CountUp
<1> QED BY <1>3

(* Sequences put together one after the other.                             *)
LEMMA FlattenIs ==
    ASSUME NEW S, NEW seqs \in Seq(Seq(S)), Len(seqs) > 0
    PROVE  \E f \in [1..Len(seqs) -> Seq(S)] :
              /\ f[1] = seqs[1] /\ \A i \in 2..Len(seqs) : f[i] = f[i - 1] \o seqs[i]
              /\ FlattenSeq(seqs) = f[Len(seqs)]
<1> DEFINE n == Len(seqs)
           g == [i \in 1..n |-> [q \in Seq(S) |-> q \o seqs[i]]]
           IsFlat(f) == f = [i \in 1..n |-> IF i = 1 THEN seqs[i] ELSE f[i - 1] \o seqs[i]]
           flatten == CHOOSE f : IsFlat(f)
<1>0. n \in Nat /\ n > 0 /\ \A i \in 1..n : seqs[i] \in Seq(S)
    BY LenProperties, ElementOfSeq
<1>1. PICK h : Iterates(h, Seq(S), <<>>, n, g)
  <2>1. g \in [1..n -> [Seq(S) -> Seq(S)]]
    BY <1>0
  <2> DEFINE R == Seq(S)  none == <<>>
  <2>2. none \in R /\ g \in [1..n -> [R -> R]]
    BY <2>1
  <2> HIDE DEF g, R, none, n
  <2>3. \E h : Iterates(h, R, none, n, g)
    BY <1>0, <2>2, RecursionExists
  <2> QED BY <2>3 DEF R, none
<1>2. ASSUME NEW i \in 1..n PROVE h[i - 1] \in Seq(S) /\ h[i] = h[i - 1] \o seqs[i]
  <2>1. i - 1 \in 0..n
    BY <1>0
  <2>2. h[i - 1] \in Seq(S) /\ h[i] = g[i][h[i - 1]]
    BY <1>1, <2>1 DEF Iterates
  <2> QED BY <2>2
<1> DEFINE f == [i \in 1..n |-> h[i]]
<1>3. f \in [1..n -> Seq(S)]
  <2>1. \A i \in 1..n : h[i] \in Seq(S)
    BY <1>1 DEF Iterates
  <2> QED BY <2>1
<1>4. f[1] = seqs[1]
  <2>1. 1 \in 1..n /\ seqs[1] \in Seq(S) /\ 1 - 1 = 0
    BY <1>0
  <2>2. h[1] = h[0] \o seqs[1] /\ h[0] = <<>>
    BY <1>1, <1>2, <2>1 DEF Iterates
  <2>3. <<>> \o seqs[1] = seqs[1]
    BY <2>1
  <2> QED BY <2>1, <2>2, <2>3
<1>5. ASSUME NEW i \in 2..n PROVE f[i] = f[i - 1] \o seqs[i]
  <2>1. i \in 1..n /\ i - 1 \in 1..n
    BY <1>0
  <2> QED BY <1>2, <2>1
<1> HIDE DEF f
<1>6. IsFlat(f)
  <2>1. ASSUME NEW i \in 1..n PROVE f[i] = IF i = 1 THEN seqs[i] ELSE f[i - 1] \o seqs[i]
    <3>1. i = 1 \/ i \in 2..n
      BY <1>0
    <3> QED BY <1>4, <1>5, <3>1
  <2> QED BY <1>3, <2>1
<1>7. IsFlat(flatten)
  <2> HIDE DEF IsFlat
  <2> QED BY <1>6
<1>8. FlattenSeq(seqs) = flatten[n]
    BY <1>0 DEF FlattenSeq
<1> HIDE DEF flatten
<1> DEFINE Body(i) == IF i = 1 THEN seqs[i] ELSE flatten[i - 1] \o seqs[i]
<1>9. \A i \in 1..n : flatten[i] = Body(i)
  <2>1. flatten = [i \in 1..n |-> Body(i)]
    BY <1>7
  <2> HIDE DEF Body
  <2> QED BY <2>1
<1> DEFINE T == {i \in 0..n : i > 0 => flatten[i] = f[i]}
<1>10. 0 \in T
    BY <1>0
<1>11. ASSUME NEW i \in 0..(n - 1), i \in T PROVE i + 1 \in T
  <2>0. i + 1 \in 0..n /\ i + 1 \in 1..n /\ (i + 1) - 1 = i
    BY <1>0
  <2>1. flatten[i + 1] = Body(i + 1)
    BY <1>9, <2>0
  <2>2. CASE i = 0
    <3>1. flatten[1] = seqs[1]
      BY <2>1, <2>2
    <3> QED BY <1>0, <1>4, <2>0, <2>2, <3>1
  <2>3. CASE i # 0
    <3>1. i + 1 \in 2..n /\ i + 1 # 1 /\ i > 0
      BY <1>0, <2>3
    <3>2. flatten[i + 1] = flatten[i] \o seqs[i + 1]
      BY <2>0, <2>1, <3>1
    <3>3. f[i + 1] = f[i] \o seqs[i + 1]
      BY <1>5, <2>0, <3>1
    <3>4. flatten[i] = f[i]
      BY <1>11, <3>1
    <3>5. flatten[i + 1] = f[i + 1]
      BY <3>2, <3>3, <3>4
    <3> QED BY <2>0, <3>5
  <2> QED BY <2>2, <2>3
<1>12. \A i \in 0..n : i \in T
  <2> HIDE DEF T
  <2> QED BY <1>0, <1>10, <1>11, CountUp
<1>13. flatten[n] = f[n]
    BY <1>0, <1>12
<1> QED BY <1>3, <1>4, <1>5, <1>8, <1>13

-----------------------------------------------------------------------------
(* Fractions are ordered: what is less than one that is no greater than a  *)
(* third is less than that.                                                *)
LEMMA FractionLess ==
    ASSUME NEW a \in Nat, NEW b \in Nat \ {0}, NEW c \in Nat, NEW d \in Nat \ {0},
           NEW e \in Nat, NEW f \in Nat \ {0},
           a * d < c * b, c * f <= e * d
    PROVE  a * f < e * b
<1>1. (a * d) * f < (c * b) * f
    BY Z3
<1>2. (c * f) * b <= (e * d) * b
    BY Z3
<1>3. (a * f) * d < (e * b) * d
    BY <1>1, <1>2, Z3
<1> QED BY <1>3, Z3

(* Of finitely many fractions there is a least, and of those a first.      *)
LEMMA FirstLeast ==
    ASSUME NEW n \in Nat, NEW S \in SUBSET (1..n), S # {},
           NEW num \in [S -> Nat], NEW den \in [S -> Nat \ {0}]
    PROVE  \E i \in S : \A j \in S :
              /\ ~ (num[j] * den[i] < num[i] * den[j])
              /\ j < i => num[i] * den[j] < num[j] * den[i]
<1> DEFINE Best(i, m) == \A j \in S \cap (1..m) :
              /\ ~ (num[j] * den[i] < num[i] * den[j])
              /\ j < i => num[i] * den[j] < num[j] * den[i]
           T == {m \in 0..n : S \cap (1..m) # {} => \E i \in S \cap (1..m) : Best(i, m)}
<1>1. 0 \in T
    OBVIOUS
<1>2. ASSUME NEW m \in 0..(n - 1), m \in T PROVE m + 1 \in T
  <2>1. m + 1 \in 0..n /\ 1..(m + 1) = 1..m \cup {m + 1}
    OBVIOUS
  <2>2. CASE m + 1 \notin S
    <3>1. S \cap (1..(m + 1)) = S \cap (1..m)
      BY <2>1, <2>2
    <3> QED BY <1>2, <2>1, <3>1
  <2>3. CASE m + 1 \in S /\ S \cap (1..m) = {}
    <3>1. S \cap (1..(m + 1)) = {m + 1}
      BY <2>1, <2>3
    <3>2. num[m + 1] * den[m + 1] \in Int
      BY <2>3
    <3>3. Best(m + 1, m + 1)
      BY <3>1, <3>2
    <3> HIDE DEF Best
    <3> QED BY <2>1, <3>1, <3>3
  <2>4. CASE m + 1 \in S /\ S \cap (1..m) # {}
    <3>1. PICK i \in S \cap (1..m) : Best(i, m)
      BY <1>2, <2>4
    <3>2. CASE num[m + 1] * den[i] < num[i] * den[m + 1]
      <4>1. ASSUME NEW j \in S \cap (1..m)
            PROVE  num[m + 1] * den[j] < num[j] * den[m + 1]
        <5> DEFINE a == num[m + 1]  b == den[m + 1]  c == num[i]  d == den[i]
                   e == num[j]  f == den[j]
        <5>1. /\ a \in Nat /\ b \in Nat \ {0} /\ c \in Nat /\ d \in Nat \ {0}
              /\ e \in Nat /\ f \in Nat \ {0}
          BY <2>4
        <5>2. a * d < c * b /\ ~ (e * d < c * f)
          BY <3>1, <3>2
        <5> HIDE DEF a, b, c, d, e, f
        <5>3. c * f <= e * d
          BY <5>1, <5>2
        <5>4. a * f < e * b
          BY <5>1, <5>2, <5>3, FractionLess
        <5> QED BY <5>4 DEF a, b, e, f
      <4>2. ASSUME NEW j \in S \cap (1..(m + 1))
            PROVE  /\ ~ (num[j] * den[m + 1] < num[m + 1] * den[j])
                   /\ j < m + 1 => num[m + 1] * den[j] < num[j] * den[m + 1]
        <5>1. num[j] * den[m + 1] \in Int /\ num[m + 1] * den[j] \in Int
          BY <2>4
        <5>2. CASE j = m + 1
          BY <5>1, <5>2
        <5>3. CASE j # m + 1
          <6>1. j \in S \cap (1..m)
            BY <2>1, <5>3
          <6>2. num[m + 1] * den[j] < num[j] * den[m + 1]
            BY <4>1, <6>1
          <6> QED BY <5>1, <6>2
        <5> QED BY <5>2, <5>3
      <4>3. m + 1 \in S \cap (1..(m + 1)) /\ Best(m + 1, m + 1)
        BY <2>1, <2>4, <4>2
      <4> HIDE DEF Best
      <4> QED BY <2>1, <4>3
    <3>3. CASE ~ (num[m + 1] * den[i] < num[i] * den[m + 1])
      <4>1. ~ (m + 1 < i) /\ i \in S \cap (1..(m + 1))
        BY <2>1, <3>1
      <4>2. Best(i, m + 1)
        BY <2>1, <3>1, <3>3, <4>1
      <4> HIDE DEF Best
      <4> QED BY <2>1, <4>1, <4>2
    <3> QED BY <3>2, <3>3
  <2> QED BY <2>2, <2>3, <2>4
<1>3. \A m \in 0..n : m \in T
  <2> HIDE DEF T
  <2> QED BY <1>1, <1>2, CountUp
<1>4. S \cap (1..n) = S /\ n \in 0..n
  <2>1. n \in 0..n
    OBVIOUS
  <2>2. \A A : S \subseteq A => S \cap A = S
    OBVIOUS
  <2>3. S \subseteq 1..n
    OBVIOUS
  <2> QED BY <2>1, <2>2, <2>3
<1>5. n \in T
  <2> HIDE DEF T
  <2> QED BY <1>3, <1>4
<1> QED BY <1>4, <1>5

(* The k-th member of a set of numbers, counted from below.                *)
LEMMA CountedMember ==
    ASSUME NEW n \in Nat, NEW H \in SUBSET (1..n), NEW k \in Nat \ {0}, k <= Cardinality(H)
    PROVE  \E i \in H : Cardinality({j \in 1..i : j \in H}) = k
<1> DEFINE C(m) == {j \in 1..m : j \in H}
           T == {m \in Nat : Cardinality(C(m)) >= k}
<1>1. ASSUME NEW m \in Nat PROVE IsFiniteSet(C(m)) /\ Cardinality(C(m)) \in Nat
  <2>1. IsFiniteSet(1..m) /\ C(m) \in SUBSET (1..m)
    BY FS_Interval
  <2> HIDE DEF C
  <2> QED BY <2>1, FS_Subset, FS_CardinalityType
<1>2. C(n) = H
    OBVIOUS
<1>3. C(0) = {}
    OBVIOUS
<1>4. ASSUME NEW m \in Nat, m # 0
      PROVE  /\ m \in H => Cardinality(C(m)) = Cardinality(C(m - 1)) + 1
             /\ m \notin H => C(m) = C(m - 1)
  <2>0. m - 1 \in Nat
    BY <1>4
  <2>1. /\ m \in H => C(m) = C(m - 1) \cup {m} /\ m \notin C(m - 1)
        /\ m \notin H => C(m) = C(m - 1)
    BY <1>4
  <2> HIDE DEF C
  <2> QED BY <1>1, <2>0, <2>1, FS_AddElement
<1>5. n \in T
    BY <1>2
<1>6. PICK m \in T : \A l \in T : m <= l
  <2>1. T \in SUBSET Nat /\ T # {}
    BY <1>5
  <2> HIDE DEF T
  <2> QED BY <2>1, LeastOf
<1>7. m # 0
  <2>1. Cardinality(C(0)) = 0
    BY <1>3, FS_EmptySet
  <2> QED BY <2>1
<1>8. m - 1 \in Nat /\ m - 1 \notin T /\ m \in Nat /\ Cardinality(C(m)) >= k
    BY <1>6, <1>7
<1>9. Cardinality(C(m - 1)) < k /\ Cardinality(C(m - 1)) \in Nat
    BY <1>1, <1>8
<1> HIDE DEF C
<1>10. m \in H /\ Cardinality(C(m)) = k
    BY <1>4, <1>7, <1>8, <1>9
<1> QED BY <1>10 DEF C
=============================================================================
