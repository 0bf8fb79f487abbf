--------------------------- MODULE LocalOptsProofs ---------------------------
(***************************************************************************)
(* What the rewrites of the local optimisations keep in order, for every   *)
(* function and every sequence of the passes.                              *)
(***************************************************************************)
EXTENDS LocalOpts, TLAPS, SequenceTheorems, FiniteSetTheorems

-----------------------------------------------------------------------------
(* Sequences and places. *)

\* A piece of a sequence, up to n and from m on, with something between.
Splice(s, n, mid, m) == SubSeq(s, 1, n) \o mid \o SubSeq(s, m, Len(s))

\* Where positions go when lm elements take the place of the cut ones at j.
Positioned(ls, lm, j, cut, lt, n) ==
  /\ \A x \in 1..ls : x < j => x \in 1..(j - 1) /\ x \in 1..lt
  /\ \A x \in 1..ls : j <= x /\ (cut = 1 => x # j) =>
       x \in (j + cut)..ls /\ x + n \in 1..lt /\ x + n = x + lm - cut
  /\ \A k \in 1..lm : j - 1 + k \in 1..lt
  /\ \A y \in 1..lt : y < j => y \in 1..ls
  /\ \A y \in 1..lt : j <= y /\ y < j + lm => y - j + 1 \in 1..lm /\ j - 1 + (y - j + 1) = y
  /\ \A y \in 1..lt : j + lm <= y =>
       y - n \in 1..ls /\ j <= y - n /\ (cut = 1 => y - n # j) /\ (y - n) + n = y
  /\ \A y \in 1..lt : y < j \/ (j <= y /\ y < j + lm) \/ j + lm <= y
LEMMA Positions ==
  ASSUME NEW ls \in Nat, NEW lm \in Nat, NEW j \in 1..(ls + 1), NEW cut \in {0, 1}, j + cut <= ls + 1,
         NEW lt, lt = ls + lm - cut, NEW n, n = lm - cut
  PROVE  Positioned(ls, lm, j, cut, lt, n)
  BY SMT DEF Positioned

\* What t is when mid has taken the place of the cut elements of s at j.
IsSplice(t, s, j, cut, mid) ==
  /\ t \in Seq(Nat)
  /\ Len(t) = Len(s) + Len(mid) - cut
  /\ \A k \in 1..(j - 1) : t[k] = s[k]
  /\ \A k \in 1..Len(mid) : t[j - 1 + k] = mid[k]
  /\ \A k \in (j + cut)..Len(s) : t[k + Len(mid) - cut] = s[k]

\* The pieces of a sequence in front of a position and from it on.
LEMMA PieceOf ==
  ASSUME NEW s \in Seq(Nat), NEW m \in 1..(Len(s) + 1)
  PROVE  /\ SubSeq(s, 1, m - 1) \in Seq(Nat) /\ Len(SubSeq(s, 1, m - 1)) = m - 1
         /\ \A k \in 1..(m - 1) : SubSeq(s, 1, m - 1)[k] = s[k]
         /\ SubSeq(s, m, Len(s)) \in Seq(Nat) /\ Len(SubSeq(s, m, Len(s))) = Len(s) - m + 1
         /\ \A k \in 1..(Len(s) - m + 1) : SubSeq(s, m, Len(s))[k] = s[m + k - 1]
<1>1. Len(s) \in Nat /\ m \in Int /\ 1 <= m /\ m <= Len(s) + 1
  OBVIOUS
<1>2. \A i \in 1..(m - 1) : s[i] \in Nat
  BY <1>1
<1>3. \A i \in m..Len(s) : s[i] \in Nat
  BY <1>1
<1>4. /\ SubSeq(s, 1, m - 1) \in Seq(Nat) /\ Len(SubSeq(s, 1, m - 1)) = m - 1
      /\ \A k \in 1..(m - 1) : SubSeq(s, 1, m - 1)[k] = s[k]
  BY <1>1, <1>2, SubSeqProperties
<1>5. /\ SubSeq(s, m, Len(s)) \in Seq(Nat) /\ Len(SubSeq(s, m, Len(s))) = Len(s) - m + 1
      /\ \A k \in 1..(Len(s) - m + 1) : SubSeq(s, m, Len(s))[k] = s[m + k - 1]
  BY <1>1, <1>3, SubSeqProperties
<1> QED
  BY <1>4, <1>5

\* Splice puts it there.
LEMMA SpliceProperties ==
  ASSUME NEW s \in Seq(Nat), NEW mid \in Seq(Nat), NEW j \in 1..(Len(s) + 1),
         NEW cut \in {0, 1}, j + cut <= Len(s) + 1
  PROVE  IsSplice(Splice(s, j - 1, mid, j + cut), s, j, cut, mid)
<1> DEFINE a == SubSeq(s, 1, j - 1)
           b == SubSeq(s, j + cut, Len(s))
<1>1. Len(s) \in Nat /\ Len(mid) \in Nat /\ j \in Int /\ cut \in Int
  OBVIOUS
<1>2. a \in Seq(Nat) /\ Len(a) = j - 1 /\ \A k \in 1..(j - 1) : a[k] = s[k]
  BY <1>1, PieceOf
<1>3. /\ b \in Seq(Nat) /\ Len(b) = Len(s) - (j + cut) + 1
      /\ \A k \in 1..(Len(s) - (j + cut) + 1) : b[k] = s[j + cut + k - 1]
  <2>1. j + cut \in 1..(Len(s) + 1)
    BY <1>1
  <2> QED
    BY <2>1, PieceOf
<1> HIDE DEF a, b
<1> DEFINE c == a \o mid
<1>4. c \in Seq(Nat) /\ Len(c) = Len(a) + Len(mid)
  BY <1>2, ConcatProperties
<1>5. \A k \in 1..(Len(a) + Len(mid)) : c[k] = IF k <= Len(a) THEN a[k] ELSE mid[k - Len(a)]
  BY <1>2, ConcatProperties
<1> HIDE DEF c
<1> DEFINE t == c \o b
<1>6. t \in Seq(Nat) /\ Len(t) = Len(c) + Len(b)
  <2>1. c \in Seq(Nat) /\ b \in Seq(Nat)
    BY <1>3, <1>4
  <2> QED
    BY <2>1, ConcatProperties
<1>7. \A k \in 1..(Len(c) + Len(b)) : t[k] = IF k <= Len(c) THEN c[k] ELSE b[k - Len(c)]
  <2>1. c \in Seq(Nat) /\ b \in Seq(Nat)
    BY <1>3, <1>4
  <2> QED
    BY <2>1, ConcatProperties
<1> HIDE DEF t
<1>8. Len(t) = Len(s) + Len(mid) - cut
  BY <1>1, <1>2, <1>3, <1>4, <1>6
<1>9. ASSUME NEW k \in 1..(j - 1) PROVE t[k] = s[k]
  <2>1. k \in 1..(Len(a) + Len(mid)) /\ k <= Len(c) /\ k \in 1..(Len(c) + Len(b)) /\ k <= Len(a)
    BY <1>1, <1>2, <1>3, <1>4
  <2>2. t[k] = c[k] /\ c[k] = a[k]
    BY <1>5, <1>7, <2>1
  <2> QED
    BY <1>2, <2>2
<1>10. ASSUME NEW k \in 1..Len(mid) PROVE t[j - 1 + k] = mid[k]
  <2> DEFINE n == j - 1 + k
  <2>1. n \in 1..(Len(a) + Len(mid)) /\ n <= Len(c) /\ n \in 1..(Len(c) + Len(b)) /\ ~(n <= Len(a)) /\ n - Len(a) = k
    BY <1>1, <1>2, <1>3, <1>4
  <2> HIDE DEF n
  <2>2. t[n] = c[n] /\ c[n] = mid[n - Len(a)]
    BY <1>5, <1>7, <2>1
  <2> QED
    BY <2>1, <2>2 DEF n
<1>11. ASSUME NEW k \in (j + cut)..Len(s) PROVE t[k + Len(mid) - cut] = s[k]
  <2> DEFINE n == k + Len(mid) - cut
             i == k - (j + cut) + 1
  <2>1. /\ n \in 1..(Len(c) + Len(b)) /\ ~(n <= Len(c)) /\ n - Len(c) = i
        /\ i \in 1..(Len(s) - (j + cut) + 1) /\ j + cut + i - 1 = k
    <3>1. Len(a) = j - 1 /\ Len(b) = Len(s) - (j + cut) + 1 /\ Len(c) = Len(a) + Len(mid)
      BY <1>2, <1>3, <1>4
    <3>2. k \in Int /\ j + cut <= k /\ k <= Len(s)
      BY <1>1
    <3> QED
      BY <1>1, <3>1, <3>2
  <2> HIDE DEF n, i
  <2>2. t[n] = b[n - Len(c)]
    BY <1>7, <2>1
  <2>3. b[i] = s[k]
    BY <1>3, <2>1
  <2> QED
    BY <2>1, <2>2, <2>3 DEF n
<1>12. Splice(s, j - 1, mid, j + cut) = t
  BY DEF Splice, t, c, a, b
<1> QED
  BY <1>6, <1>8, <1>9, <1>10, <1>11, <1>12, Zenon DEF IsSplice

\* A place is a block and a position in it.
LEMMA PlaceIs ==
  ASSUME NEW bs
  PROVE  /\ \A p \in Places(bs) : p = <<p[1], p[2]>> /\ p[1] \in DOMAIN bs /\ p[2] \in DOMAIN bs[p[1]]
         /\ \A b \in DOMAIN bs : \A k \in DOMAIN bs[b] : <<b, k>> \in Places(bs)
<1>1. ASSUME NEW p \in Places(bs)
      PROVE  p = <<p[1], p[2]>> /\ p[1] \in DOMAIN bs /\ p[2] \in DOMAIN bs[p[1]]
  <2>1. PICK b \in DOMAIN bs : p \in {b} \X DOMAIN bs[b]
    BY DEF Places
  <2>2. p[1] = b /\ p[2] \in DOMAIN bs[b] /\ p = <<p[1], p[2]>>
    BY <2>1
  <2> QED
    BY <2>2
<1>2. ASSUME NEW b \in DOMAIN bs, NEW k \in DOMAIN bs[b] PROVE <<b, k>> \in Places(bs)
  <2>1. <<b, k>> \in {b} \X DOMAIN bs[b]
    OBVIOUS
  <2> QED
    BY <2>1 DEF Places
<1> QED
  BY <1>1, <1>2

\* The places of a function are pairs of numbers.
LEMMA PlaceNumbers ==
  ASSUME NEW bs \in Seq(Seq(Nat))
  PROVE  \A p \in Places(bs) : /\ p[1] \in Nat /\ p[1] \in DOMAIN bs /\ p[2] \in Nat
                               /\ p[2] \in 1..Len(bs[p[1]]) /\ p = <<p[1], p[2]>> /\ At(bs, p) \in Nat
<1> SUFFICES ASSUME NEW p \in Places(bs)
             PROVE  /\ p[1] \in Nat /\ p[1] \in DOMAIN bs /\ p[2] \in Nat
                    /\ p[2] \in 1..Len(bs[p[1]]) /\ p = <<p[1], p[2]>> /\ At(bs, p) \in Nat
  OBVIOUS
<1>1. p = <<p[1], p[2]>> /\ p[1] \in DOMAIN bs /\ p[2] \in DOMAIN bs[p[1]]
  BY PlaceIs
<1>2. bs[p[1]] \in Seq(Nat) /\ p[1] \in Nat
  BY <1>1
<1>3. p[2] \in 1..Len(bs[p[1]]) /\ bs[p[1]][p[2]] \in Nat
  BY <1>1, <1>2
<1> QED
  BY <1>1, <1>2, <1>3 DEF At

\* Where a place is after n instructions more stand in front of place <<b, j>>.
Moved(q, b, j, n) == IF q[1] = b /\ j <= q[2] THEN <<b, q[2] + n>> ELSE q
\* The places that are left when the one at <<b, j>> is cut out.
Kept(bs, b, j, cut) == {q \in Places(bs) : cut = 1 => q # <<b, j>>}

\* The blocks after a piece of block b has been replaced.
Edit(bs, b, j, cut, mid) == [bs EXCEPT ![b] = Splice(bs[b], j - 1, mid, j + cut)]

\* What the places are after it: those that were kept, and those put in.
IsEdit(cs, bs, b, j, cut, mid) ==
  /\ cs \in Seq(Seq(Nat)) /\ DOMAIN cs = DOMAIN bs
  /\ \A q \in Kept(bs, b, j, cut) :
       /\ Moved(q, b, j, Len(mid) - cut) \in Places(cs)
       /\ At(cs, Moved(q, b, j, Len(mid) - cut)) = At(bs, q)
  /\ \A k \in 1..Len(mid) : <<b, j - 1 + k>> \in Places(cs) /\ At(cs, <<b, j - 1 + k>>) = mid[k]
  /\ \A p \in Places(cs) : \/ \E q \in Kept(bs, b, j, cut) : p = Moved(q, b, j, Len(mid) - cut)
                           \/ \E k \in 1..Len(mid) : p = <<b, j - 1 + k>>

\* The places of a function in a block of which a piece has been replaced.
LEMMA SplicedPlaces ==
  ASSUME NEW bs \in Seq(Seq(Nat)), NEW b \in DOMAIN bs, NEW s \in Seq(Nat), s = bs[b],
         NEW mid \in Seq(Nat), NEW j \in 1..(Len(s) + 1), NEW cut \in {0, 1}, j + cut <= Len(s) + 1,
         NEW cs, cs = Edit(bs, b, j, cut, mid)
  PROVE  IsEdit(cs, bs, b, j, cut, mid)
<1> DEFINE n == Len(mid) - cut
           t == Splice(s, j - 1, mid, j + cut)
<1>0. Len(s) \in Nat /\ Len(mid) \in Nat /\ b \in Nat /\ j \in Int /\ n = Len(mid) - cut
  OBVIOUS
<1>8. IsSplice(t, s, j, cut, mid)
  BY SpliceProperties, Zenon
<1> HIDE DEF t
<1>1. /\ t \in Seq(Nat)
      /\ \A k \in 1..(j - 1) : t[k] = s[k]
      /\ \A k \in 1..Len(mid) : t[j - 1 + k] = mid[k]
      /\ \A k \in (j + cut)..Len(s) : t[k + Len(mid) - cut] = s[k]
  BY <1>8, Zenon DEF IsSplice
<1>7. Len(t) = Len(s) + Len(mid) - cut /\ Len(t) \in Nat
  BY <1>8 DEF IsSplice
<1> DEFINE lt == Len(t)
<1> HIDE DEF n
<1>9. Positioned(Len(s), Len(mid), j, cut, lt, n)
  BY <1>0, <1>7, Positions, Zenon
<1>2. cs = [bs EXCEPT ![b] = t]
  BY DEF Edit, t
<1>3. /\ cs \in Seq(Seq(Nat)) /\ DOMAIN cs = DOMAIN bs /\ cs[b] = t
      /\ \A c \in DOMAIN bs : c # b => cs[c] = bs[c]
  BY <1>1, <1>2
<1>4. ASSUME NEW q \in Kept(bs, b, j, cut)
      PROVE  Moved(q, b, j, n) \in Places(cs) /\ At(cs, Moved(q, b, j, n)) = At(bs, q)
  <2>1. q[1] \in DOMAIN bs /\ q[2] \in 1..Len(bs[q[1]]) /\ q = <<q[1], q[2]>> /\ q[2] \in Nat
    BY PlaceNumbers DEF Kept
  <2>2. CASE q[1] = b /\ j <= q[2]
    <3>1. q[2] \in 1..Len(s) /\ (cut = 1 => q[2] # j)
      BY <2>1, <2>2, Zenon DEF Kept
    <3>2. q[2] \in (j + cut)..Len(s) /\ q[2] + n \in 1..Len(t) /\ q[2] + n = q[2] + Len(mid) - cut
      BY <1>9, <2>2, <3>1, Zenon DEF Positioned
    <3>3. t[q[2] + n] = s[q[2]]
      BY <1>1, <3>2, Zenon
    <3>4. q[2] + n \in DOMAIN cs[b] /\ b \in DOMAIN cs
      BY <1>1, <1>3, <3>2
    <3>5. Moved(q, b, j, n) = <<b, q[2] + n>>
      BY <2>2 DEF Moved
    <3>6. <<b, q[2] + n>> \in Places(cs)
      BY <3>4, PlaceIs
    <3> QED
      BY <1>3, <2>2, <3>3, <3>5, <3>6 DEF At
  <2>3. CASE ~(q[1] = b /\ j <= q[2])
    <3>1. Moved(q, b, j, n) = q
      BY <2>3 DEF Moved
    <3>2. CASE q[1] = b
      <4>1. q[2] \in 1..(j - 1) /\ q[2] \in 1..Len(t)
        <5>1. q[2] \in 1..Len(s) /\ ~(j <= q[2])
          BY <2>1, <2>3, <3>2, Zenon
        <5>2. q[2] < j
          BY <1>0, <2>1, <5>1
        <5> QED
          BY <1>9, <5>1, <5>2, Zenon DEF Positioned
      <4>2. t[q[2]] = s[q[2]] /\ q[2] \in DOMAIN cs[b]
        <5>1. DOMAIN t = 1..Len(t)
          BY <1>1
        <5> QED
          BY <1>1, <1>3, <4>1, <5>1, Zenon
      <4>3. <<b, q[2]>> \in Places(cs)
        BY <1>3, <4>2, PlaceIs
      <4> QED
        BY <1>3, <2>1, <3>1, <3>2, <4>2, <4>3 DEF At
    <3>3. CASE q[1] # b
      <4>1. cs[q[1]] = bs[q[1]] /\ q[1] \in DOMAIN cs /\ q[2] \in DOMAIN cs[q[1]]
        BY <1>3, <2>1, <3>3
      <4>2. <<q[1], q[2]>> \in Places(cs)
        BY <4>1, PlaceIs
      <4> QED
        BY <2>1, <3>1, <4>1, <4>2 DEF At
    <3> QED
      BY <3>2, <3>3
  <2> QED
    BY <2>2, <2>3
<1>5. ASSUME NEW k \in 1..Len(mid)
      PROVE  <<b, j - 1 + k>> \in Places(cs) /\ At(cs, <<b, j - 1 + k>>) = mid[k]
  <2>1. j - 1 + k \in 1..Len(t)
    BY <1>0, <1>7
  <2>2. j - 1 + k \in DOMAIN cs[b] /\ b \in DOMAIN cs
    BY <1>1, <1>3, <2>1
  <2>3. <<b, j - 1 + k>> \in Places(cs)
    BY <2>2, PlaceIs
  <2>4. cs[b][j - 1 + k] = mid[k]
    BY <1>1, <1>3
  <2> QED
    BY <2>3, <2>4 DEF At
<1>6. ASSUME NEW p \in Places(cs)
      PROVE  \/ \E q \in Kept(bs, b, j, cut) : p = Moved(q, b, j, n)
             \/ \E k \in 1..Len(mid) : p = <<b, j - 1 + k>>
  <2>1. p[1] \in DOMAIN cs /\ p[2] \in 1..Len(cs[p[1]]) /\ p = <<p[1], p[2]>> /\ p[2] \in Nat
    BY <1>3, PlaceNumbers
  <2>2. CASE p[1] = b /\ j <= p[2] /\ p[2] < j + Len(mid)
    <3>1. p[2] - j + 1 \in 1..Len(mid) /\ j - 1 + (p[2] - j + 1) = p[2]
      BY <1>3, <1>9, <2>1, <2>2, Zenon DEF Positioned
    <3> QED
      BY <2>1, <2>2, <3>1
  <2>3. CASE p[1] = b /\ j + Len(mid) <= p[2]
    <3> DEFINE m == p[2] - n
               q == <<b, m>>
    <3>1. m \in 1..Len(s) /\ j <= m /\ (cut = 1 => m # j) /\ m + n = p[2]
      BY <1>3, <1>9, <2>1, <2>3, Zenon DEF Positioned
    <3> HIDE DEF m
    <3>2. q \in Places(bs)
      <4>1. m \in DOMAIN s
        BY <1>0, <3>1
      <4> QED
        BY <4>1, PlaceIs
    <3>3. q \in Kept(bs, b, j, cut)
      BY <3>1, <3>2 DEF Kept
    <3>4. Moved(q, b, j, n) = <<b, m + n>>
      BY <3>1 DEF Moved
    <3>5. p = Moved(q, b, j, n)
      BY <2>1, <2>3, <3>1, <3>4
    <3> HIDE DEF q
    <3> QED
      BY <3>3, <3>5
  <2>4. CASE p[1] # b \/ p[2] < j
    <3>1. p[1] \in DOMAIN bs /\ p[2] \in DOMAIN bs[p[1]]
      <4>1. CASE p[1] # b
        BY <1>3, <2>1, <4>1
      <4>2. CASE p[1] = b
        <5>1. p[2] \in 1..Len(s)
          BY <1>3, <1>9, <2>1, <2>4, <4>2, Zenon DEF Positioned
        <5> QED
          BY <4>2, <5>1
      <4> QED
        BY <4>1, <4>2
    <3>2. p \in Places(bs)
      BY <2>1, <3>1, PlaceIs
    <3>3. ~(p[1] = b /\ j <= p[2])
      BY <2>1, <2>4
    <3>4. p \in Kept(bs, b, j, cut)
      <4>1. ASSUME p = <<b, j>> PROVE FALSE
        BY <3>3, <4>1
      <4> QED
        BY <3>2, <4>1 DEF Kept
    <3>5. p = Moved(p, b, j, n)
      BY <3>3 DEF Moved
    <3> QED
      BY <3>4, <3>5
  <2> QED
    <3>1. \/ p[1] # b \/ p[2] < j
          \/ p[1] = b /\ j + Len(mid) <= p[2]
          \/ p[1] = b /\ j <= p[2] /\ p[2] < j + Len(mid)
      BY <1>3, <1>9, <2>1, Zenon DEF Positioned
    <3> QED
      BY <2>2, <2>3, <2>4, <3>1
<1> QED
  BY <1>3, <1>4, <1>5, <1>6, Zenon DEF n, IsEdit

\* There is room for the edit in block b.
Room(bs, b, j, cut, mid) ==
  /\ b \in DOMAIN bs /\ mid \in Seq(Nat)
  /\ j \in 1..(Len(bs[b]) + 1) /\ cut \in {0, 1} /\ j + cut <= Len(bs[b]) + 1

\* The same of any edit there is room for.
LEMMA EditIs ==
  ASSUME NEW bs \in Seq(Seq(Nat)), NEW b, NEW j, NEW cut, NEW mid, Room(bs, b, j, cut, mid)
  PROVE  IsEdit(Edit(bs, b, j, cut, mid), bs, b, j, cut, mid)
<1> DEFINE s == bs[b]
<1>1. /\ b \in DOMAIN bs /\ mid \in Seq(Nat) /\ s \in Seq(Nat) /\ s = bs[b]
      /\ j \in 1..(Len(s) + 1) /\ cut \in {0, 1} /\ j + cut <= Len(s) + 1
  BY DEF Room
<1> HIDE DEF s
<1> QED
  BY <1>1, SplicedPlaces

\* The order of execution is a strict and total order of the places.
LEMMA AheadIsOrder ==
  ASSUME NEW bs \in Seq(Seq(Nat)),
         NEW p \in Places(bs), NEW q \in Places(bs), NEW r \in Places(bs)
  PROVE  /\ ~Ahead(p, p)
         /\ Ahead(p, q) /\ Ahead(q, r) => Ahead(p, r)
         /\ Ahead(p, q) => ~Ahead(q, p)
         /\ Ahead(p, q) \/ p = q \/ Ahead(q, p)
<1>1. /\ p[1] \in Nat /\ p[2] \in Nat /\ p = <<p[1], p[2]>>
      /\ q[1] \in Nat /\ q[2] \in Nat /\ q = <<q[1], q[2]>>
      /\ r[1] \in Nat /\ r[2] \in Nat
  BY PlaceNumbers, Zenon
<1> DEFINE p1 == p[1]
           p2 == p[2]
           q1 == q[1]
           q2 == q[2]
           r1 == r[1]
           r2 == r[2]
<1>2. /\ p1 \in Nat /\ p2 \in Nat /\ p = <<p1, p2>>
      /\ q1 \in Nat /\ q2 \in Nat /\ q = <<q1, q2>>
      /\ r1 \in Nat /\ r2 \in Nat
  BY <1>1, Zenon
<1>3. /\ Ahead(p, p) <=> p1 < p1 \/ (p1 = p1 /\ p2 < p2)
      /\ Ahead(p, q) <=> p1 < q1 \/ (p1 = q1 /\ p2 < q2)
      /\ Ahead(q, p) <=> q1 < p1 \/ (q1 = p1 /\ q2 < p2)
      /\ Ahead(q, r) <=> q1 < r1 \/ (q1 = r1 /\ q2 < r2)
      /\ Ahead(p, r) <=> p1 < r1 \/ (p1 = r1 /\ p2 < r2)
  BY Zenon DEF Ahead
<1> HIDE DEF p1, p2, q1, q2, r1, r2
<1>4. p1 = q1 /\ p2 = q2 => p = q
  BY <1>2, Zenon
<1> QED
  BY <1>2, <1>3, <1>4

\* The order of the places that are kept is the one from before.
LEMMA MovedKeepsOrder ==
  ASSUME NEW x \in Nat, NEW y \in Nat, NEW x2 \in Nat, NEW y2 \in Nat,
         NEW b \in Nat, NEW j \in Nat, NEW cut \in {0, 1}, NEW lm \in Nat, NEW n, n = lm - cut,
         cut = 1 => <<x, y>> # <<b, j>> /\ <<x2, y2>> # <<b, j>>
  PROVE  /\ Ahead(<<x, y>>, <<x2, y2>>) => Ahead(Moved(<<x, y>>, b, j, n), Moved(<<x2, y2>>, b, j, n))
         /\ \A k \in 1..lm :
              /\ Ahead(<<x, y>>, <<b, j>>) => Ahead(Moved(<<x, y>>, b, j, n), <<b, j - 1 + k>>)
              /\ ~Ahead(<<x, y>>, <<b, j>>) => Ahead(<<b, j - 1 + k>>, Moved(<<x, y>>, b, j, n))
<1>1. Ahead(<<x, y>>, <<x2, y2>>) <=> x < x2 \/ (x = x2 /\ y < y2)
  BY DEF Ahead
<1>2. Ahead(<<x, y>>, <<b, j>>) <=> x < b \/ (x = b /\ y < j)
  BY DEF Ahead
<1>3. /\ x = b /\ j <= y => Moved(<<x, y>>, b, j, n) = <<b, y + n>>
      /\ ~(x = b /\ j <= y) => Moved(<<x, y>>, b, j, n) = <<x, y>>
      /\ x2 = b /\ j <= y2 => Moved(<<x2, y2>>, b, j, n) = <<b, y2 + n>>
      /\ ~(x2 = b /\ j <= y2) => Moved(<<x2, y2>>, b, j, n) = <<x2, y2>>
  BY DEF Moved
<1>4. cut = 1 => ~(x = b /\ y = j) /\ ~(x2 = b /\ y2 = j)
  OBVIOUS
<1>5. ASSUME Ahead(<<x, y>>, <<x2, y2>>)
      PROVE  Ahead(Moved(<<x, y>>, b, j, n), Moved(<<x2, y2>>, b, j, n))
  <2>1. CASE x = b /\ j <= y /\ x2 = b /\ j <= y2
    <3>1. y + n < y2 + n
      BY <1>1, <1>5, <2>1
    <3> QED
      BY <1>3, <2>1, <3>1 DEF Ahead
  <2>2. CASE x = b /\ j <= y /\ ~(x2 = b /\ j <= y2)
    <3>1. b < x2
      BY <1>1, <1>5, <2>2
    <3> QED
      BY <1>3, <2>2, <3>1 DEF Ahead
  <2>3. CASE ~(x = b /\ j <= y) /\ x2 = b /\ j <= y2
    <3>1. x < b \/ (x = b /\ y < y2 + n)
      BY <1>1, <1>4, <1>5, <2>3
    <3> QED
      BY <1>3, <2>3, <3>1 DEF Ahead
  <2>4. CASE ~(x = b /\ j <= y) /\ ~(x2 = b /\ j <= y2)
    BY <1>3, <1>5, <2>4
  <2> QED
    BY <2>1, <2>2, <2>3, <2>4
<1>6. ASSUME NEW k \in 1..lm, Ahead(<<x, y>>, <<b, j>>)
      PROVE  Ahead(Moved(<<x, y>>, b, j, n), <<b, j - 1 + k>>)
  <2>1. ~(x = b /\ j <= y) /\ (x < b \/ (x = b /\ y < j - 1 + k))
    BY <1>2, <1>6
  <2> QED
    BY <1>3, <2>1 DEF Ahead
<1>7. ASSUME NEW k \in 1..lm, ~Ahead(<<x, y>>, <<b, j>>)
      PROVE  Ahead(<<b, j - 1 + k>>, Moved(<<x, y>>, b, j, n))
  <2>1. CASE x = b /\ j <= y
    <3>1. j - 1 + k < y + n
      BY <1>4, <2>1
    <3> QED
      BY <1>3, <2>1, <3>1 DEF Ahead
  <2>2. CASE ~(x = b /\ j <= y)
    <3>1. b < x
      BY <1>2, <1>7, <2>2
    <3> QED
      BY <1>3, <2>2, <3>1 DEF Ahead
  <2> QED
    BY <2>1, <2>2
<1> QED
  BY <1>5, <1>6, <1>7

\* What is put in is new, and each is put in once.
AreNew(bs, b, j, cut, mid) ==
  /\ \A k, i \in 1..Len(mid) : mid[k] = mid[i] => k = i
  /\ \A k \in 1..Len(mid) : \A q \in Kept(bs, b, j, cut) : mid[k] # At(bs, q)

\* With the operands of c, what is kept uses what was kept in front of it, or what
\* is put in in front of it; what is put in uses what stands in front of it.
OperandsFit(c, bs, b, j, cut, mid) ==
  /\ \A q \in Kept(bs, b, j, cut) : \A v \in Operands(c[At(bs, q)]) :
       v[1] = "inst" => \/ \E r \in Kept(bs, b, j, cut) : Ahead(r, q) /\ At(bs, r) = v[2]
                        \/ ~Ahead(q, <<b, j>>) /\ \E k \in 1..Len(mid) : mid[k] = v[2]
  /\ \A k \in 1..Len(mid) : \A v \in Operands(c[mid[k]]) :
       v[1] = "inst" => \/ \E r \in Kept(bs, b, j, cut) : Ahead(r, <<b, j>>) /\ At(bs, r) = v[2]
                        \/ \E i \in 1..(k - 1) : mid[i] = v[2]

\* An edit of which the operands fit keeps the function in order.
LEMMA EditKeepsOrder ==
  ASSUME NEW bs \in Seq(Seq(Nat)), NEW b, NEW j, NEW cut, NEW mid, Room(bs, b, j, cut, mid),
         NEW cs, cs = Edit(bs, b, j, cut, mid),
         NEW c, NEW d, InOrder(c, bs), DOMAIN c \subseteq DOMAIN d,
         \A k \in 1..Len(mid) : mid[k] \in DOMAIN d,
         AreNew(bs, b, j, cut, mid), OperandsFit(d, bs, b, j, cut, mid)
  PROVE  InOrder(d, cs)
<1> DEFINE n == Len(mid) - cut
           M(q) == Moved(q, b, j, n)
           K == Kept(bs, b, j, cut)
           Put(k) == <<b, j - 1 + k>>
<1>1. /\ cs \in Seq(Seq(Nat)) /\ DOMAIN cs = DOMAIN bs
      /\ \A q \in K : M(q) \in Places(cs) /\ At(cs, M(q)) = At(bs, q)
      /\ \A k \in 1..Len(mid) : Put(k) \in Places(cs) /\ At(cs, Put(k)) = mid[k]
      /\ \A p \in Places(cs) : (\E q \in K : p = M(q)) \/ (\E k \in 1..Len(mid) : p = Put(k))
  <2>1. IsEdit(cs, bs, b, j, cut, mid)
    BY EditIs
  <2> QED
    BY <2>1, Zenon DEF IsEdit
<1>2. ASSUME NEW q \in K
      PROVE  /\ q \in Places(bs) /\ q = <<q[1], q[2]>> /\ q[1] \in Nat /\ q[2] \in Nat
             /\ cut = 1 => q # <<b, j>>
  BY PlaceNumbers DEF Kept
<1>3. Len(mid) \in Nat /\ b \in Nat /\ j \in Nat /\ cut \in {0, 1}
  BY DEF Room
<1>4. ASSUME NEW q \in K, NEW r \in K
      PROVE  Ahead(r, q) => Ahead(M(r), M(q))
  <2> DEFINE q1 == q[1]
             q2 == q[2]
             r1 == r[1]
             r2 == r[2]
  <2>1. /\ q = <<q1, q2>> /\ q1 \in Nat /\ q2 \in Nat /\ (cut = 1 => q # <<b, j>>)
        /\ r = <<r1, r2>> /\ r1 \in Nat /\ r2 \in Nat /\ (cut = 1 => r # <<b, j>>)
    BY <1>2
  <2> HIDE DEF q1, q2, r1, r2
  <2>2. cut = 1 => <<r1, r2>> # <<b, j>> /\ <<q1, q2>> # <<b, j>>
    BY <2>1
  <2>3. Ahead(<<r1, r2>>, <<q1, q2>>) => Ahead(Moved(<<r1, r2>>, b, j, n), Moved(<<q1, q2>>, b, j, n))
    BY <1>3, <2>1, <2>2, MovedKeepsOrder
  <2> QED
    BY <2>1, <2>3, Zenon
<1>5. ASSUME NEW q \in K, NEW k \in 1..Len(mid)
      PROVE  /\ Ahead(q, <<b, j>>) => Ahead(M(q), Put(k))
             /\ ~Ahead(q, <<b, j>>) => Ahead(Put(k), M(q))
  <2> DEFINE q1 == q[1]
             q2 == q[2]
  <2>1. q = <<q1, q2>> /\ q1 \in Nat /\ q2 \in Nat /\ (cut = 1 => q # <<b, j>>)
    BY <1>2
  <2> HIDE DEF q1, q2
  <2>2. cut = 1 => <<q1, q2>> # <<b, j>> /\ <<q1, q2>> # <<b, j>>
    BY <2>1
  <2>3. /\ Ahead(<<q1, q2>>, <<b, j>>) => Ahead(Moved(<<q1, q2>>, b, j, n), <<b, j - 1 + k>>)
        /\ ~Ahead(<<q1, q2>>, <<b, j>>) => Ahead(<<b, j - 1 + k>>, Moved(<<q1, q2>>, b, j, n))
    BY <1>3, <2>1, <2>2, MovedKeepsOrder
  <2> QED
    BY <2>1, <2>3, Zenon
<1>6. ASSUME NEW k \in 1..Len(mid), NEW i \in 1..(k - 1) PROVE Ahead(Put(i), Put(k))
  BY <1>3 DEF Ahead
<1> HIDE DEF M, Put, K, n
<1>7. ASSUME NEW p \in Places(cs), NEW q \in Places(cs), At(cs, p) = At(cs, q) PROVE p = q
  <2>1. \A x, y \in K : At(bs, x) = At(bs, y) => x = y
    BY <1>2 DEF InOrder
  <2>2. \A k \in 1..Len(mid) : \A x \in K : mid[k] # At(bs, x)
    BY DEF AreNew, K
  <2>3. \A k, i \in 1..Len(mid) : mid[k] = mid[i] => k = i
    BY DEF AreNew
  <2>4. CASE \E x \in K : p = M(x)
    <3>1. PICK x \in K : p = M(x)
      BY <2>4
    <3>2. At(cs, p) = At(bs, x)
      BY <1>1, <3>1
    <3>3. ASSUME NEW k \in 1..Len(mid), q = Put(k) PROVE FALSE
      BY <1>1, <1>7, <2>2, <3>2, <3>3
    <3>4. PICK y \in K : q = M(y)
      BY <1>1, <3>3
    <3>5. x = y
      BY <1>1, <1>7, <2>1, <3>2, <3>4
    <3> QED
      BY <3>1, <3>4, <3>5
  <2>5. CASE \E k \in 1..Len(mid) : p = Put(k)
    <3>1. PICK k \in 1..Len(mid) : p = Put(k)
      BY <2>5
    <3>2. At(cs, p) = mid[k]
      BY <1>1, <3>1
    <3>3. ASSUME NEW x \in K, q = M(x) PROVE FALSE
      BY <1>1, <1>7, <2>2, <3>2, <3>3
    <3>4. PICK i \in 1..Len(mid) : q = Put(i)
      BY <1>1, <3>3
    <3>5. mid[k] = mid[i]
      BY <1>1, <1>7, <3>2, <3>4
    <3>6. k = i
      BY <2>3, <3>5, Zenon
    <3> QED
      BY <3>1, <3>4, <3>6
  <2> QED
    BY <1>1, <2>4, <2>5
<1>8. ASSUME NEW p \in Places(cs)
      PROVE  At(cs, p) \in DOMAIN d /\ \A v \in Operands(d[At(cs, p)]) : StandsAhead(v, cs, p)
  <2>1. CASE \E x \in K : p = M(x)
    <3>1. PICK x \in K : p = M(x)
      BY <2>1
    <3>2. At(cs, p) = At(bs, x)
      BY <1>1, <3>1
    <3>3. At(cs, p) \in DOMAIN d
      BY <1>2, <3>2 DEF InOrder
    <3>4. ASSUME NEW v \in Operands(d[At(bs, x)]), v[1] = "inst"
          PROVE  \E q \in Places(cs) : Ahead(q, p) /\ At(cs, q) = v[2]
      <4>1. \/ \E r \in K : Ahead(r, x) /\ At(bs, r) = v[2]
            \/ ~Ahead(x, <<b, j>>) /\ \E k \in 1..Len(mid) : mid[k] = v[2]
        BY <3>4, Zenon DEF OperandsFit, K
      <4>2. CASE \E r \in K : Ahead(r, x) /\ At(bs, r) = v[2]
        BY <1>1, <1>4, <3>1, <4>2
      <4>3. CASE ~Ahead(x, <<b, j>>) /\ \E k \in 1..Len(mid) : mid[k] = v[2]
        BY <1>1, <1>5, <3>1, <4>3
      <4> QED
        BY <4>1, <4>2, <4>3
    <3> QED
      BY <3>2, <3>3, <3>4, Zenon DEF StandsAhead
  <2>2. CASE \E k \in 1..Len(mid) : p = Put(k)
    <3>1. PICK k \in 1..Len(mid) : p = Put(k)
      BY <2>2
    <3>2. At(cs, p) = mid[k]
      BY <1>1, <3>1
    <3>3. ASSUME NEW v \in Operands(d[mid[k]]), v[1] = "inst"
          PROVE  \E q \in Places(cs) : Ahead(q, p) /\ At(cs, q) = v[2]
      <4>1. \/ \E r \in K : Ahead(r, <<b, j>>) /\ At(bs, r) = v[2]
            \/ \E i \in 1..(k - 1) : mid[i] = v[2]
        BY <3>3, Zenon DEF OperandsFit, K
      <4>2. CASE \E r \in K : Ahead(r, <<b, j>>) /\ At(bs, r) = v[2]
        BY <1>1, <1>5, <3>1, <4>2
      <4>3. CASE \E i \in 1..(k - 1) : mid[i] = v[2]
        <5>1. PICK i \in 1..(k - 1) : mid[i] = v[2]
          BY <4>3
        <5>2. i \in 1..Len(mid)
          BY <1>3
        <5> QED
          BY <1>1, <1>6, <3>1, <5>1, <5>2
      <4> QED
        BY <4>1, <4>2, <4>3
    <3> QED
      BY <3>2, <3>3, Zenon DEF StandsAhead
  <2> QED
    BY <1>1, <2>1, <2>2
<1> QED
  BY <1>7, <1>8 DEF InOrder

-----------------------------------------------------------------------------
(* The invariant. *)

\* Nothing in the function, and not its result, is one of the instructions of G.
Unused(G) == \A i \in G : /\ result # Inst(i)
                          /\ \A p \in Places(body) : Inst(i) \notin Operands(code[At(body, p)])
Gone == ToSet(toDelete) \cup erased

OptsInv ==
  /\ prog \in Programs /\ DOMAIN body = DOMAIN prog.body
  /\ code \in Seq(Instruction) /\ body \in Seq(Seq(Nat)) /\ result \in Value
  /\ passes \in Seq(STRING) /\ toDelete \in Seq(Nat)
  /\ at \in (Nat \ {0}) \X (Nat \ {0})
  /\ status \in {"running", "done", "crashed"}
  /\ lossy \subseteq {"one", "division", "zero", "reversed"}
  /\ InOrder(code, body)
  /\ \A p \in Places(body) : At(body, p) \notin erased
  /\ Gone \subseteq DOMAIN code
  /\ toDelete # <<>> => passes # <<>> /\ Head(passes) = "multi-instruction-pass"
  /\ Unused(Gone)

\* What is in the function is what stands at its places.
LEMMA InFunctionIs ==
  ASSUME NEW i
  PROVE  i \in InFunction <=> \E p \in Places(body) : At(body, p) = i
<1>1. ASSUME i \in InFunction PROVE \E p \in Places(body) : At(body, p) = i
  <2>1. PICK b \in DOMAIN body : i \in ToSet(body[b])
    BY <1>1 DEF InFunction
  <2>2. PICK k \in DOMAIN body[b] : body[b][k] = i
    BY <2>1 DEF ToSet
  <2>3. <<b, k>> \in Places(body) /\ At(body, <<b, k>>) = i
    BY <2>2, PlaceIs DEF At
  <2> QED
    BY <2>3
<1>2. ASSUME NEW p \in Places(body), At(body, p) = i PROVE i \in InFunction
  <2>1. p[1] \in DOMAIN body /\ p[2] \in DOMAIN body[p[1]]
    BY PlaceIs
  <2>2. i \in ToSet(body[p[1]])
    BY <1>2, <2>1 DEF At, ToSet
  <2> QED
    BY <2>1, <2>2 DEF InFunction
<1> QED
  BY <1>1, <1>2

\* The invariant is stronger than the property.
LEMMA InvIsUnused ==
  ASSUME OptsInv
  PROVE  ErasedUnused
<1>1. InFunction \cap erased = {}
  BY InFunctionIs DEF OptsInv
<1>2. ASSUME NEW i \in ToSet(toDelete) \cup erased
      PROVE  UsersOf(i) \cap InFunction = {} /\ result # Inst(i)
  <2>1. i \in Gone
    BY DEF Gone
  <2>2. /\ result # Inst(i)
        /\ \A p \in Places(body) : Inst(i) \notin Operands(code[At(body, p)])
    BY <2>1 DEF OptsInv, Unused
  <2>3. ASSUME NEW k \in UsersOf(i), k \in InFunction PROVE FALSE
    <3>1. PICK p \in Places(body) : At(body, p) = k
      BY <2>3, InFunctionIs
    <3>2. Inst(i) \in Operands(code[k])
      BY DEF UsersOf
    <3> QED
      BY <2>2, <3>1, <3>2
  <2> QED
    BY <2>2, <2>3
<1> QED
  BY <1>1, <1>2 DEF ErasedUnused, TypeOK, OptsInv

\* At the beginning nothing is to be erased.
LEMMA InitOpts == Init => OptsInv
<1> SUFFICES ASSUME Init PROVE OptsInv
  OBVIOUS
<1>1. /\ prog.code \in Seq(Instruction) /\ prog.body \in Seq(Seq(Nat)) /\ InOrder(prog.code, prog.body)
  BY ProgramsAssumption DEF Init
<1>2. code \in Seq(Instruction) /\ body \in Seq(Seq(Nat)) /\ InOrder(code, body) /\ DOMAIN body = DOMAIN prog.body
  BY <1>1 DEF Init
<1>3. result \in Value
  <2>1. Len(prog.code) \in Nat
    BY <1>1
  <2> QED
    BY <2>1 DEF Init, Inst, Value
<1>4. ToSet(toDelete) = {} /\ toDelete = <<>> /\ erased = {}
  BY DEF Init, ToSet
<1>5. passes \in Seq(STRING) /\ prog \in Programs
  BY PipelinesAssumption DEF Init
<1>6. at \in (Nat \ {0}) \X (Nat \ {0})
  BY DEF Init
<1>7. status \in {"running", "done", "crashed"} /\ lossy = {}
  BY DEF Init
<1> QED
  BY <1>2, <1>3, <1>4, <1>5, <1>6, <1>7 DEF OptsInv, Gone, Unused

-----------------------------------------------------------------------------
(* What the passes do. *)

\* A value that is an instruction names it.
LEMMA InstIs ==
  /\ \A i : Inst(i)[1] = "inst" /\ Inst(i)[2] = i
  /\ \A i, k : Inst(i) = Inst(k) => i = k
  /\ \A v \in Value : v[1] = "inst" => v = Inst(v[2]) /\ v[2] \in Nat
  /\ \A i \in Nat : Inst(i) \in Value
<1>1. \A i : Inst(i)[1] = "inst" /\ Inst(i)[2] = i
  BY DEF Inst
<1>2. ASSUME NEW v \in Value, v[1] = "inst" PROVE v = Inst(v[2]) /\ v[2] \in Nat
  <2>1. v \in {"inst"} \X Nat
    BY <1>2 DEF Value
  <2> QED
    BY <2>1 DEF Inst
<1>3. \A i \in Nat : Inst(i) \in Value
  BY DEF Inst, Value
<1>4. ASSUME NEW i, NEW k, Inst(i) = Inst(k) PROVE i = k
  BY <1>1, <1>4
<1> QED
  BY <1>1, <1>2, <1>3, <1>4

\* An operand after a replacement: one from before that is not replaced, or the
\* new value where one was.
LEMMA ReplaceProperties ==
  ASSUME NEW c \in Seq(Instruction), NEW is, NEW w \in Value
  PROVE  /\ Replace(c, is, w) \in Seq(Instruction)
         /\ DOMAIN Replace(c, is, w) = DOMAIN c /\ Len(Replace(c, is, w)) = Len(c)
         /\ \A k \in DOMAIN c : \A v \in Operands(Replace(c, is, w)[k]) :
              \/ v \in Operands(c[k]) /\ \A i \in is : v # Inst(i)
              \/ v = w /\ \E i \in is : Inst(i) \in Operands(c[k])
<1> DEFINE d == Replace(c, is, w)
           Used(k) == \E i \in is : Inst(i) \in Operands(c[k])
           Named == {Inst(i) : i \in is}
           N(k) == Op(c[k].op, IF c[k].lhs \in Named THEN w ELSE c[k].lhs, IF c[k].rhs \in Named THEN w ELSE c[k].rhs)
<1>1. d = [k \in DOMAIN c |-> IF Used(k) THEN N(k) ELSE c[k]]
  BY DEF Replace
<1>2. ASSUME NEW k \in DOMAIN c
      PROVE  c[k] \in Instruction /\ c[k].op \in Opcode /\ c[k].lhs \in Value /\ c[k].rhs \in Value
  <2>1. c[k] \in Instruction
    OBVIOUS
  <2> QED
    BY <2>1 DEF Instruction
<1>3. ASSUME NEW k \in DOMAIN c
      PROVE  /\ N(k) \in Instruction
             /\ \A v \in Operands(N(k)) : (v \in Operands(c[k]) /\ v \notin Named) \/ v = w
  <2>1. N(k).lhs = (IF c[k].lhs \in Named THEN w ELSE c[k].lhs) /\ N(k).rhs = (IF c[k].rhs \in Named THEN w ELSE c[k].rhs)
    BY DEF Op
  <2>2. N(k) \in Instruction
    BY <1>2 DEF Op, Instruction
  <2> HIDE DEF N, Named
  <2> QED
    BY <2>1, <2>2 DEF Operands
<1>4. ASSUME NEW k \in DOMAIN c PROVE d[k] = (IF Used(k) THEN N(k) ELSE c[k]) /\ d[k] \in Instruction
  <2> HIDE DEF N, Used
  <2>1. d[k] = (IF Used(k) THEN N(k) ELSE c[k])
    BY <1>1
  <2> QED
    BY <1>2, <1>3, <2>1
<1>5. DOMAIN d = DOMAIN c /\ Len(c) \in Nat /\ DOMAIN c = 1..Len(c)
  BY <1>1
<1>6. d \in Seq(Instruction) /\ Len(d) = Len(c)
  <2>1. d \in [1..Len(c) -> Instruction]
    <3> HIDE DEF N, Used
    <3> QED
      BY <1>1, <1>4, <1>5
  <2> HIDE DEF d
  <2> QED
    BY <1>5, <2>1
<1>7. ASSUME NEW k \in DOMAIN c, NEW v \in Operands(d[k])
      PROVE  \/ v \in Operands(c[k]) /\ \A i \in is : v # Inst(i)
             \/ v = w /\ \E i \in is : Inst(i) \in Operands(c[k])
  <2>1. CASE Used(k)
    <3>1. d[k] = N(k)
      BY <1>4, <2>1
    <3>2. (v \in Operands(c[k]) /\ v \notin Named) \/ v = w
      BY <1>3, <1>7, <3>1
    <3> QED
      BY <2>1, <3>2
  <2>2. CASE ~Used(k)
    <3>1. d[k] = c[k]
      BY <1>4, <2>2
    <3> QED
      BY <1>7, <2>2, <3>1
  <2> QED
    BY <2>1, <2>2
<1> QED
  BY <1>5, <1>6, <1>7

\* The place the iterator stands at.
Here == <<Block, at[2]>>

\* What stands there uses what stands ahead of it, and nothing that is gone.
LEMMA HereIs ==
  ASSUME OptsInv, AtInstruction
  PROVE  /\ Here \in Places(body) /\ At(body, Here) = I /\ I \in DOMAIN code /\ I \in Nat
         /\ Block \in DOMAIN body /\ at[2] \in 1..Len(body[Block]) /\ body[Block] \in Seq(Nat)
         /\ code[I] \in Instruction /\ I \notin erased
         /\ \A v \in Operands(code[I]) :
              v \in Value /\ StandsAhead(v, body, Here) /\ \A i \in Gone : v # Inst(i)
<1>1. /\ prog \in Programs /\ DOMAIN body = DOMAIN prog.body /\ body \in Seq(Seq(Nat))
      /\ code \in Seq(Instruction) /\ at \in (Nat \ {0}) \X (Nat \ {0})
  BY DEF OptsInv
<1>2. at[1] \in Nat \ {0} /\ at[2] \in Nat \ {0}
  BY <1>1
<1>3. prog.layout \in Seq(DOMAIN body)
  BY <1>1, ProgramsAssumption
<1>4. Block \in DOMAIN body
  <2>1. at[1] \in DOMAIN prog.layout
    BY <1>2, <1>3 DEF AtInstruction
  <2> QED
    BY <1>3, <2>1 DEF Block
<1>5. body[Block] \in Seq(Nat)
  BY <1>1, <1>4
<1>6. at[2] \in 1..Len(body[Block])
  BY <1>2, <1>5 DEF AtInstruction
<1>7. Here \in Places(body)
  <2>1. at[2] \in DOMAIN body[Block]
    BY <1>5, <1>6
  <2> QED
    BY <1>4, <2>1, PlaceIs DEF Here
<1>8. At(body, Here) = I
  BY DEF At, Here, I
<1>9. I \in DOMAIN code /\ I \in Nat /\ I \notin erased
  <2>1. I \in DOMAIN code /\ I \notin erased
    BY <1>7, <1>8 DEF OptsInv, InOrder
  <2> QED
    BY <1>1, <2>1
<1>10. code[I] \in Instruction
  BY <1>1, <1>9
<1>11. ASSUME NEW v \in Operands(code[I])
       PROVE  v \in Value /\ StandsAhead(v, body, Here) /\ \A i \in Gone : v # Inst(i)
  <2>1. v \in Value
    BY <1>10 DEF Operands, Instruction
  <2>2. StandsAhead(v, body, Here)
    BY <1>7, <1>8 DEF OptsInv, InOrder
  <2>3. \A i \in Gone : v # Inst(i)
    BY <1>7, <1>8 DEF OptsInv, Unused
  <2> QED
    BY <2>1, <2>2, <2>3
<1> QED
  BY <1>4, <1>5, <1>6, <1>7, <1>8, <1>9, <1>10, <1>11

\* Nothing stands there that uses itself.
LEMMA HereAlone ==
  ASSUME OptsInv, AtInstruction, NEW q \in Places(body), At(body, q) = I
  PROVE  q = Here /\ Inst(I) \notin Operands(code[I])
<1>1. /\ Here \in Places(body) /\ At(body, Here) = I /\ I \in Nat
      /\ \A v \in Operands(code[I]) : StandsAhead(v, body, Here)
  BY HereIs
<1>2. \A p, r \in Places(body) : At(body, p) = At(body, r) => p = r
  BY DEF OptsInv, InOrder
<1>3. q = Here
  BY <1>1, <1>2
<1>4. ASSUME Inst(I) \in Operands(code[I]) PROVE FALSE
  <2>1. StandsAhead(Inst(I), body, Here)
    BY <1>1, <1>4
  <2>2. PICK r \in Places(body) : Ahead(r, Here) /\ At(body, r) = I
    BY <2>1, InstIs DEF StandsAhead
  <2>3. r = Here
    BY <1>1, <1>2, <2>2
  <2>4. body \in Seq(Seq(Nat))
    BY DEF OptsInv
  <2>5. ~Ahead(Here, Here)
    BY <1>1, <2>4, AheadIsOrder
  <2> QED
    BY <2>2, <2>3, <2>5
<1> QED
  BY <1>3, <1>4

\* When w has taken the place of the instruction at the iterator, an operand stands where
\* it stood, and not there; or it is w, used behind the iterator.
LEMMA OldOperands ==
  ASSUME OptsInv, AtInstruction, NEW w \in Value, \A i \in Gone : w # Inst(i),
         NEW q \in Places(body), NEW v \in Operands(Replace(code, {I}, w)[At(body, q)])
  PROVE  /\ v \in Value /\ \A i \in Gone : v # Inst(i)
         /\ \/ v[1] = "inst" => \E r \in Places(body) : r # Here /\ Ahead(r, q) /\ At(body, r) = v[2]
            \/ v = w /\ Ahead(Here, q)
<1>1. /\ Here \in Places(body) /\ At(body, Here) = I /\ I \in Nat
  BY HereIs
<1>2. code \in Seq(Instruction) /\ body \in Seq(Seq(Nat)) /\ At(body, q) \in DOMAIN code
  BY DEF OptsInv, InOrder
<1>3. code[At(body, q)] \in Instruction
  BY <1>2
<1>4. \/ v \in Operands(code[At(body, q)]) /\ v # Inst(I)
      \/ v = w /\ Inst(I) \in Operands(code[At(body, q)])
  <2> DEFINE k == At(body, q)
  <2>1. k \in DOMAIN code /\ v \in Operands(Replace(code, {I}, w)[k])
    BY <1>2
  <2> HIDE DEF k
  <2>2. \/ v \in Operands(code[k]) /\ \A i \in {I} : v # Inst(i)
        \/ v = w /\ \E i \in {I} : Inst(i) \in Operands(code[k])
    BY <1>2, <2>1, ReplaceProperties
  <2> QED
    BY <2>2 DEF k
<1>5. CASE v \in Operands(code[At(body, q)]) /\ v # Inst(I)
  <2>1. v \in Value
    BY <1>3, <1>5 DEF Operands, Instruction
  <2>2. \A i \in Gone : v # Inst(i)
    BY <1>5 DEF OptsInv, Unused
  <2>3. ASSUME v[1] = "inst"
        PROVE  \E r \in Places(body) : r # Here /\ Ahead(r, q) /\ At(body, r) = v[2]
    <3>1. StandsAhead(v, body, q)
      BY <1>5 DEF OptsInv, InOrder
    <3>2. PICK r \in Places(body) : Ahead(r, q) /\ At(body, r) = v[2]
      BY <2>3, <3>1 DEF StandsAhead
    <3>3. v[2] # I
      BY <1>5, <2>1, <2>3, InstIs
    <3> QED
      BY <1>1, <3>2, <3>3
  <2> QED
    BY <2>1, <2>2, <2>3
<1>6. CASE v = w /\ Inst(I) \in Operands(code[At(body, q)])
  <2>1. StandsAhead(Inst(I), body, q)
    BY <1>6 DEF OptsInv, InOrder
  <2>2. PICK r \in Places(body) : Ahead(r, q) /\ At(body, r) = I
    BY <2>1, InstIs DEF StandsAhead
  <2>3. r = Here
    BY <2>2, HereAlone
  <2> QED
    BY <1>6, <2>2, <2>3
<1> QED
  BY <1>4, <1>5, <1>6

\* Neither the result nor an operand is gone after an edit.
NoneGone(b, j, cut, mid) ==
  \A i \in Gone : /\ result' # Inst(i)
                  /\ \A q \in Kept(body, b, j, cut) : Inst(i) \notin Operands(code'[At(body, q)])
                  /\ \A k \in 1..Len(mid) : Inst(i) \notin Operands(code'[mid[k]])
\* What is put in are instructions that did not exist.
Created(mid) == /\ \A k \in 1..Len(mid) : mid[k] \in DOMAIN code' /\ mid[k] \notin DOMAIN code
                /\ \A k, i \in 1..Len(mid) : mid[k] = mid[i] => k = i
\* The types, where the passes change anything but the function.
TypesAfter ==
  /\ code' \in Seq(Instruction) /\ DOMAIN code \subseteq DOMAIN code'
  /\ result' \in Value /\ at' \in (Nat \ {0}) \X (Nat \ {0})
  /\ lossy' \subseteq {"one", "division", "zero", "reversed"}

\* Rewriting a block keeps the invariant if the operands fit and none of them is gone.
LEMMA Rewritten ==
  ASSUME OptsInv, NEW b, NEW j, NEW cut, NEW mid, Room(body, b, j, cut, mid),
         body' = Edit(body, b, j, cut, mid), Created(mid), OperandsFit(code', body, b, j, cut, mid),
         NoneGone(b, j, cut, mid), TypesAfter,
         UNCHANGED <<prog, passes, toDelete, erased, status>>
  PROVE  OptsInv'
<1>1. /\ body \in Seq(Seq(Nat)) /\ InOrder(code, body)
      /\ Gone \subseteq DOMAIN code /\ erased \subseteq DOMAIN code
      /\ \A p \in Places(body) : At(body, p) \in DOMAIN code /\ At(body, p) \notin erased
  BY DEF OptsInv, InOrder, Gone
<1>2. IsEdit(body', body, b, j, cut, mid)
  BY <1>1, EditIs
<1>3. AreNew(body, b, j, cut, mid)
  <2>1. \A q \in Kept(body, b, j, cut) : At(body, q) \in DOMAIN code
    BY <1>1 DEF Kept
  <2> QED
    BY <2>1, Zenon DEF AreNew, Created
<1>4. InOrder(code', body')
  <2>1. DOMAIN code \subseteq DOMAIN code' /\ \A k \in 1..Len(mid) : mid[k] \in DOMAIN code'
    BY DEF Created, TypesAfter
  <2> QED
    BY <1>1, <1>3, <2>1, EditKeepsOrder
<1>5. ASSUME NEW p \in Places(body')
      PROVE  \/ \E q \in Kept(body, b, j, cut) : At(body', p) = At(body, q)
             \/ \E k \in 1..Len(mid) : At(body', p) = mid[k]
  BY <1>2, <1>5, Zenon DEF IsEdit
<1>6. ASSUME NEW p \in Places(body') PROVE At(body', p) \notin erased'
  <2>1. erased' = erased
    OBVIOUS
  <2>2. CASE \E q \in Kept(body, b, j, cut) : At(body', p) = At(body, q)
    BY <1>1, <2>1, <2>2 DEF Kept
  <2>3. CASE \E k \in 1..Len(mid) : At(body', p) = mid[k]
    BY <1>1, <2>1, <2>3 DEF Created
  <2> QED
    BY <1>5, <2>2, <2>3
<1>7. Gone' = Gone
  BY DEF Gone
<1>8. Unused(Gone)'
  <2> SUFFICES ASSUME NEW i \in Gone
               PROVE  result' # Inst(i) /\ \A p \in Places(body') : Inst(i) \notin Operands(code'[At(body', p)])
    BY <1>7 DEF Unused
  <2>1. ASSUME NEW p \in Places(body') PROVE Inst(i) \notin Operands(code'[At(body', p)])
    <3>1. CASE \E q \in Kept(body, b, j, cut) : At(body', p) = At(body, q)
      BY <3>1, Zenon DEF NoneGone
    <3>2. CASE \E k \in 1..Len(mid) : At(body', p) = mid[k]
      BY <3>2, Zenon DEF NoneGone
    <3> QED
      BY <1>5, <3>1, <3>2, Zenon
  <2> QED
    BY <2>1 DEF NoneGone
<1>9. body' \in Seq(Seq(Nat)) /\ DOMAIN body' = DOMAIN body
  BY <1>2 DEF IsEdit
<1>10. Gone' \subseteq DOMAIN code'
  BY <1>1, <1>7 DEF TypesAfter
<1> QED
  BY <1>4, <1>6, <1>8, <1>9, <1>10 DEF OptsInv, TypesAfter

\* Taking an element out is an edit that puts nothing in.
LEMMA RemoveIsEdit ==
  ASSUME NEW bs \in Seq(Seq(Nat)), NEW b \in DOMAIN bs, NEW k \in 1..Len(bs[b])
  PROVE  /\ [bs EXCEPT ![b] = RemoveAt(@, k)] = Edit(bs, b, k, 1, <<>>)
         /\ Room(bs, b, k, 1, <<>>)
<1>1. bs[b] \in Seq(Nat) /\ Len(bs[b]) \in Nat /\ <<>> \in Seq(Nat)
  OBVIOUS
<1> DEFINE s == bs[b]
           u == SubSeq(s, 1, k - 1)
           v == SubSeq(s, k + 1, Len(s))
<1>2. u \in Seq(Nat)
  <2>1. \A i \in 1..(k - 1) : i \in 1..Len(s)
    BY <1>1
  <2> QED
    BY <1>1, SubSeqProperties
<1> HIDE DEF u, v
<1>3. u \o <<>> = u
  BY <1>2, ConcatEmptySeq
<1>4. RemoveAt(s, k) = Splice(s, k - 1, <<>>, k + 1)
  BY <1>3, Zenon DEF RemoveAt, Splice, u, v
<1>5. Room(bs, b, k, 1, <<>>)
  BY <1>1 DEF Room
<1> HIDE DEF s
<1>6. [bs EXCEPT ![b] = RemoveAt(@, k)] = Edit(bs, b, k, 1, <<>>)
  BY <1>4 DEF Edit, s
<1> QED
  BY <1>5, <1>6

\* Replacing an instruction by a value leaves the result a value that is not gone.
LEMMA ResultAfter ==
  ASSUME OptsInv, NEW is, NEW w \in Value, \A i \in Gone : w # Inst(i), ReplaceResult(is, w)
  PROVE  result' \in Value /\ (\A i \in Gone : result' # Inst(i))
         /\ (\A i \in is : result' # Inst(i) \/ w = Inst(i))
  BY DEF OptsInv, Unused, ReplaceResult

LEMMA IdentityIs ==
  ASSUME NEW e, IdentityOperand(e) # <<>>
  PROVE  IdentityOperand(e)[1] \in Operands(e)
<1>1. ZeroOperand(e) # <<>> => ZeroOperand(e)[1] \in Operands(e)
  BY DEF ZeroOperand, Operands
<1>2. OneOperand(e) # <<>> => OneOperand(e)[1] \in Operands(e)
  BY DEF OneOperand, Operands
<1>3. \/ IdentityOperand(e) = ZeroOperand(e)
      \/ IdentityOperand(e) = OneOperand(e)
      \/ IdentityOperand(e) = <<>>
  BY DEF IdentityOperand
<1> QED
  BY <1>1, <1>2, <1>3

\* The instruction taken out is replaced by what stands ahead of it.
LEMMA IdentityKeeps == OptsInv /\ AlgIdentity => OptsInv'
<1> SUFFICES ASSUME OptsInv, AlgIdentity PROVE OptsInv'
  OBVIOUS
<1> DEFINE w == IdentityOperand(code[I])[1]
           b == Block
           j == at[2]
<1>1. /\ AtInstruction /\ IdentityOperand(code[I]) # <<>>
      /\ code' = Replace(code, {I}, w) /\ ReplaceResult({I}, w)
      /\ body' = [body EXCEPT ![Block] = RemoveAt(@, at[2])]
      /\ lossy' \in {lossy, lossy \cup {"one"}}
      /\ UNCHANGED <<prog, passes, at, toDelete, erased, status>>
  BY DEF AlgIdentity, Visits
<1>2. /\ Here \in Places(body) /\ At(body, Here) = I /\ I \in DOMAIN code /\ I \in Nat
      /\ Block \in DOMAIN body /\ at[2] \in 1..Len(body[Block]) /\ code[I] \in Instruction
      /\ \A v \in Operands(code[I]) :
           v \in Value /\ StandsAhead(v, body, Here) /\ \A i \in Gone : v # Inst(i)
  BY <1>1, HereIs
<1>3. w \in Operands(code[I])
  BY <1>1, IdentityIs
<1>4. w \in Value /\ StandsAhead(w, body, Here) /\ \A i \in Gone : w # Inst(i)
  BY <1>2, <1>3
<1>5. body \in Seq(Seq(Nat)) /\ code \in Seq(Instruction)
  BY DEF OptsInv
<1>6. body' = Edit(body, b, j, 1, <<>>) /\ Room(body, b, j, 1, <<>>)
  BY <1>1, <1>2, <1>5, RemoveIsEdit
<1> HIDE DEF w
<1>7. Kept(body, b, j, 1) = {q \in Places(body) : q # Here}
  BY DEF Kept, Here
<1>8. ASSUME NEW q \in Kept(body, b, j, 1), NEW v \in Operands(code'[At(body, q)])
      PROVE  /\ v[1] = "inst" => \E r \in Kept(body, b, j, 1) : Ahead(r, q) /\ At(body, r) = v[2]
             /\ \A i \in Gone : v # Inst(i)
  <2>1. q \in Places(body) /\ v \in Operands(Replace(code, {I}, w)[At(body, q)])
    BY <1>1, <1>7
  <2>2. /\ v \in Value /\ \A i \in Gone : v # Inst(i)
        /\ \/ v[1] = "inst" => \E r \in Places(body) : r # Here /\ Ahead(r, q) /\ At(body, r) = v[2]
           \/ v = w /\ Ahead(Here, q)
    BY <1>1, <1>4, <2>1, OldOperands
  <2>3. CASE v = w /\ Ahead(Here, q)
    <3>1. ASSUME v[1] = "inst"
          PROVE  \E r \in Places(body) : r # Here /\ Ahead(r, q) /\ At(body, r) = v[2]
      <4>1. PICK r \in Places(body) : Ahead(r, Here) /\ At(body, r) = v[2]
        BY <1>4, <2>3, <3>1 DEF StandsAhead
      <4>2. Ahead(r, q) /\ r # Here
        BY <1>2, <1>5, <2>1, <2>3, <4>1, AheadIsOrder
      <4> QED
        BY <4>1, <4>2
    <3> QED
      BY <1>7, <2>2, <3>1
  <2> QED
    BY <1>7, <2>2, <2>3
<1>9. Len(<<>>) = 0 /\ 1..0 = {}
  OBVIOUS
<1>10. OperandsFit(code', body, b, j, 1, <<>>)
  BY <1>8, <1>9, Zenon DEF OperandsFit
<1>11. Created(<<>>)
  BY <1>9, Zenon DEF Created
<1>12. result' \in Value /\ \A i \in Gone : result' # Inst(i)
  BY <1>1, <1>4, ResultAfter
<1>13. NoneGone(b, j, 1, <<>>)
  BY <1>8, <1>9, <1>12, Zenon DEF NoneGone
<1>14. code' \in Seq(Instruction) /\ DOMAIN code' = DOMAIN code
  BY <1>1, <1>4, <1>5, ReplaceProperties
<1>15. TypesAfter
  <2>1. at' \in (Nat \ {0}) \X (Nat \ {0})
    BY <1>1 DEF OptsInv
  <2>2. lossy' \subseteq {"one", "division", "zero", "reversed"}
    BY <1>1 DEF OptsInv
  <2> QED
    BY <1>12, <1>14, <2>1, <2>2 DEF TypesAfter
<1> QED
  BY <1>1, <1>6, <1>10, <1>11, <1>13, <1>15, Rewritten

\* The place of an edit at the iterator, in front of it (the instruction there cut out)
\* or right behind it.
EditsAt(j, cut) == j = at[2] + 1 - cut
Behind(b, j, cut, q) == /\ Ahead(Here, q) => ~Ahead(q, <<b, j>>)
                        /\ Ahead(q, Here) => Ahead(q, <<b, j>>)
                        /\ q # Here => q \in Kept(body, b, j, cut)
                        /\ Ahead(q, Here) => q \in Kept(body, b, j, cut)
LEMMA BehindHere ==
  ASSUME body \in Seq(Seq(Nat)), Here \in Places(body), NEW cut \in {0, 1}, NEW j, EditsAt(j, cut),
         NEW q \in Places(body)
  PROVE  Behind(Block, j, cut, q)
<1> DEFINE b == Block
           x == q[1]
           y == q[2]
           n == at[2]
<1>1. x \in Nat /\ y \in Nat /\ q = <<x, y>>
  BY PlaceNumbers
<1>2. b \in Nat /\ n \in Nat /\ j = n + 1 - cut /\ Here = <<b, n>>
  <2>1. Here[1] \in Nat /\ Here[2] \in Nat
    BY PlaceNumbers
  <2> QED
    BY <2>1 DEF Here, EditsAt
<1> HIDE DEF x, y, n, b
<1>3. /\ Ahead(<<b, n>>, <<x, y>>) <=> b < x \/ (b = x /\ n < y)
      /\ Ahead(<<x, y>>, <<b, n>>) <=> x < b \/ (x = b /\ y < n)
      /\ Ahead(<<x, y>>, <<b, j>>) <=> x < b \/ (x = b /\ y < j)
  BY DEF Ahead
<1>4. /\ Ahead(<<b, n>>, <<x, y>>) => ~Ahead(<<x, y>>, <<b, j>>)
      /\ Ahead(<<x, y>>, <<b, n>>) => Ahead(<<x, y>>, <<b, j>>)
      /\ cut = 1 => j = n
  BY <1>1, <1>2, <1>3
<1>5. q # Here => q \in Kept(body, b, j, cut)
  BY <1>2, <1>4 DEF Kept
<1>6. Ahead(q, Here) => q # Here
  BY AheadIsOrder
<1> QED
  BY <1>1, <1>2, <1>4, <1>5, <1>6 DEF Behind, b

\* An operand of a new instruction: one of the replaced instruction, a constant, or
\* the result of the new one before it.
OperandsOfNew(new, e) ==
  \A k \in DOMAIN new : \A v \in Operands(new[k]) :
    \/ v \in Operands(e)
    \/ v \in Value /\ v[1] # "inst"
    \/ k > 1 /\ v = Inst(Len(code) + (k - 1))

\* Instructions put at the end of the code.
LEMMA NewCode ==
  ASSUME NEW c \in Seq(Instruction), NEW new \in Seq(Instruction)
  PROVE  /\ c \o new \in Seq(Instruction) /\ Len(c \o new) = Len(c) + Len(new)
         /\ DOMAIN c \subseteq DOMAIN (c \o new)
         /\ \A k \in DOMAIN c : (c \o new)[k] = c[k]
         /\ \A k \in 1..Len(new) : Len(c) + k \in DOMAIN (c \o new) /\ (c \o new)[Len(c) + k] = new[k]
         /\ \A k \in 1..Len(new) : Len(c) + k \notin DOMAIN c
<1> DEFINE t == c \o new
<1>1. Len(c) \in Nat /\ Len(new) \in Nat /\ DOMAIN c = 1..Len(c)
  OBVIOUS
<1>2. t \in Seq(Instruction) /\ Len(t) = Len(c) + Len(new)
  BY ConcatProperties
<1>3. \A k \in 1..(Len(c) + Len(new)) : t[k] = IF k <= Len(c) THEN c[k] ELSE new[k - Len(c)]
  BY ConcatProperties
<1> HIDE DEF t
<1>4. DOMAIN t = 1..(Len(c) + Len(new))
  BY <1>2
<1>5. ASSUME NEW k \in DOMAIN c PROVE k \in DOMAIN t /\ t[k] = c[k]
  <2>1. k \in 1..(Len(c) + Len(new)) /\ k <= Len(c)
    BY <1>1
  <2> QED
    BY <1>3, <1>4, <2>1
<1>6. ASSUME NEW k \in 1..Len(new)
      PROVE  Len(c) + k \in DOMAIN t /\ t[Len(c) + k] = new[k] /\ Len(c) + k \notin DOMAIN c
  <2> DEFINE i == Len(c) + k
  <2>1. i \in 1..(Len(c) + Len(new)) /\ ~(i <= Len(c)) /\ i - Len(c) = k
    BY <1>1
  <2>2. i \notin DOMAIN c
    BY <1>1
  <2> HIDE DEF i
  <2>3. t[i] = new[k]
    BY <1>3, <2>1
  <2> QED
    BY <1>4, <2>1, <2>2, <2>3 DEF i
<1> QED
  BY <1>2, <1>5, <1>6 DEF t

\* The names of m new instructions.
Names(m) == [k \in 1..m |-> Len(code) + k]
\* The code in which w takes the place of i, with the new instructions.
Grown(i, w, new) == Replace(code, {i}, w) \o new

\* There is room in front of the iterator, and behind it.
LEMMA RoomHere ==
  ASSUME NEW l \in Nat, NEW n \in 1..l, NEW cut \in {0, 1}, NEW j, j = n + 1 - cut
  PROVE  j \in 1..(l + 1) /\ j + cut <= l + 1
  OBVIOUS

\* An instruction whose uses become those of the last of some new ones, put in its place
\* or behind it.
LEMMA Substituted ==
  ASSUME OptsInv, AtInstruction, NEW new \in Seq(Instruction), NEW m \in Nat \ {0}, Len(new) = m,
         NEW w, w = Inst(Len(code) + m), NEW cut \in {0, 1}, NEW j, EditsAt(j, cut),
         NEW mid, mid = Names(m),
         OperandsOfNew(new, code[I]),
         code' = Grown(I, w, new), ReplaceResult({I}, w),
         body' = Edit(body, Block, j, cut, mid),
         at' \in (Nat \ {0}) \X (Nat \ {0}), lossy' \subseteq {"one", "division", "zero", "reversed"},
         UNCHANGED <<prog, passes, toDelete, erased, status>>
  PROVE  OptsInv'
<1> DEFINE b == Block
           K == Kept(body, b, j, cut)
<1>1. /\ Here \in Places(body) /\ At(body, Here) = I /\ I \in DOMAIN code /\ I \in Nat
      /\ b \in DOMAIN body /\ at[2] \in 1..Len(body[b]) /\ body[b] \in Seq(Nat) /\ code[I] \in Instruction
      /\ \A v \in Operands(code[I]) :
           v \in Value /\ StandsAhead(v, body, Here) /\ \A i \in Gone : v # Inst(i)
  BY HereIs
<1>2. /\ body \in Seq(Seq(Nat)) /\ code \in Seq(Instruction) /\ Gone \subseteq DOMAIN code
      /\ Len(code) \in Nat /\ DOMAIN code = 1..Len(code) /\ b \in Nat /\ at[2] \in Nat
      /\ \A q \in Places(body) : At(body, q) \in DOMAIN code
  <2>1. body \in Seq(Seq(Nat)) /\ code \in Seq(Instruction) /\ Gone \subseteq DOMAIN code
    BY DEF OptsInv
  <2>2. Len(code) \in Nat /\ DOMAIN code = 1..Len(code)
    BY <2>1
  <2>3. at[2] \in Nat
    BY <1>1
  <2>4. b \in Nat
    <3> HIDE DEF b
    <3> QED
      BY <1>1, <2>1
  <2>5. \A q \in Places(body) : At(body, q) \in DOMAIN code
    BY DEF OptsInv, InOrder
  <2> QED
    BY <2>1, <2>2, <2>3, <2>4, <2>5
<1>3. mid \in Seq(Nat) /\ Len(mid) = m /\ \A k \in 1..m : mid[k] = Len(code) + k
  <2>1. mid \in [1..m -> Nat] /\ \A k \in 1..m : mid[k] = Len(code) + k
    BY <1>2 DEF Names
  <2> QED
    BY <2>1
<1>4. w \in Value /\ \A i \in Gone : w # Inst(i)
  <2>1. Len(code) + m \in Nat /\ Len(code) + m \notin 1..Len(code)
    <3>1. Len(code) \in Nat
      BY <1>2
    <3> QED
      BY <3>1
  <2>2. Len(code) + m \notin Gone
    BY <1>2, <2>1, Zenon
  <2> QED
    BY <2>1, <2>2, InstIs
<1> DEFINE d == Replace(code, {I}, w)
<1>5. d \in Seq(Instruction) /\ DOMAIN d = DOMAIN code /\ Len(d) = Len(code)
  BY <1>2, <1>4, ReplaceProperties
<1> HIDE DEF d
<1>6. /\ code' \in Seq(Instruction) /\ DOMAIN code \subseteq DOMAIN code'
      /\ \A k \in DOMAIN code : code'[k] = d[k]
      /\ \A k \in 1..m : mid[k] \in DOMAIN code' /\ code'[mid[k]] = new[k] /\ mid[k] \notin DOMAIN code
  <2>1. code' = d \o new
    BY DEF d, Grown
  <2>2. /\ d \o new \in Seq(Instruction) /\ DOMAIN d \subseteq DOMAIN (d \o new)
        /\ \A k \in DOMAIN d : (d \o new)[k] = d[k]
        /\ \A k \in 1..m : Len(code) + k \in DOMAIN (d \o new) /\ (d \o new)[Len(code) + k] = new[k]
        /\ \A k \in 1..m : Len(code) + k \notin DOMAIN code
    <3>1. Len(new) = m /\ Len(d) = Len(code) /\ DOMAIN d = DOMAIN code /\ d \in Seq(Instruction)
      BY <1>5
    <3>2. /\ d \o new \in Seq(Instruction) /\ DOMAIN d \subseteq DOMAIN (d \o new)
          /\ \A k \in DOMAIN d : (d \o new)[k] = d[k]
          /\ \A k \in 1..Len(new) : Len(d) + k \in DOMAIN (d \o new) /\ (d \o new)[Len(d) + k] = new[k]
          /\ \A k \in 1..Len(new) : Len(d) + k \notin DOMAIN d
      BY <3>1, NewCode, Zenon
    <3> QED
      BY <3>1, <3>2, Zenon
  <2> QED
    BY <1>3, <1>5, <2>1, <2>2
<1>7. Room(body, b, j, cut, mid)
  <2>1. j \in 1..(Len(body[b]) + 1) /\ j + cut <= Len(body[b]) + 1
    <3> DEFINE l == Len(body[b])
    <3>1. l \in Nat /\ at[2] \in 1..l
      BY <1>1
    <3> HIDE DEF l
    <3>2. j \in 1..(l + 1) /\ j + cut <= l + 1
      BY <3>1, RoomHere DEF EditsAt
    <3> QED
      BY <3>2 DEF l
  <2> QED
    BY <1>1, <1>3, <2>1 DEF Room
<1>8. ASSUME NEW q \in Places(body)
      PROVE  /\ Ahead(Here, q) => ~Ahead(q, <<b, j>>)
             /\ Ahead(q, Here) => Ahead(q, <<b, j>>)
             /\ q # Here => q \in K
             /\ Ahead(q, Here) => q \in K
  <2>1. Behind(Block, j, cut, q)
    BY <1>1, <1>2, BehindHere, Zenon
  <2> QED
    BY <2>1, Zenon DEF Behind
<1>9. ASSUME NEW q \in K, NEW v \in Operands(code'[At(body, q)])
      PROVE  /\ v[1] = "inst" => \/ \E r \in K : Ahead(r, q) /\ At(body, r) = v[2]
                                 \/ ~Ahead(q, <<b, j>>) /\ \E k \in 1..Len(mid) : mid[k] = v[2]
             /\ \A i \in Gone : v # Inst(i)
  <2>1. q \in Places(body)
    BY DEF Kept
  <2>2. v \in Operands(Replace(code, {I}, w)[At(body, q)])
    BY <1>2, <1>6, <2>1 DEF d
  <2>3. /\ v \in Value /\ \A i \in Gone : v # Inst(i)
        /\ \/ v[1] = "inst" => \E r \in Places(body) : r # Here /\ Ahead(r, q) /\ At(body, r) = v[2]
           \/ v = w /\ Ahead(Here, q)
    BY <1>4, <2>1, <2>2, OldOperands
  <2>4. CASE v = w /\ Ahead(Here, q)
    <3>1. m \in 1..Len(mid) /\ mid[m] = v[2]
      BY <1>3, <2>4, InstIs
    <3> QED
      BY <1>8, <2>1, <2>3, <2>4, <3>1
  <2> QED
    BY <1>8, <2>3, <2>4
<1> DEFINE Fits(k, v) ==
             v[1] = "inst" => \/ \E r \in K : Ahead(r, <<b, j>>) /\ At(body, r) = v[2]
                              \/ \E i \in 1..(k - 1) : mid[i] = v[2]
<1>10. ASSUME NEW k \in 1..Len(mid), NEW v \in Operands(code'[mid[k]])
       PROVE  Fits(k, v) /\ \A i \in Gone : v # Inst(i)
  <2>1. k \in 1..m /\ k \in DOMAIN new /\ v \in Operands(new[k])
    <3>1. k \in 1..m
      BY <1>3
    <3>2. DOMAIN new = 1..m
      OBVIOUS
    <3>3. code'[mid[k]] = new[k]
      BY <1>6, <3>1, Zenon
    <3> QED
      BY <3>1, <3>2, <3>3
  <2>2. \/ v \in Operands(code[I])
        \/ v \in Value /\ v[1] # "inst"
        \/ k > 1 /\ v = Inst(Len(code) + (k - 1))
    BY <2>1 DEF OperandsOfNew
  <2>3. CASE v \in Operands(code[I])
    <3>1. StandsAhead(v, body, Here) /\ \A i \in Gone : v # Inst(i)
      BY <1>1, <2>3
    <3>2. v[1] = "inst" => \E r \in Places(body) : Ahead(r, Here) /\ At(body, r) = v[2]
      BY <3>1 DEF StandsAhead
    <3> QED
      BY <1>8, <3>1, <3>2
  <2>4. CASE v \in Value /\ v[1] # "inst"
    BY <2>4, InstIs
  <2>5. CASE k > 1 /\ v = Inst(Len(code) + (k - 1))
    <3>1. k - 1 \in 1..(k - 1) /\ k - 1 \in 1..m
      BY <2>1, <2>5
    <3>2. mid[k - 1] = v[2]
      BY <1>3, <2>5, <3>1, InstIs
    <3>3. Len(code) + (k - 1) \notin Gone
      BY <1>2, <3>1
    <3> QED
      BY <2>5, <3>1, <3>2, <3>3, InstIs
  <2> QED
    BY <2>2, <2>3, <2>4, <2>5
<1>11. OperandsFit(code', body, b, j, cut, mid)
  <2> HIDE DEF K
  <2>1. \A q \in K : \A v \in Operands(code'[At(body, q)]) :
          v[1] = "inst" => \/ \E r \in K : Ahead(r, q) /\ At(body, r) = v[2]
                           \/ ~Ahead(q, <<b, j>>) /\ \E k \in 1..Len(mid) : mid[k] = v[2]
    BY <1>9
  <2>2. \A k \in 1..Len(mid) : \A v \in Operands(code'[mid[k]]) : Fits(k, v)
    <3> HIDE DEF Fits
    <3> QED
      BY <1>10
  <2> QED
    BY <2>1, <2>2, Zenon DEF OperandsFit, K
<1>12. Created(mid)
  <2>1. \A k, i \in 1..Len(mid) : mid[k] = mid[i] => k = i
    BY <1>2, <1>3
  <2> QED
    BY <1>3, <1>6, <2>1 DEF Created
<1>13. result' \in Value /\ \A i \in Gone : result' # Inst(i)
  BY <1>4, ResultAfter
<1>14. NoneGone(b, j, cut, mid)
  <2> HIDE DEF K
  <2>1. \A i \in Gone : \A q \in K : Inst(i) \notin Operands(code'[At(body, q)])
    BY <1>9
  <2>2. \A i \in Gone : \A k \in 1..Len(mid) : Inst(i) \notin Operands(code'[mid[k]])
    BY <1>10
  <2> QED
    BY <1>13, <2>1, <2>2, Zenon DEF NoneGone, K
<1>15. TypesAfter
  BY <1>6, <1>13 DEF TypesAfter
<1> QED
  BY <1>7, <1>11, <1>12, <1>14, <1>15, Rewritten

\* The logarithm is a number, and so is what is left to add.
LEMMA Logarithm ==
  ASSUME NEW c \in Int
  PROVE  Log2(c) \in Nat /\ Rounds(c) \in Nat
<1> DEFINE S == {s \in 1..(Width - 1) : 2^s <= c}
<1>1. Width \in Nat
  BY WidthAssumption
<1>2. IsFiniteSet(1..(Width - 1))
  BY <1>1, FS_Interval
<1>3. S \subseteq 1..(Width - 1)
  OBVIOUS
<1> HIDE DEF S
<1>4. Cardinality(S) \in Nat
  BY <1>2, <1>3, FS_Subset, FS_CardinalityType
<1>5. Log2(c) \in Nat
  BY <1>1, <1>4 DEF Log2, S
<1>6. Remainder(c) \in Int
  <2> DEFINE l == Log2(c)
  <2>1. l \in Nat
    BY <1>5
  <2> HIDE DEF l
  <2>2. 2^l \in Int
    BY <2>1
  <2> DEFINE x == 2^l
  <2>3. x \in Int
    BY <2>2
  <2> HIDE DEF x
  <2>4. c - x \in Int
    BY <2>3
  <2> QED
    BY <2>4, Zenon DEF Remainder, l, x
<1>7. Rounds(c) \in Nat
  <2> DEFINE r == Remainder(c)
  <2>1. Rounds(c) = IF r > 0 THEN r ELSE 0
    BY DEF Rounds
  <2> HIDE DEF r
  <2> QED
    BY <1>6, <2>1 DEF r
<1> QED
  BY <1>5, <1>7

\* What an instruction with a constant is made of.
LEMMA ConstantIs ==
  ASSUME NEW e \in Instruction, HasConstant(e)
  PROVE  Constant(e) \in Int /\ VarOperand(e) \in Operands(e) /\ VarOperand(e) \in Value
<1>1. e.lhs \in Value /\ e.rhs \in Value
  BY DEF Instruction
<1>2. ASSUME NEW v \in Value, IsConst(v) PROVE v[2] \in Int
  <2>1. v \in {"const"} \X Int
    BY <1>2 DEF Value, IsConst
  <2> QED
    BY <2>1
<1> QED
  BY <1>1, <1>2 DEF Constant, VarOperand, Operands, HasConstant

\* The instructions put in are instructions, and use nothing but the variable operand,
\* a constant, or the one before.
LEMMA NewIs ==
  ASSUME NEW e \in Instruction, HasConstant(e), code \in Seq(Instruction), NEW k \in Nat
  PROVE  /\ New(e, k) \in Instruction
         /\ \A v \in Operands(New(e, k)) : \/ v \in Operands(e)
                                           \/ v \in Value /\ v[1] # "inst"
                                           \/ k > 0 /\ v = Inst(Len(code) + k)
<1>1. Constant(e) \in Int /\ VarOperand(e) \in Operands(e) /\ VarOperand(e) \in Value
  BY ConstantIs
<1>2. Log2(Constant(e)) \in Nat
  BY <1>1, Logarithm
<1>3. Const(Log2(Constant(e))) \in Value /\ Const(Log2(Constant(e)))[1] # "inst"
  BY <1>2 DEF Const, Value
<1> DEFINE c == Const(Log2(Constant(e)))
           x == VarOperand(e)
<1>4. c \in Value /\ c[1] # "inst" /\ x \in Operands(e) /\ x \in Value
  BY <1>1, <1>3
<1>5. CASE k = 0
  <2> DEFINE op == IF e.op = "mul" THEN "shl" ELSE "ashr"
  <2>2. op \in Opcode
    BY DEF Opcode
  <2>1. New(e, k) = Op(op, x, c)
    BY <1>5, Zenon DEF New
  <2> HIDE DEF c, x, op
  <2> QED
    BY <1>4, <2>1, <2>2 DEF Op, Instruction, Operands
<1>6. CASE k # 0
  <2> DEFINE i == Inst(Len(code) + k)
  <2> DEFINE op == IF e.op = "mul" THEN "add" ELSE "sub"
  <2>4. op \in Opcode
    BY DEF Opcode
  <2>1. New(e, k) = Op(op, i, x)
    BY <1>6, Zenon DEF New
  <2>2. i \in Value /\ k > 0
    <3>1. Len(code) + k \in Nat
      OBVIOUS
    <3> QED
      BY <1>6, <3>1, InstIs
  <2> HIDE DEF c, x, i, op
  <2>3. New(e, k) \in Instruction /\ \A v \in Operands(New(e, k)) : v = i \/ v = x
    BY <1>4, <2>1, <2>2, <2>4 DEF Op, Instruction, Operands
  <2> QED
    BY <1>4, <2>2, <2>3 DEF i
<1> QED
  BY <1>5, <1>6

\* The same of m of them.
LEMMA NewOnes ==
  ASSUME NEW e \in Instruction, HasConstant(e), code \in Seq(Instruction), NEW n \in Nat,
         NEW new, new = [k \in 1..(n + 1) |-> New(e, k - 1)]
  PROVE  new \in Seq(Instruction) /\ Len(new) = n + 1 /\ OperandsOfNew(new, e)
<1>1. ASSUME NEW k \in 1..(n + 1)
      PROVE  /\ New(e, k - 1) \in Instruction
             /\ \A v \in Operands(New(e, k - 1)) : \/ v \in Operands(e)
                                                   \/ v \in Value /\ v[1] # "inst"
                                                   \/ k > 1 /\ v = Inst(Len(code) + (k - 1))
  <2> DEFINE i == k - 1
  <2>1. i \in Nat /\ (i > 0 => k > 1)
    OBVIOUS
  <2> HIDE DEF i
  <2>2. /\ New(e, i) \in Instruction
        /\ \A v \in Operands(New(e, i)) : \/ v \in Operands(e)
                                          \/ v \in Value /\ v[1] # "inst"
                                          \/ i > 0 /\ v = Inst(Len(code) + i)
    BY <2>1, NewIs
  <2> QED
    BY <2>1, <2>2, Zenon DEF i
<1>2. new \in [1..(n + 1) -> Instruction] /\ \A k \in 1..(n + 1) : new[k] = New(e, k - 1)
  BY <1>1
<1>3. new \in Seq(Instruction) /\ Len(new) = n + 1 /\ DOMAIN new = 1..(n + 1)
  BY <1>2
<1>4. OperandsOfNew(new, e)
  BY <1>1, <1>2, <1>3, Zenon DEF OperandsOfNew
<1> QED
  BY <1>3, <1>4

\* The instructions of a strength reduction take the place of the one they compute.
LEMMA StrengthKeeps == OptsInv /\ StrengthReduction => OptsInv'
<1> SUFFICES ASSUME OptsInv, StrengthReduction PROVE OptsInv'
  OBVIOUS
<1> DEFINE e == code[I]
           n == Rounds(Constant(e))
           m == n + 1
           w == Inst(Len(code) + m)
           new == [k \in 1..(n + 1) |-> New(e, k - 1)]
<1>1. AtInstruction /\ Reducible(e)
  BY DEF StrengthReduction, Visits
<1>2. /\ code' = Replace(code, {I}, Inst(Len(code) + n + 1)) \o new
      /\ ReplaceResult({I}, Inst(Len(code) + n + 1))
      /\ Forward(n + 1)
      /\ lossy' = lossy \cup (IF e.op \in Divisions /\ ~Exact(e) THEN {"division"} ELSE {})
                        \cup (IF Constant(e) = 0 THEN {"zero"} ELSE {})
      /\ UNCHANGED <<prog, passes, toDelete, erased, status>>
  BY Zenon DEF StrengthReduction
<1>3. body' = [body EXCEPT ![Block] = SubSeq(@, 1, at[2] - 1) \o [k \in 1..(n + 1) |-> Len(code) + k]
                                       \o SubSeq(@, at[2] + 1, Len(@))]
  BY Zenon DEF StrengthReduction
<1>4. body' = Edit(body, Block, at[2], 1, Names(m))
  <2>1. body' = [body EXCEPT ![Block] = SubSeq(body[Block], 1, at[2] - 1) \o Names(m)
                                          \o SubSeq(body[Block], at[2] + 1, Len(body[Block]))]
    BY <1>3 DEF Names
  <2> QED
    BY <2>1, Zenon DEF Edit, Splice
<1>5. I \in DOMAIN code /\ e \in Instruction /\ at[2] \in Nat /\ code \in Seq(Instruction)
  <2>1. I \in DOMAIN code /\ e \in Instruction
    BY <1>1, HereIs
  <2> QED
    BY <2>1 DEF OptsInv
<1>6. n \in Nat
  <2>1. Constant(e) \in Int
    BY <1>1, <1>5, ConstantIs DEF Reducible
  <2> QED
    BY <2>1, Logarithm
<1>7. HasConstant(e)
  BY <1>1 DEF Reducible
<1>8. at' \in (Nat \ {0}) \X (Nat \ {0})
  <2>1. at[1] \in Nat \ {0} /\ at[2] \in Nat \ {0} /\ at' = <<at[1], at[2] + (n + 1)>>
    BY <1>2 DEF OptsInv, Forward
  <2> HIDE DEF n
  <2>2. at[2] + (n + 1) \in Nat \ {0}
    BY <1>6, <2>1
  <2> QED
    BY <2>1, <2>2
<1>9. lossy' \subseteq {"one", "division", "zero", "reversed"}
  BY <1>2 DEF OptsInv
<1> HIDE DEF n, new, e
<1>10. new \in Seq(Instruction) /\ Len(new) = m /\ OperandsOfNew(new, e)
  BY <1>5, <1>6, <1>7, NewOnes DEF new
<1>11. Len(code) + n + 1 = Len(code) + m /\ m \in Nat \ {0}
  BY <1>5, <1>6
<1>12. code' = Grown(I, w, new) /\ ReplaceResult({I}, w)
  BY <1>2, <1>11 DEF Grown
<1>13. EditsAt(at[2], 1)
  BY <1>5 DEF EditsAt
<1> HIDE DEF m, w
<1>14. w = Inst(Len(code) + m) /\ OperandsOfNew(new, code[I]) /\ m \in Nat \ {0}
  BY <1>10, <1>11 DEF w, e, m
<1>15. UNCHANGED <<prog, passes, toDelete, erased, status>>
  BY <1>2
<1> QED
  BY <1>1, <1>4, <1>8, <1>9, <1>10, <1>12, <1>13, <1>14, <1>15, Substituted, Zenon

\* The shift of the lab's pass stands behind the multiplication it computes.
LEMMA LocalKeeps == OptsInv /\ LocalOpts => OptsInv'
<1> SUFFICES ASSUME OptsInv, LocalOpts PROVE OptsInv'
  OBVIOUS
<1> DEFINE e == code[I]
           new == <<New(e, 0)>>
           Shifts == e.op = "mul" /\ (IsConst(e.lhs) # IsConst(e.rhs)) /\ PowerOfTwo(Constant(e))
<1>1. AtInstruction /\ Forward(1) /\ UNCHANGED <<prog, passes, toDelete, erased, lossy, status>>
  BY DEF LocalOpts, Visits
<1>2. /\ I \in DOMAIN code /\ e \in Instruction /\ code \in Seq(Instruction) /\ at[2] \in Nat \ {0} /\ at[1] \in Nat \ {0}
      /\ body[Block] \in Seq(Nat) /\ at[2] \in 1..Len(body[Block])
  <2>1. I \in DOMAIN code /\ e \in Instruction /\ body[Block] \in Seq(Nat) /\ at[2] \in 1..Len(body[Block])
    BY <1>1, HereIs
  <2> QED
    BY <2>1 DEF OptsInv
<1>3. at' \in (Nat \ {0}) \X (Nat \ {0})
  BY <1>1, <1>2 DEF Forward
<1>4. lossy' \subseteq {"one", "division", "zero", "reversed"}
  BY <1>1 DEF OptsInv
<1>5. CASE Shifts
  <2> DEFINE w == Inst(Len(code) + 1)
  <2>1. /\ code' = Append(Replace(code, {I}, w), New(e, 0)) /\ ReplaceResult({I}, w)
        /\ body' = [body EXCEPT ![Block] = InsertAt(@, at[2] + 1, Len(code) + 1)]
    BY <1>5, Zenon DEF LocalOpts
  <2>2. HasConstant(e)
    <3>1. IsConst(e.lhs) # IsConst(e.rhs)
      BY <1>5
    <3>2. IsConst(e.lhs) \in BOOLEAN /\ IsConst(e.rhs) \in BOOLEAN
      BY DEF IsConst
    <3> QED
      BY <3>1, <3>2 DEF HasConstant
  <2>3. New(e, 0) \in Instruction /\ OperandsOfNew(new, e)
    <3>1. /\ New(e, 0) \in Instruction
          /\ \A v \in Operands(New(e, 0)) : \/ v \in Operands(e)
                                            \/ v \in Value /\ v[1] # "inst"
                                            \/ 0 > 0 /\ v = Inst(Len(code) + 0)
      BY <1>2, <2>2, NewIs
    <3>2. DOMAIN new = {1} /\ new[1] = New(e, 0) /\ ~(0 > 0)
      OBVIOUS
    <3> HIDE DEF new, e
    <3> QED
      BY <3>1, <3>2, Zenon DEF OperandsOfNew
  <2>4. new \in Seq(Instruction) /\ Len(new) = 1
    BY <2>3
  <2>5. code' = Grown(I, w, new)
    <3> DEFINE d == Replace(code, {I}, w)
               x == New(e, 0)
    <3>1. w \in Value
      <4>1. Len(code) + 1 \in Nat
        BY <1>2
      <4> QED
        BY <4>1, InstIs
    <3>2. d \in Seq(Instruction)
      BY <1>2, <3>1, ReplaceProperties
    <3>3. x \in Instruction
      BY <2>3
    <3> HIDE DEF d, x
    <3>4. Append(d, x) = d \o <<x>>
      BY <3>2, <3>3
    <3> QED
      BY <2>1, <3>4 DEF Grown, d, x
  <2>6. Names(1) = <<Len(code) + 1>>
    <3>1. 1..1 = {1}
      OBVIOUS
    <3> QED
      BY <3>1 DEF Names
  <2>7. body' = Edit(body, Block, at[2] + 1, 0, Names(1))
    <3> DEFINE j == at[2] + 1
               k == Len(code) + 1
    <3>1. j + 0 = j
      BY <1>2
    <3> HIDE DEF j
    <3>2. body' = [body EXCEPT ![Block] = InsertAt(body[Block], j, k)]
      BY <2>1 DEF j
    <3> HIDE DEF k
    <3>3. InsertAt(body[Block], j, k) = SubSeq(body[Block], 1, j - 1) \o <<k>> \o SubSeq(body[Block], j, Len(body[Block]))
      BY Zenon DEF InsertAt
    <3>4. Splice(body[Block], j - 1, Names(1), j + 0) =
            SubSeq(body[Block], 1, j - 1) \o <<k>> \o SubSeq(body[Block], j, Len(body[Block]))
      BY <2>6, <3>1, Zenon DEF Splice, k
    <3>5. body' = [body EXCEPT ![Block] = Splice(body[Block], j - 1, Names(1), j + 0)]
      BY <3>2, <3>3, <3>4, Zenon
    <3>6. body' = Edit(body, Block, j, 0, Names(1))
      BY <3>5, Zenon DEF Edit
    <3> QED
      BY <3>6, Zenon DEF j
  <2>8. EditsAt(at[2] + 1, 0)
    BY <1>2 DEF EditsAt
  <2>9. UNCHANGED <<prog, passes, toDelete, erased, status>>
    BY <1>1
  <2>10. w = Inst(Len(code) + 1) /\ 1 \in Nat \ {0} /\ ReplaceResult({I}, w) /\ OperandsOfNew(new, code[I])
    BY <2>1, <2>3
  <2> HIDE DEF w, new
  <2> QED
    BY <1>1, <1>3, <1>4, <2>4, <2>5, <2>7, <2>8, <2>9, <2>10, Substituted, Zenon
<1>6. CASE ~Shifts
  <2>1. UNCHANGED <<code, result, body>>
    BY <1>6, Zenon DEF LocalOpts
  <2> QED
    BY <1>1, <1>3, <2>1 DEF OptsInv, Gone, Unused, InOrder, Places, StandsAhead, At
<1> QED
  BY <1>5, <1>6

\* The elements of a finite set, one after the other.
LEMMA SetToSeqIs ==
  ASSUME NEW S, IsFiniteSet(S), S \subseteq Nat
  PROVE  SetToSeq(S) \in Seq(Nat) /\ ToSet(SetToSeq(S)) \subseteq S
<1> DEFINE n == Cardinality(S)
           f == SetToSeq(S)
<1>1. n \in Nat /\ ExistsBijection(1..n, S)
  BY FS_CardinalityType
<1>2. \E g \in [1..n -> S] : IsInjective(g)
  BY <1>1, Zenon DEF ExistsBijection, Bijection, Injection
<1>3. f \in [1..n -> S]
  BY <1>2, Zenon DEF SetToSeq
<1> HIDE DEF f, n
<1>4. f \in Seq(Nat)
  <2>1. f \in [1..n -> Nat]
    BY <1>3
  <2> QED
    BY <1>1, <2>1
<1>5. ToSet(f) \subseteq S
  BY <1>3 DEF ToSet
<1> QED
  BY <1>4, <1>5, Zenon DEF f

\* The elements of two sequences, one behind the other.
LEMMA ToSetConcat ==
  ASSUME NEW s \in Seq(Nat), NEW t \in Seq(Nat)
  PROVE  s \o t \in Seq(Nat) /\ ToSet(s \o t) \subseteq ToSet(s) \cup ToSet(t)
<1> DEFINE u == s \o t
<1>1. Len(s) \in Nat /\ Len(t) \in Nat /\ DOMAIN s = 1..Len(s) /\ DOMAIN t = 1..Len(t)
  OBVIOUS
<1>2. u \in Seq(Nat) /\ Len(u) = Len(s) + Len(t)
  BY ConcatProperties
<1>3. \A k \in 1..(Len(s) + Len(t)) : u[k] = IF k <= Len(s) THEN s[k] ELSE t[k - Len(s)]
  BY ConcatProperties
<1> HIDE DEF u
<1>4. ASSUME NEW k \in DOMAIN u PROVE u[k] \in ToSet(s) \cup ToSet(t)
  <2>1. k \in 1..(Len(s) + Len(t))
    BY <1>2
  <2>2. CASE k <= Len(s)
    <3>1. k \in DOMAIN s
      BY <1>1, <2>1, <2>2
    <3> QED
      BY <1>3, <2>1, <2>2, <3>1 DEF ToSet
  <2>3. CASE ~(k <= Len(s))
    <3>1. k - Len(s) \in DOMAIN t
      BY <1>1, <2>1, <2>3
    <3> QED
      BY <1>3, <2>1, <2>3, <3>1 DEF ToSet
  <2> QED
    BY <2>2, <2>3
<1>5. ToSet(u) \subseteq ToSet(s) \cup ToSet(t)
  BY <1>4 DEF ToSet
<1> QED
  BY <1>2, <1>5 DEF u

\* What is left of a sequence when the first is taken off.
LEMMA TailIs ==
  ASSUME NEW s \in Seq(Nat), s # <<>>
  PROVE  Tail(s) \in Seq(Nat) /\ Head(s) \in Nat /\ Head(s) \in ToSet(s) /\ ToSet(Tail(s)) \subseteq ToSet(s)
<1>1. Len(s) \in Nat /\ Len(s) > 0 /\ DOMAIN s = 1..Len(s) /\ Head(s) = s[1]
  BY EmptySeq
<1>2. Tail(s) \in Seq(Nat) /\ Len(Tail(s)) = Len(s) - 1 /\ \A k \in 1..(Len(s) - 1) : Tail(s)[k] = s[k + 1]
  BY <1>1
<1>3. Head(s) \in ToSet(s) /\ Head(s) \in Nat
  BY <1>1 DEF ToSet
<1>4. ASSUME NEW k \in DOMAIN Tail(s) PROVE Tail(s)[k] \in ToSet(s)
  <2>1. k \in 1..(Len(s) - 1)
    BY <1>2
  <2>2. k + 1 \in DOMAIN s
    BY <1>1, <2>1
  <2> QED
    BY <1>2, <2>1, <2>2 DEF ToSet
<1>5. ToSet(Tail(s)) \subseteq ToSet(s)
  BY <1>4 DEF ToSet
<1> QED
  BY <1>2, <1>3, <1>5

\* The users that undo the instruction stand behind it, so its operand is none of them.
LEMMA MultiKeeps == OptsInv /\ MultiInstruction => OptsInv'
<1> SUFFICES ASSUME OptsInv, MultiInstruction PROVE OptsInv'
  OBVIOUS
<1> DEFINE e == code[I]
           w == VarOperand(e)
           gone == IF e.op \in {"add", "sub"} /\ HasConstant(e) THEN Undoing ELSE {}
<1>1. /\ AtInstruction /\ passes # <<>> /\ Head(passes) = "multi-instruction-pass"
      /\ code' = Replace(code, gone, w) /\ ReplaceResult(gone, w)
      /\ toDelete' = toDelete \o SetToSeq(gone)
      /\ lossy' \in {lossy, lossy \cup {"reversed"}}
      /\ Forward(1)
      /\ UNCHANGED <<prog, body, passes, erased, status>>
  BY DEF MultiInstruction, Visits, Running
<1>2. /\ Here \in Places(body) /\ At(body, Here) = I /\ I \in DOMAIN code /\ I \in Nat /\ e \in Instruction
      /\ \A v \in Operands(e) :
           v \in Value /\ StandsAhead(v, body, Here) /\ \A i \in Gone : v # Inst(i)
  BY <1>1, HereIs
<1>3. /\ body \in Seq(Seq(Nat)) /\ code \in Seq(Instruction) /\ toDelete \in Seq(Nat) /\ Gone \subseteq DOMAIN code
      /\ \A p, q \in Places(body) : At(body, p) = At(body, q) => p = q
      /\ \A p \in Places(body) : /\ At(body, p) \in DOMAIN code
                                 /\ \A v \in Operands(code[At(body, p)]) : StandsAhead(v, body, p)
  BY DEF OptsInv, InOrder
<1>4. w \in Value /\ StandsAhead(w, body, Here) /\ \A i \in Gone : w # Inst(i)
  <2>1. w \in Operands(e)
    BY DEF VarOperand, Operands
  <2> QED
    BY <1>2, <2>1
<1>5. gone \subseteq DOMAIN code /\ \A g \in gone : Inst(I) \in Operands(code[g])
  BY DEF Undoing, UsersOf
<1> HIDE DEF gone, w, e
<1>6. ASSUME NEW g \in gone, NEW p \in Places(body), At(body, p) = g
      PROVE  Ahead(Here, p)
  <2>1. StandsAhead(Inst(I), body, p)
    BY <1>3, <1>5, <1>6
  <2>2. PICK r \in Places(body) : Ahead(r, p) /\ At(body, r) = I
    BY <2>1, InstIs DEF StandsAhead
  <2>3. r = Here
    BY <1>2, <1>3, <2>2
  <2> QED
    BY <2>2, <2>3
<1>7. ASSUME NEW g \in gone, w = Inst(g) PROVE FALSE
  <2>1. PICK r \in Places(body) : Ahead(r, Here) /\ At(body, r) = g
    BY <1>4, <1>7, InstIs DEF StandsAhead
  <2>2. Ahead(Here, r)
    BY <1>6, <2>1
  <2> QED
    BY <1>2, <1>3, <2>1, <2>2, AheadIsOrder
<1>8. /\ code' \in Seq(Instruction) /\ DOMAIN code' = DOMAIN code
      /\ \A k \in DOMAIN code : \A v \in Operands(code'[k]) :
           \/ v \in Operands(code[k]) /\ \A i \in gone : v # Inst(i)
           \/ v = w /\ \E i \in gone : Inst(i) \in Operands(code[k])
  BY <1>1, <1>3, <1>4, ReplaceProperties
<1>9. ASSUME NEW p \in Places(body), NEW v \in Operands(code'[At(body, p)])
      PROVE  StandsAhead(v, body, p) /\ (\A i \in Gone : v # Inst(i)) /\ (\A i \in gone : v # Inst(i))
  <2> DEFINE k == At(body, p)
  <2>1. k \in DOMAIN code
    BY <1>3
  <2>2. CASE v \in Operands(code[k]) /\ \A i \in gone : v # Inst(i)
    <3>1. \A i \in Gone : v # Inst(i)
      BY <2>2 DEF OptsInv, Unused
    <3> QED
      BY <1>3, <2>2, <3>1
  <2>3. CASE v = w /\ \E i \in gone : Inst(i) \in Operands(code[k])
    <3>1. PICK g \in gone : Inst(g) \in Operands(code[k])
      BY <2>3
    <3>2. StandsAhead(Inst(g), body, p)
      BY <1>3, <3>1
    <3>3. PICK r \in Places(body) : Ahead(r, p) /\ At(body, r) = g
      BY <3>2, InstIs DEF StandsAhead
    <3>4. Ahead(Here, r)
      BY <1>6, <3>3
    <3>5. ASSUME NEW q \in Places(body), Ahead(q, Here) PROVE Ahead(q, p)
      <4>1. Ahead(q, r)
        BY <1>2, <1>3, <3>4, <3>5, AheadIsOrder
      <4> QED
        BY <1>3, <3>3, <4>1, AheadIsOrder
    <3>6. StandsAhead(w, body, p)
      BY <1>4, <3>5 DEF StandsAhead
    <3> QED
      BY <1>4, <1>7, <2>3, <3>6
  <2> HIDE DEF k
  <2>4. v \in Operands(code'[k])
    BY DEF k
  <2> QED
    BY <1>8, <2>1, <2>2, <2>3, <2>4
<1>10. InOrder(code', body')
  <2>1. body' = body
    BY <1>1
  <2> QED
    BY <1>3, <1>8, <1>9, <2>1 DEF InOrder
<1>11. toDelete' \in Seq(Nat) /\ ToSet(toDelete') \subseteq ToSet(toDelete) \cup gone
  <2>1. gone \subseteq Nat /\ DOMAIN code = 1..Len(code) /\ Len(code) \in Nat
    BY <1>3, <1>5
  <2>2. IsFiniteSet(gone)
    <3>1. IsFiniteSet(1..Len(code))
      BY <2>1, FS_Interval
    <3>2. gone \subseteq 1..Len(code)
      BY <1>5, <2>1, Zenon
    <3> QED
      BY <3>1, <3>2, FS_Subset
  <2>3. SetToSeq(gone) \in Seq(Nat) /\ ToSet(SetToSeq(gone)) \subseteq gone
    BY <2>1, <2>2, SetToSeqIs
  <2> QED
    BY <1>1, <1>3, <2>3, ToSetConcat
<1>12. Gone' \subseteq Gone \cup gone
  BY <1>1, <1>11 DEF Gone
<1>13. Unused(Gone)'
  <2>1. result' \in Value /\ (\A i \in Gone : result' # Inst(i)) /\ (\A i \in gone : result' # Inst(i) \/ w = Inst(i))
    BY <1>1, <1>4, ResultAfter
  <2>2. \A i \in Gone \cup gone : result' # Inst(i)
    BY <1>7, <2>1
  <2>3. \A i \in Gone \cup gone : \A p \in Places(body') : Inst(i) \notin Operands(code'[At(body', p)])
    BY <1>1, <1>9
  <2> QED
    BY <1>12, <2>2, <2>3 DEF Unused
<1>14. result' \in Value
  BY <1>1, <1>4, ResultAfter
<1>15. at' \in (Nat \ {0}) \X (Nat \ {0})
  BY <1>1 DEF OptsInv, Forward
<1>16. Gone' \subseteq DOMAIN code'
  BY <1>3, <1>5, <1>8, <1>12
<1>17. \A p \in Places(body') : At(body', p) \notin erased'
  BY <1>1 DEF OptsInv
<1> QED
  BY <1>1, <1>8, <1>10, <1>11, <1>13, <1>14, <1>15, <1>16, <1>17 DEF OptsInv

\* What is erased is used by nothing that stays.
LEMMA EraseKeeps == OptsInv /\ Erase => OptsInv'
<1> SUFFICES ASSUME OptsInv, Erase PROVE OptsInv'
  OBVIOUS
<1> DEFINE h == Head(toDelete)
<1>1. PICK p \in Places(body) : At(body, p) = h /\ body' = [body EXCEPT ![p[1]] = RemoveAt(@, p[2])]
  BY DEF Erase
<1>2. /\ toDelete # <<>> /\ erased' = erased \cup {h} /\ toDelete' = Tail(toDelete)
      /\ UNCHANGED <<prog, code, result, passes, at, lossy, status>>
  BY DEF Erase
<1>3. /\ body \in Seq(Seq(Nat)) /\ code \in Seq(Instruction) /\ toDelete \in Seq(Nat) /\ InOrder(code, body)
      /\ \A q, r \in Places(body) : At(body, q) = At(body, r) => q = r
      /\ \A q \in Places(body) : /\ At(body, q) \in DOMAIN code /\ At(body, q) \notin erased
                                 /\ \A v \in Operands(code[At(body, q)]) : StandsAhead(v, body, q)
  BY DEF OptsInv, InOrder
<1>4. toDelete' \in Seq(Nat) /\ h \in Gone /\ Gone' \subseteq Gone
  BY <1>2, <1>3, TailIs DEF Gone
<1> DEFINE b == p[1]
           j == p[2]
           K == Kept(body, b, j, 1)
<1>5. b \in DOMAIN body /\ j \in 1..Len(body[b]) /\ p = <<b, j>>
  BY <1>3, PlaceNumbers
<1>6. body' = Edit(body, b, j, 1, <<>>) /\ Room(body, b, j, 1, <<>>)
  BY <1>1, <1>3, <1>5, RemoveIsEdit
<1>7. \A q \in K : q \in Places(body) /\ q # p
  BY <1>5 DEF Kept
<1>8. \A q \in Places(body) : q # p => q \in K
  BY <1>5 DEF Kept
<1> HIDE DEF b, j, K
<1>9. Len(<<>>) = 0 /\ 1..0 = {}
  OBVIOUS
<1>10. ASSUME NEW q \in K, NEW v \in Operands(code[At(body, q)]), v[1] = "inst"
       PROVE  \E r \in K : Ahead(r, q) /\ At(body, r) = v[2]
  <2>1. StandsAhead(v, body, q)
    BY <1>3, <1>7
  <2>2. PICK r \in Places(body) : Ahead(r, q) /\ At(body, r) = v[2]
    BY <1>10, <2>1 DEF StandsAhead
  <2>3. v # Inst(h)
    BY <1>4, <1>7 DEF OptsInv, Unused
  <2>4. v \in Value
    <3>1. At(body, q) \in DOMAIN code
      BY <1>3, <1>7
    <3>2. code[At(body, q)] \in Instruction
      BY <1>3, <3>1
    <3> QED
      BY <3>2 DEF Operands, Instruction
  <2>5. v[2] # h
    BY <1>10, <2>3, <2>4, InstIs
  <2>6. r # p
    BY <1>1, <2>2, <2>5
  <2> QED
    BY <1>8, <2>2, <2>6
<1>11. OperandsFit(code, body, b, j, 1, <<>>)
  BY <1>9, <1>10, Zenon DEF OperandsFit, K
<1>12. AreNew(body, b, j, 1, <<>>)
  BY <1>9, Zenon DEF AreNew
<1>13. InOrder(code', body')
  <2>1. InOrder(code, body')
    BY <1>3, <1>6, <1>9, <1>11, <1>12, EditKeepsOrder
  <2> QED
    BY <1>2, <2>1
<1>14. IsEdit(body', body, b, j, 1, <<>>)
  BY <1>3, <1>6, EditIs
<1>15. ASSUME NEW q \in Places(body') PROVE \E r \in K : At(body', q) = At(body, r)
  <2>1. \/ \E r \in K : At(body', q) = At(body, r)
        \/ \E k \in 1..Len(<<>>) : q = <<b, j - 1 + k>>
    BY <1>14, <1>15, Zenon DEF IsEdit, K
  <2> QED
    BY <1>9, <2>1
<1>16. \A q \in Places(body') : At(body', q) \notin erased'
  <2>1. \A r \in K : At(body, r) # h /\ At(body, r) \notin erased
    BY <1>1, <1>3, <1>7
  <2> QED
    BY <1>2, <1>15, <2>1
<1>17. Unused(Gone)'
  <2> SUFFICES ASSUME NEW i \in Gone'
               PROVE  result' # Inst(i) /\ \A q \in Places(body') : Inst(i) \notin Operands(code'[At(body', q)])
    BY DEF Unused
  <2>1. i \in Gone
    BY <1>4
  <2>2. result # Inst(i) /\ \A r \in Places(body) : Inst(i) \notin Operands(code[At(body, r)])
    BY <2>1 DEF OptsInv, Unused
  <2> QED
    BY <1>2, <1>7, <1>15, <2>2
<1>18. body' \in Seq(Seq(Nat)) /\ DOMAIN body' = DOMAIN body
  BY <1>14, Zenon DEF IsEdit
<1> QED
  BY <1>2, <1>4, <1>13, <1>16, <1>17, <1>18 DEF OptsInv

\* The steps that only go on.
LEMMA OthersKeep ==
  OptsInv /\ (AlgIdentityNone \/ StrengthNone \/ NextBlock \/ EraseFails \/ EndPass \/ Finish
              \/ UNCHANGED vars) => OptsInv'
<1> SUFFICES ASSUME OptsInv, \/ AlgIdentityNone \/ StrengthNone \/ NextBlock
                             \/ EraseFails \/ EndPass \/ Finish \/ UNCHANGED vars
             PROVE  OptsInv'
  OBVIOUS
<1>1. at[1] \in Nat \ {0} /\ at[2] \in Nat \ {0}
  BY DEF OptsInv
<1>2. at' \in (Nat \ {0}) \X (Nat \ {0})
  BY <1>1 DEF OptsInv, AlgIdentityNone, StrengthNone, NextBlock, EraseFails, EndPass, Finish, Forward, vars
<1>3. UNCHANGED <<prog, code, body, result, toDelete, erased, lossy>>
  BY DEF AlgIdentityNone, StrengthNone, NextBlock, EraseFails, EndPass, Finish, vars
<1>4. passes' = passes \/ (passes # <<>> /\ toDelete = <<>> /\ passes' = Tail(passes))
  BY DEF AlgIdentityNone, StrengthNone, NextBlock, EraseFails, EndPass, PassOver, Finish, vars
<1>5. passes' \in Seq(STRING) /\ (toDelete' # <<>> => passes' # <<>> /\ Head(passes') = "multi-instruction-pass")
  <2>1. passes \in Seq(STRING) /\ (toDelete # <<>> => passes # <<>> /\ Head(passes) = "multi-instruction-pass")
    BY DEF OptsInv
  <2>2. CASE passes' = passes
    BY <1>3, <2>1, <2>2
  <2>3. CASE passes # <<>> /\ toDelete = <<>> /\ passes' = Tail(passes)
    <3>1. Tail(passes) \in Seq(STRING)
      BY <2>1, <2>3
    <3> QED
      BY <1>3, <2>3, <3>1
  <2> QED
    BY <1>4, <2>2, <2>3
<1>6. status' \in {"running", "done", "crashed"}
  BY DEF OptsInv, AlgIdentityNone, StrengthNone, NextBlock, EraseFails, EndPass, Finish, vars
<1>7. Gone' = Gone /\ Unused(Gone)' /\ InOrder(code', body') /\ \A p \in Places(body') : At(body', p) \notin erased'
  BY <1>3 DEF OptsInv, Gone, Unused
<1> QED
  BY <1>2, <1>3, <1>5, <1>6, <1>7 DEF OptsInv

-----------------------------------------------------------------------------
\* What is gone stays unused and everything uses what stands before it, whichever passes
\* run, over whichever function.
LEMMA OptsInvariant == Spec => []OptsInv
<1>1. Init => OptsInv
  BY InitOpts
<1>2. OptsInv /\ [Next]_vars => OptsInv'
  BY IdentityKeeps, StrengthKeeps, LocalKeeps, MultiKeeps, EraseKeeps, OthersKeep DEF Next
<1> QED
  BY <1>1, <1>2, PTL DEF Spec

\* ErasedUnused for all programs: an instruction that is saved to be erased, or erased, is
\* neither used in the function nor its result (replaceAllUsesWith() before
\* eraseFromParent(), assignment1.cpp:327-349), no instruction stands twice, and each stands
\* behind those it uses, however the passes rewrite the function one after the other.
THEOREM ErasedAreUnused == Spec => []ErasedUnused
<1>1. OptsInv => ErasedUnused
  BY InvIsUnused
<1> QED
  BY <1>1, OptsInvariant, PTL
================================================================================
