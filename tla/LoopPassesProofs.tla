--------------------------- MODULE LoopPassesProofs ---------------------------
(***************************************************************************)
(* What loop-invariant code motion keeps, for every function in SSA form   *)
(* with any number of loops, and that loop fusion takes no loop twice.     *)
(***************************************************************************)
EXTENDS LICM, LoopFusion, TLAPS, SequenceTheorems, FiniteSetTheorems, WellFoundedInduction

Orig(i) == Holds(prog.code, i)
InFront(c, o, i) == Holds(c, o) = Holds(c, i) /\ Position(c, o) < Position(c, i)

\* The operands that findLIInstr() looks at.
Local(o) == Orig(o) \in LoopBlocks(L) \ L.inner

Injective(s) == \A j, k \in DOMAIN s : s[j] = s[k] => j = k

\* What has moved, is in the preheader of its top-level loop.
InPreheaders ==
  \A i \in Moved : \E l \in 1..loop :
    /\ l \in DOMAIN prog.loops /\ prog.loops[l].simplified
    /\ Orig(i) \in LoopBlocks(prog.loops[l]) /\ Parent(i) = prog.loops[l].preheader
    /\ l = loop => pc = "hoist" /\ i \in ToSet(hoistable)

\* The operands of an invariant that are looked at were found before it.
Found ==
  /\ invariant \in Seq(Instructions) /\ Injective(invariant)
  /\ \A k \in DOMAIN invariant :
       /\ Orig(invariant[k]) \in LoopBlocks(L)
       /\ \A o \in prog.uses[invariant[k]] : Local(o) => \E j \in 1..(k - 1) : invariant[j] = o

\* The hoistable ones keep that order.
ChosenInOrder ==
  /\ hoistable \in Seq(Instructions) /\ Injective(hoistable)
  /\ ToSet(hoistable) \subseteq ToSet(invariant)
  /\ \A k \in DOMAIN hoistable : \A o \in prog.uses[hoistable[k]] :
       Local(o) /\ o \in ToSet(hoistable) => \E j \in 1..(k - 1) : hoistable[j] = o

\* The visit has passed the blocks other than node, and no block that node
\* dominates; of the hoistable instructions of node it has passed the first ones.
Passed(k) == \/ Orig(hoistable[k]) \in visited \ {node}
             \/ Orig(hoistable[k]) = node /\ k < at
Visit ==
  /\ visited \subseteq Blocks /\ node \in visited \cup {None}
  /\ node = None => at > Len(hoistable)
  /\ \A b \in visited : \A a \in Blocks : Dominates(a, b) => a \in visited
  /\ \A b \in visited \ {node} : ~Dominates(node, b)
  /\ \A k \in DOMAIN hoistable : hoistable[k] \in Moved <=> Passed(k)

\* The order of what has not moved is kept, and it stands in front of the rest.
Kept ==
  /\ \A i, o \in Instructions \ Moved : InFront(prog.code, o, i) => InFront(code, o, i)
  /\ \A i \in Moved, o \in Instructions \ Moved : Parent(o) = Parent(i) => InFront(code, o, i)

LInv ==
  /\ prog \in Programs
  /\ DOMAIN code = Blocks /\ EachOnce(code, Instructions)
  /\ loop \in 1..(Len(prog.loops) + 1) /\ at \in Nat \ {0}
  /\ \/ pc \in {"loops", "done"} /\ invariant = <<>> /\ hoistable = <<>>
     \/ /\ pc \in {"scan", "choose", "hoist"} /\ loop \in DOMAIN prog.loops /\ L.simplified
        /\ Found /\ ChosenInOrder
  /\ pc = "scan" => hoistable = <<>>
  /\ pc = "choose" => ToSet(hoistable) \subseteq {invariant[j] : j \in {k \in DOMAIN invariant : k < at}}
  /\ IF pc = "hoist" THEN Visit ELSE node = None
  /\ InPreheaders /\ Kept /\ HoistedInOrder
-----------------------------------------------------------------------------
(* Sequences. *)

\* A set of naturals that is not empty has a least member.
LEMMA LeastNumber ==
  ASSUME NEW T, T \subseteq Nat, T # {}
  PROVE  \E x \in T : \A y \in T : ~(y < x)
<1>1. \E x \in T : \A y \in T : ~(<<y, x>> \in OpToRel(<, Nat))
  BY NatLessThanWellFounded, WFMin
<1> QED
  BY <1>1 DEF OpToRel

\* The recursion in FlattenSeq.
FlatStep(seqs, f, i) == IF i = 1 THEN seqs[i] ELSE f[i - 1] \o seqs[i]

\* It defines a function.
LEMMA FlatExists ==
  ASSUME NEW N \in Nat, NEW seqs
  PROVE  \E f : f = [i \in 1..N |-> FlatStep(seqs, f, i)]
<1> DEFINE UpTo(f, m) == \A i \in 1..m : f[i] = FlatStep(seqs, f, i)
           Fun(f) == f = [i \in 1..N |-> f[i]]
           Bad == {m \in 0..N : ~ \E f : Fun(f) /\ UpTo(f, m)}
<1>1. ASSUME Bad # {} PROVE FALSE
  <2>1. Bad \subseteq Nat
    OBVIOUS
  <2>2. PICK m \in Bad : \A y \in Bad : ~(y < m)
    BY <1>1, <2>1, LeastNumber
  <2>3. m \in 0..N /\ ~ \E f : Fun(f) /\ UpTo(f, m)
    BY <2>2
  <2>4. CASE m = 0
    <3> DEFINE f == [i \in 1..N |-> 0]
    <3>1. Fun(f) /\ UpTo(f, 0)
      OBVIOUS
    <3> QED
      BY <2>3, <2>4, <3>1
  <2>5. CASE m # 0
    <3>1. m - 1 \in 0..N /\ m - 1 < m /\ m \in Nat
      BY <2>3, <2>5
    <3>2. m - 1 \notin Bad
      BY <2>2, <3>1
    <3>3. PICK f : Fun(f) /\ UpTo(f, m - 1)
      BY <3>1, <3>2
    <3> DEFINE g == [f EXCEPT ![m] = FlatStep(seqs, f, m)]
    <3>4. DOMAIN f = 1..N
      BY <3>3
    <3>5. g[m] = FlatStep(seqs, f, m) /\ \A i \in 1..N : i # m => g[i] = f[i]
      BY <3>4, <2>3, <2>5
    <3>6. Fun(g)
      BY <3>4
    <3> HIDE DEF g
    <3>7. ASSUME NEW i \in 1..m PROVE g[i] = FlatStep(seqs, g, i)
      <4>1. i \in 1..N /\ (i # 1 => i - 1 \in 1..N /\ i - 1 # m)
        BY <2>3, <3>1
      <4>2. FlatStep(seqs, g, i) = FlatStep(seqs, f, i)
        BY <3>5, <4>1 DEF FlatStep
      <4>3. CASE i = m
        BY <3>5, <4>2, <4>3
      <4>4. CASE i # m
        <5>1. i \in 1..(m - 1)
          BY <3>1, <4>4
        <5> QED
          BY <3>3, <3>5, <4>1, <4>2, <4>4, <5>1
      <4> QED
        BY <4>3, <4>4
    <3> QED
      BY <2>3, <3>6, <3>7
  <2> QED
    BY <2>4, <2>5
<1>2. PICK f : Fun(f) /\ UpTo(f, N)
  <2>1. N \in 0..N
    OBVIOUS
  <2> HIDE DEF Fun, UpTo
  <2> QED
    BY <1>1, <2>1
<1>3. [i \in 1..N |-> f[i]] = [i \in 1..N |-> FlatStep(seqs, f, i)]
  BY <1>2
<1> QED
  BY <1>2, <1>3

\* What FlattenSeq() strings together comes from one of the sequences.
LEMMA FlattenRange ==
  ASSUME NEW S, NEW seqs \in Seq(Seq(S))
  PROVE  /\ FlattenSeq(seqs) \in Seq(S)
         /\ \A k \in DOMAIN FlattenSeq(seqs) :
              \E j \in DOMAIN seqs : FlattenSeq(seqs)[k] \in ToSet(seqs[j])
<1> DEFINE N == Len(seqs)
           C == CHOOSE f : f = [i \in 1..N |-> IF i = 1 THEN seqs[i] ELSE f[i - 1] \o seqs[i]]
           Good(s) == s \in Seq(S) /\ \A k \in DOMAIN s : \E j \in DOMAIN seqs : s[k] \in ToSet(seqs[j])
<1>1. N \in Nat /\ DOMAIN seqs = 1..N /\ \A i \in 1..N : seqs[i] \in Seq(S)
  BY ElementOfSeq
<1>2. CASE N = 0
  <2>1. FlattenSeq(seqs) = seqs /\ DOMAIN seqs = {}
    BY <1>1, <1>2 DEF FlattenSeq
  <2>2. seqs = <<>>
    BY <1>2, EmptySeq
  <2>3. FlattenSeq(seqs) \in Seq(S)
    BY <2>1, <2>2, EmptySeq
  <2> QED
    BY <2>1, <2>3
<1>3. CASE N # 0
  <2>1. FlattenSeq(seqs) = C[N]
    BY <1>3 DEF FlattenSeq
  <2>2. PICK h : h = [i \in 1..N |-> FlatStep(seqs, h, i)]
    BY <1>1, FlatExists
  <2>3. \E f : f = [i \in 1..N |-> IF i = 1 THEN seqs[i] ELSE f[i - 1] \o seqs[i]]
    <3>1. h = [i \in 1..N |-> IF i = 1 THEN seqs[i] ELSE h[i - 1] \o seqs[i]]
      BY <2>2 DEF FlatStep
    <3> QED
      BY <3>1
  <2>4. C = [i \in 1..N |-> IF i = 1 THEN seqs[i] ELSE C[i - 1] \o seqs[i]]
    BY <2>3
  <2> HIDE DEF C, N
  <2>5. \A i \in 1..N : C[i] = IF i = 1 THEN seqs[i] ELSE C[i - 1] \o seqs[i]
    BY <2>4
  <2> DEFINE Bad == {i \in 1..N : ~Good(C[i])}
  <2>6. ASSUME Bad # {} PROVE FALSE
    <3>1. Bad \subseteq Nat
      BY <1>1
    <3>2. PICK m \in Bad : \A y \in Bad : ~(y < m)
      BY <2>6, <3>1, LeastNumber
    <3>3. m \in 1..N /\ ~Good(C[m]) /\ m \in Nat
      BY <3>1, <3>2
    <3>4. seqs[m] \in Seq(S) /\ \A k \in DOMAIN seqs[m] : seqs[m][k] \in ToSet(seqs[m])
      BY <1>1, <3>3 DEF ToSet
    <3>5. CASE m = 1
      <4>1. C[m] = seqs[m]
        BY <2>5, <3>3, <3>5
      <4> QED
        BY <1>1, <3>3, <3>4, <4>1
    <3>6. CASE m # 1
      <4>1. m - 1 \in 1..N /\ m - 1 < m
        BY <1>1, <3>3, <3>6
      <4>2. Good(C[m - 1])
        BY <3>2, <4>1
      <4>3. C[m] = C[m - 1] \o seqs[m]
        BY <2>5, <3>3, <3>6
      <4> DEFINE s == C[m - 1]
                 t == seqs[m]
      <4>4. s \in Seq(S) /\ t \in Seq(S)
        BY <3>4, <4>2
      <4> HIDE DEF s, t
      <4>5. /\ s \o t \in Seq(S)
            /\ \A k \in DOMAIN (s \o t) : \/ k \in DOMAIN s /\ (s \o t)[k] = s[k]
                                          \/ \E j \in DOMAIN t : (s \o t)[k] = t[j]
        <5>1. s \o t \in Seq(S) /\ Len(s \o t) = Len(s) + Len(t)
          BY <4>4, ConcatProperties
        <5>2. ASSUME NEW k \in 1..(Len(s) + Len(t))
              PROVE  \/ k \in DOMAIN s /\ (s \o t)[k] = s[k]
                     \/ \E j \in DOMAIN t : (s \o t)[k] = t[j]
          <6>1. (s \o t)[k] = IF k <= Len(s) THEN s[k] ELSE t[k - Len(s)]
            BY <4>4, ConcatProperties
          <6>2. CASE k <= Len(s)
            BY <4>4, <6>1, <6>2
          <6>3. CASE ~(k <= Len(s))
            <7>1. k - Len(s) \in DOMAIN t
              BY <4>4, <6>3
            <7> QED
              BY <6>1, <6>3, <7>1
          <6> QED
            BY <6>2, <6>3
        <5>3. DOMAIN (s \o t) = 1..(Len(s) + Len(t))
          BY <5>1
        <5> QED
          BY <5>1, <5>2, <5>3
      <4>6. \A k \in DOMAIN s : \E j \in DOMAIN seqs : s[k] \in ToSet(seqs[j])
        BY <4>2 DEF s
      <4>7. \A k \in DOMAIN t : t[k] \in ToSet(seqs[m])
        BY <3>4 DEF t
      <4>8. Good(s \o t)
        BY <1>1, <3>3, <4>5, <4>6, <4>7
      <4> QED
        BY <3>3, <4>3, <4>8 DEF s, t
    <3> QED
      BY <3>5, <3>6
  <2>7. N \in 1..N
    BY <1>1, <1>3
  <2>8. Good(C[N])
    BY <2>6, <2>7
  <2> QED
    BY <2>1, <2>8
<1> QED
  BY <1>2, <1>3

\* Taking the k-th element out.
LEMMA RemoveAtProperties ==
  ASSUME NEW S, NEW s \in Seq(S), NEW k \in DOMAIN s
  PROVE  /\ RemoveAt(s, k) \in Seq(S)
         /\ Len(RemoveAt(s, k)) = Len(s) - 1
         /\ DOMAIN RemoveAt(s, k) = 1..(Len(s) - 1)
         /\ \A j \in 1..(Len(s) - 1) : RemoveAt(s, k)[j] = IF j < k THEN s[j] ELSE s[j + 1]
<1> DEFINE a == SubSeq(s, 1, k - 1)
           b == SubSeq(s, k + 1, Len(s))
<1>1. k \in 1..Len(s) /\ Len(s) \in Nat
  OBVIOUS
<1>2. a \in Seq(S) /\ Len(a) = k - 1 /\ \A j \in 1..(k - 1) : a[j] = s[j]
  BY <1>1, SubSeqProperties
<1>3. b \in Seq(S) /\ Len(b) = Len(s) - k /\ \A j \in 1..(Len(s) - k) : b[j] = s[k + j]
  BY <1>1, SubSeqProperties
<1>4. RemoveAt(s, k) = a \o b
  BY DEF RemoveAt
<1> HIDE DEF a, b
<1>5. /\ a \o b \in Seq(S) /\ Len(a \o b) = Len(a) + Len(b)
      /\ \A j \in 1..(Len(a) + Len(b)) : (a \o b)[j] = IF j <= Len(a) THEN a[j] ELSE b[j - Len(a)]
  BY <1>2, <1>3, ConcatProperties
<1>6. Len(a) + Len(b) = Len(s) - 1
  BY <1>1, <1>2, <1>3
<1>7. ASSUME NEW j \in 1..(Len(s) - 1)
      PROVE  (a \o b)[j] = IF j < k THEN s[j] ELSE s[j + 1]
  <2>1. (a \o b)[j] = IF j <= Len(a) THEN a[j] ELSE b[j - Len(a)]
    BY <1>5, <1>6
  <2>2. CASE j < k
    <3>1. j <= Len(a) /\ j \in 1..(k - 1)
      BY <1>1, <1>2, <2>2
    <3> QED
      BY <1>2, <2>1, <2>2, <3>1
  <2>3. CASE ~(j < k)
    <3>1. ~(j <= Len(a)) /\ j - Len(a) \in 1..(Len(s) - k) /\ k + (j - Len(a)) = j + 1
      BY <1>1, <1>2, <2>3
    <3> QED
      BY <1>3, <2>1, <2>3, <3>1
  <2> QED
    BY <2>2, <2>3
<1>8. DOMAIN (a \o b) = 1..(Len(s) - 1)
  BY <1>5, <1>6
<1> QED
  BY <1>4, <1>5, <1>6, <1>7, <1>8

-----------------------------------------------------------------------------
(* Where the instructions stand. *)

\* Holds and Position are where an instruction stands.
LEMMA WhereItStands ==
  ASSUME NEW c, NEW is, EachOnce(c, is), NEW i \in is
  PROVE  /\ Holds(c, i) \in DOMAIN c
         /\ Position(c, i) \in DOMAIN c[Holds(c, i)]
         /\ c[Holds(c, i)][Position(c, i)] = i
         /\ \A b \in DOMAIN c : \A k \in DOMAIN c[b] : c[b][k] = i => b = Holds(c, i) /\ k = Position(c, i)
<1>1. PICK b \in DOMAIN c : \E k \in DOMAIN c[b] : c[b][k] = i
  BY DEF EachOnce
<1>2. i \in ToSet(c[b])
  BY <1>1 DEF ToSet
<1>3. Holds(c, i) \in DOMAIN c /\ i \in ToSet(c[Holds(c, i)])
  BY <1>1, <1>2 DEF Holds
<1> DEFINE h == Holds(c, i)
<1>4. \E k \in DOMAIN c[h] : c[h][k] = i
  BY <1>3 DEF ToSet
<1>5. Position(c, i) = CHOOSE k \in DOMAIN c[h] : c[h][k] = i
  BY DEF Position
<1> HIDE DEF h
<1>6. Position(c, i) \in DOMAIN c[h] /\ c[h][Position(c, i)] = i
  BY <1>4, <1>5
<1>7. ASSUME NEW d \in DOMAIN c, NEW k \in DOMAIN c[d], c[d][k] = i
      PROVE  d = h /\ k = Position(c, i)
  BY <1>3, <1>6, <1>7 DEF EachOnce, h
<1> QED
  BY <1>3, <1>6, <1>7 DEF h

\* ToSet and the place of an instruction.
LEMMA InBlock ==
  ASSUME NEW c, NEW is, EachOnce(c, is), NEW i \in is, NEW b \in DOMAIN c
  PROVE  i \in ToSet(c[b]) <=> b = Holds(c, i)
BY WhereItStands DEF ToSet

\* Moving x from its block to the end of another one.
Relocated(c, x, p) ==
  [c EXCEPT ![Holds(c, x)] = Without(@, x), ![p] = Append(@, x)]

\* The two blocks a move changes.
LEMMA MovedBlocks ==
  ASSUME NEW c, NEW is, EachOnce(c, is), NEW x \in is, NEW p \in DOMAIN c, p # Holds(c, x)
  PROVE  LET d == Relocated(c, x, p)
             h == Holds(c, x)
             n == Position(c, x) IN
         /\ DOMAIN d = DOMAIN c
         /\ \A b \in DOMAIN c : b # h /\ b # p => d[b] = c[b]
         /\ d[h] \in Seq(is)
         /\ DOMAIN d[h] = 1..(Len(c[h]) - 1)
         /\ \A j \in 1..(Len(c[h]) - 1) : d[h][j] = IF j < n THEN c[h][j] ELSE c[h][j + 1]
         /\ d[p] \in Seq(is)
         /\ DOMAIN d[p] = 1..(Len(c[p]) + 1)
         /\ \A j \in 1..Len(c[p]) : d[p][j] = c[p][j]
         /\ d[p][Len(c[p]) + 1] = x
<1> DEFINE d == Relocated(c, x, p)
           h == Holds(c, x)
           n == Position(c, x)
           s == c[h]
<1>1. /\ c \in [DOMAIN c -> Seq(is)]
      /\ h \in DOMAIN c /\ n \in DOMAIN s /\ s[n] = x
      /\ \A k \in DOMAIN s : s[k] = x => k = n
  BY WhereItStands DEF EachOnce
<1>2. Without(s, x) = RemoveAt(s, n)
  <2> DEFINE k == CHOOSE j \in DOMAIN s : s[j] = x
  <2> HIDE DEF s, n
  <2>1. k = n
    BY <1>1
  <2> HIDE DEF k
  <2>2. Without(s, x) = RemoveAt(s, k)
    BY DEF Without, k
  <2> QED
    BY <2>1, <2>2
<1>3. s \in Seq(is) /\ c[p] \in Seq(is)
  BY <1>1
<1> HIDE DEF s, n
<1>4. /\ RemoveAt(s, n) \in Seq(is)
      /\ DOMAIN RemoveAt(s, n) = 1..(Len(s) - 1)
      /\ \A j \in 1..(Len(s) - 1) : RemoveAt(s, n)[j] = IF j < n THEN s[j] ELSE s[j + 1]
  BY <1>1, <1>3, RemoveAtProperties
<1>5. /\ Append(c[p], x) \in Seq(is)
      /\ DOMAIN Append(c[p], x) = 1..(Len(c[p]) + 1)
      /\ \A j \in 1..Len(c[p]) : Append(c[p], x)[j] = c[p][j]
      /\ Append(c[p], x)[Len(c[p]) + 1] = x
  BY <1>3, AppendProperties
<1> HIDE DEF h
<1>6. /\ DOMAIN d = DOMAIN c
      /\ d[h] = Without(c[h], x)
      /\ d[p] = Append(c[p], x)
      /\ \A b \in DOMAIN c : b # h /\ b # p => d[b] = c[b]
  BY <1>1 DEF Relocated, h
<1> HIDE DEF d
<1>7. d[h] = RemoveAt(s, n) /\ c[h] = s
  BY <1>2, <1>6 DEF s
<1>8. /\ DOMAIN d = DOMAIN c
      /\ \A b \in DOMAIN c : b # h /\ b # p => d[b] = c[b]
      /\ d[h] \in Seq(is)
      /\ DOMAIN d[h] = 1..(Len(c[h]) - 1)
      /\ \A j \in 1..(Len(c[h]) - 1) : d[h][j] = IF j < n THEN c[h][j] ELSE c[h][j + 1]
  BY <1>4, <1>6, <1>7
<1>9. /\ d[p] \in Seq(is)
      /\ DOMAIN d[p] = 1..(Len(c[p]) + 1)
      /\ \A j \in 1..Len(c[p]) : d[p][j] = c[p][j]
      /\ d[p][Len(c[p]) + 1] = x
  BY <1>5, <1>6
<1> QED
  BY <1>8, <1>9 DEF d, h, n

\* Where an instruction of block b at k stands when x has left.
Shifted(c, x, b, k) == IF b = Holds(c, x) /\ k > Position(c, x) THEN k - 1 ELSE k

\* After a move every instruction still stands in one place, the others where
\* they did but for the gap.
LEMMA MovePlaces ==
  ASSUME NEW c, NEW is, EachOnce(c, is), NEW x \in is, NEW p \in DOMAIN c, p # Holds(c, x)
  PROVE  LET d == Relocated(c, x, p) IN
         /\ DOMAIN d = DOMAIN c /\ EachOnce(d, is)
         /\ Holds(d, x) = p /\ Position(d, x) = Len(c[p]) + 1
         /\ \A i \in is : i # x => /\ Holds(d, i) = Holds(c, i)
                                   /\ Position(d, i) = Shifted(c, x, Holds(c, i), Position(c, i))
<1> DEFINE d == Relocated(c, x, p)
           h == Holds(c, x)
           n == Position(c, x)
<1>1. /\ DOMAIN d = DOMAIN c
      /\ \A b \in DOMAIN c : b # h /\ b # p => d[b] = c[b]
      /\ d[h] \in Seq(is)
      /\ DOMAIN d[h] = 1..(Len(c[h]) - 1)
      /\ \A j \in 1..(Len(c[h]) - 1) : d[h][j] = IF j < n THEN c[h][j] ELSE c[h][j + 1]
      /\ d[p] \in Seq(is)
      /\ DOMAIN d[p] = 1..(Len(c[p]) + 1)
      /\ \A j \in 1..Len(c[p]) : d[p][j] = c[p][j]
      /\ d[p][Len(c[p]) + 1] = x
  BY MovedBlocks
<1>2. /\ c \in [DOMAIN c -> Seq(is)]
      /\ \A b \in DOMAIN c : c[b] \in Seq(is) /\ Len(c[b]) \in Nat /\ DOMAIN c[b] = 1..Len(c[b])
  BY DEF EachOnce
<1>3. /\ h \in DOMAIN c /\ n \in DOMAIN c[h] /\ c[h][n] = x
      /\ \A b \in DOMAIN c : \A k \in DOMAIN c[b] : c[b][k] = x => b = h /\ k = n
  BY WhereItStands
<1>4. d = Relocated(c, x, p)
  OBVIOUS
<1>5. \A b, k : Shifted(c, x, b, k) = IF b = h /\ k > n THEN k - 1 ELSE k
  BY DEF Shifted
<1> HIDE DEF d, h, n
<1>6. d \in [DOMAIN d -> Seq(is)]
  <2>1. \A b \in DOMAIN d : d[b] \in Seq(is)
    BY <1>1, <1>2, <1>3
  <2>2. d = [b \in DOMAIN d |-> d[b]]
    BY <1>4 DEF Relocated
  <2> QED
    BY <2>1, <2>2
\* what stands at a place of d
<1>7. ASSUME NEW b \in DOMAIN c, NEW k \in DOMAIN d[b]
      PROVE  \/ b = p /\ k = Len(c[p]) + 1 /\ d[b][k] = x
             \/ \E m \in DOMAIN c[b] : /\ d[b][k] = c[b][m] /\ c[b][m] # x
                                       /\ k = Shifted(c, x, b, m)
  <2>1. CASE b = p
    <3>1. k \in 1..(Len(c[p]) + 1) /\ Len(c[p]) \in Nat
      BY <1>1, <1>2, <2>1
    <3>2. CASE k = Len(c[p]) + 1
      BY <1>1, <2>1, <3>2
    <3>3. CASE k # Len(c[p]) + 1
      <4>1. k \in 1..Len(c[p])
        BY <3>1, <3>3
      <4>2. k \in DOMAIN c[p] /\ d[b][k] = c[p][k]
        BY <1>1, <1>2, <2>1, <4>1
      <4>3. c[p][k] # x
        BY <1>3, <4>2, <2>1 DEF h
      <4>4. Shifted(c, x, b, k) = k
        BY <1>5, <2>1 DEF h
      <4> QED
        BY <2>1, <4>2, <4>3, <4>4
    <3> QED
      BY <3>2, <3>3
  <2>2. CASE b = h
    <3>1. k \in 1..(Len(c[h]) - 1) /\ Len(c[h]) \in Nat /\ n \in 1..Len(c[h])
      BY <1>1, <1>2, <1>3, <2>2
    <3>2. CASE k < n
      <4>1. k \in DOMAIN c[h] /\ d[b][k] = c[h][k] /\ k # n
        BY <1>1, <1>2, <1>3, <2>2, <3>1, <3>2
      <4>2. c[h][k] # x
        BY <1>3, <4>1
      <4>3. Shifted(c, x, b, k) = k
        BY <1>5, <2>2, <3>1, <3>2
      <4> QED
        BY <2>2, <4>1, <4>2, <4>3
    <3>3. CASE ~(k < n)
      <4>1. k + 1 \in DOMAIN c[h] /\ d[b][k] = c[h][k + 1] /\ k + 1 # n
        BY <1>1, <1>2, <1>3, <2>2, <3>1, <3>3
      <4>2. c[h][k + 1] # x
        BY <1>3, <4>1
      <4>3. Shifted(c, x, b, k + 1) = k
        BY <1>5, <2>2, <3>1, <3>3
      <4> QED
        BY <2>2, <4>1, <4>2, <4>3
    <3> QED
      BY <3>2, <3>3
  <2>3. CASE b # p /\ b # h
    <3>1. d[b] = c[b] /\ Shifted(c, x, b, k) = k
      BY <1>1, <1>5, <2>3
    <3>2. c[b][k] # x
      BY <1>3, <2>3, <3>1
    <3> QED
      BY <3>1, <3>2
  <2> QED
    BY <2>1, <2>2, <2>3
\* where an instruction that stays is found
<1>8. ASSUME NEW b \in DOMAIN c, NEW m \in DOMAIN c[b], c[b][m] # x
      PROVE  Shifted(c, x, b, m) \in DOMAIN d[b] /\ d[b][Shifted(c, x, b, m)] = c[b][m]
  <2>1. m \in 1..Len(c[b]) /\ Len(c[b]) \in Nat
    BY <1>2
  <2>2. CASE b = p
    <3>1. Shifted(c, x, b, m) = m
      BY <1>5, <2>2 DEF h
    <3> QED
      BY <1>1, <2>1, <2>2, <3>1
  <2>3. CASE b = h
    <3>1. n \in 1..Len(c[h]) /\ m # n
      BY <1>2, <1>3, <1>8, <2>3
    <3>2. CASE m > n
      <4>1. Shifted(c, x, b, m) = m - 1
        BY <1>5, <2>3, <3>2
      <4>2. m - 1 \in 1..(Len(c[h]) - 1) /\ ~(m - 1 < n) /\ (m - 1) + 1 = m
        BY <2>1, <2>3, <3>1, <3>2
      <4> QED
        BY <1>1, <2>3, <4>1, <4>2
    <3>3. CASE ~(m > n)
      <4>1. Shifted(c, x, b, m) = m
        BY <1>5, <2>3, <3>3
      <4>2. m \in 1..(Len(c[h]) - 1) /\ m < n
        BY <2>1, <2>3, <3>1, <3>3
      <4> QED
        BY <1>1, <2>3, <4>1, <4>2
    <3> QED
      BY <3>2, <3>3
  <2>4. CASE b # p /\ b # h
    BY <1>1, <1>5, <2>4
  <2> QED
    BY <2>2, <2>3, <2>4
<1>9. p # h /\ Len(c[p]) + 1 \in DOMAIN d[p] /\ d[p][Len(c[p]) + 1] = x
  BY <1>1, <1>2 DEF h
<1>10. \A i \in is : \E b \in DOMAIN c : \E k \in DOMAIN d[b] : d[b][k] = i
  <2> TAKE i \in is
  <2>1. CASE i = x
    BY <1>9, <2>1
  <2>2. CASE i # x
    <3>1. /\ Holds(c, i) \in DOMAIN c /\ Position(c, i) \in DOMAIN c[Holds(c, i)]
          /\ c[Holds(c, i)][Position(c, i)] = i
      BY WhereItStands
    <3> QED
      BY <1>8, <2>2, <3>1
  <2> QED
    BY <2>1, <2>2
<1>11. ASSUME NEW a \in DOMAIN c, NEW b \in DOMAIN c, NEW j \in DOMAIN d[a], NEW k \in DOMAIN d[b],
              d[a][j] = d[b][k]
       PROVE  a = b /\ j = k
  <2>1. CASE d[a][j] = x
    <3>1. a = p /\ j = Len(c[p]) + 1
      BY <1>7, <2>1
    <3>2. b = p /\ k = Len(c[p]) + 1
      BY <1>7, <1>11, <2>1
    <3> QED
      BY <3>1, <3>2
  <2>2. CASE d[a][j] # x
    <3>1. PICK m \in DOMAIN c[a] : d[a][j] = c[a][m] /\ j = Shifted(c, x, a, m)
      BY <1>7, <2>2
    <3>2. PICK q \in DOMAIN c[b] : d[b][k] = c[b][q] /\ k = Shifted(c, x, b, q)
      BY <1>7, <1>11, <2>2
    <3>3. a = b /\ m = q
      <4>1. c[a][m] = c[b][q]
        BY <1>11, <3>1, <3>2
      <4>2. c[a][m] = c[b][q] => a = b /\ m = q
        BY DEF EachOnce
      <4> QED
        BY <4>1, <4>2
    <3> QED
      BY <3>1, <3>2, <3>3
  <2> QED
    BY <2>1, <2>2
<1>12. EachOnce(d, is)
  BY <1>1, <1>6, <1>10, <1>11 DEF EachOnce
<1>13. Holds(d, x) = p /\ Position(d, x) = Len(c[p]) + 1
  BY <1>1, <1>9, <1>12, WhereItStands
<1>14. ASSUME NEW i \in is, i # x
       PROVE  Holds(d, i) = Holds(c, i) /\ Position(d, i) = Shifted(c, x, Holds(c, i), Position(c, i))
  <2> DEFINE b == Holds(c, i)
             k == Position(c, i)
  <2>1. b \in DOMAIN c /\ k \in DOMAIN c[b] /\ c[b][k] = i
    BY WhereItStands
  <2> HIDE DEF b, k
  <2>2. Shifted(c, x, b, k) \in DOMAIN d[b] /\ d[b][Shifted(c, x, b, k)] = i
    BY <1>8, <1>14, <2>1
  <2>3. Holds(d, i) = b /\ Position(d, i) = Shifted(c, x, b, k)
    BY <1>1, <1>12, <2>1, <2>2, WhereItStands
  <2> QED
    BY <2>3 DEF b, k
<1> QED
  BY <1>1, <1>12, <1>13, <1>14 DEF d

\* A move keeps the order of the other instructions, and puts x last.
LEMMA MoveKeepsOrder ==
  ASSUME NEW c, NEW is, EachOnce(c, is), NEW x \in is, NEW p \in DOMAIN c, p # Holds(c, x)
  PROVE  /\ \A i, j \in is : i # x /\ j # x /\ InFront(c, i, j) => InFront(Relocated(c, x, p), i, j)
         /\ \A i \in is : Holds(c, i) = p => InFront(Relocated(c, x, p), i, x)
<1> DEFINE d == Relocated(c, x, p)
<1>1. /\ DOMAIN d = DOMAIN c
      /\ Holds(d, x) = p /\ Position(d, x) = Len(c[p]) + 1
      /\ \A i \in is : i # x => /\ Holds(d, i) = Holds(c, i)
                                /\ Position(d, i) = Shifted(c, x, Holds(c, i), Position(c, i))
  BY MovePlaces
<1>2. \A i \in is : /\ Holds(c, i) \in DOMAIN c /\ Position(c, i) \in 1..Len(c[Holds(c, i)])
                    /\ Len(c[Holds(c, i)]) \in Nat
                    /\ c[Holds(c, i)][Position(c, i)] = i
  <2> TAKE i \in is
  <2>1. Holds(c, i) \in DOMAIN c /\ Position(c, i) \in DOMAIN c[Holds(c, i)]
        /\ c[Holds(c, i)][Position(c, i)] = i
    BY WhereItStands
  <2>2. c[Holds(c, i)] \in Seq(is)
    BY <2>1 DEF EachOnce
  <2> QED
    BY <2>1, <2>2
<1> HIDE DEF d
<1>3. ASSUME NEW i \in is, NEW j \in is, i # x, j # x, InFront(c, i, j)
      PROVE  InFront(d, i, j)
  <2> DEFINE b == Holds(c, i)
             k == Position(c, i)
             m == Position(c, j)
             n == Position(c, x)
  <2>1. Holds(c, j) = b /\ k < m /\ k \in Nat /\ m \in Nat /\ n \in Nat
    BY <1>2, <1>3 DEF InFront
  <2>2. b = Holds(c, x) => k # n /\ m # n
    BY <1>2, <1>3, <2>1
  <2>3. Position(d, i) = Shifted(c, x, b, k) /\ Position(d, j) = Shifted(c, x, b, m)
    BY <1>1, <1>3, <2>1
  <2>4. Shifted(c, x, b, k) = (IF b = Holds(c, x) /\ k > n THEN k - 1 ELSE k)
    BY DEF Shifted
  <2>5. Shifted(c, x, b, m) = (IF b = Holds(c, x) /\ m > n THEN m - 1 ELSE m)
    BY DEF Shifted
  <2>6. Holds(d, i) = Holds(d, j)
    BY <1>1, <1>3, <2>1
  <2> HIDE DEF b, k, m, n
  <2>7. Shifted(c, x, b, k) < Shifted(c, x, b, m)
    BY <2>1, <2>2, <2>4, <2>5
  <2> QED
    BY <2>3, <2>6, <2>7 DEF InFront
<1>4. ASSUME NEW i \in is, Holds(c, i) = p
      PROVE  InFront(d, i, x)
  <2>1. i # x
    BY <1>4
  <2>2. Position(d, i) = Position(c, i)
    BY <1>1, <1>4, <2>1 DEF Shifted
  <2>3. Position(c, i) \in 1..Len(c[p]) /\ Len(c[p]) \in Nat
    BY <1>2, <1>4
  <2> QED
    BY <1>1, <1>4, <2>1, <2>2, <2>3 DEF InFront
<1> QED
  BY <1>3, <1>4 DEF d

-----------------------------------------------------------------------------
(* What the pass is handed. *)

\* The assumption, for the function at hand.
LEMMA OfProgram ==
  ASSUME prog \in Programs
  PROVE  /\ None \notin Blocks
         /\ \A i \in Instructions : prog.uses[i] \subseteq Instructions
         /\ DOMAIN prog.code = Blocks /\ EachOnce(prog.code, Instructions)
         /\ Len(prog.loops) \in Nat /\ DOMAIN prog.loops = 1..Len(prog.loops)
         /\ \A l \in DOMAIN prog.loops : /\ prog.loops[l].order \in Seq(Blocks)
                                         /\ LoopBlocks(prog.loops[l]) \subseteq Blocks
<1>1. /\ None \notin Blocks
      /\ prog.uses \in [Instructions -> SUBSET Instructions]
      /\ DOMAIN prog.code = Blocks /\ EachOnce(prog.code, Instructions)
      /\ prog.loops \in Seq([order : Seq(Blocks), inner : SUBSET Blocks,
                              preheader : Blocks \cup {None}, simplified : BOOLEAN])
  BY ProgramAssumption DEF Blocks, Instructions
<1>2. \A i \in Instructions : prog.uses[i] \subseteq Instructions
  BY <1>1
<1> DEFINE R == [order : Seq(Blocks), inner : SUBSET Blocks,
                 preheader : Blocks \cup {None}, simplified : BOOLEAN]
<1>3. prog.loops \in Seq(R)
  BY <1>1
<1>4. \A r \in R : r.order \in Seq(Blocks)
  OBVIOUS
<1> HIDE DEF R
<1>5. Len(prog.loops) \in Nat /\ DOMAIN prog.loops = 1..Len(prog.loops)
  BY <1>3
<1>6. ASSUME NEW l \in DOMAIN prog.loops
      PROVE  /\ prog.loops[l].order \in Seq(Blocks)
             /\ LoopBlocks(prog.loops[l]) \subseteq Blocks
  <2>1. prog.loops[l] \in R
    BY <1>3, <1>5, ElementOfSeq
  <2>2. prog.loops[l].order \in Seq(Blocks)
    BY <1>4, <2>1
  <2>3. \A b \in LoopBlocks(prog.loops[l]) : b \in Blocks
    BY <2>2, ElementOfSeq DEF LoopBlocks, ToSet
  <2> QED
    BY <2>2, <2>3
<1> QED
  BY <1>1, <1>2, <1>5, <1>6

\* The loops of the function at hand.
LEMMA OfLoops ==
  ASSUME prog \in Programs, NEW l \in DOMAIN prog.loops
  PROVE  /\ \A m \in DOMAIN prog.loops :
              l # m => LoopBlocks(prog.loops[l]) \cap LoopBlocks(prog.loops[m]) = {}
         /\ prog.loops[l].inner \subseteq LoopBlocks(prog.loops[l])
         /\ prog.loops[l].simplified =>
              /\ prog.loops[l].preheader \in Blocks
              /\ \A m \in DOMAIN prog.loops :
                   /\ prog.loops[l].preheader \notin LoopBlocks(prog.loops[m])
                   /\ l # m /\ prog.loops[m].simplified =>
                        prog.loops[l].preheader # prog.loops[m].preheader
              /\ \A b \in LoopBlocks(prog.loops[l]) :
                   /\ Dominates(prog.loops[l].preheader, b)
                   /\ \A a \in Blocks \ LoopBlocks(prog.loops[l]) :
                        Dominates(a, b) => \/ a = prog.loops[l].preheader
                                           \/ Dominates(a, prog.loops[l].preheader)
<1>1. LoopsAreApart(prog) /\ EnteredFromPreheader(prog)
  BY ProgramAssumption
<1>2. /\ \A m \in DOMAIN prog.loops :
           l # m => LoopBlocks(prog.loops[l]) \cap LoopBlocks(prog.loops[m]) = {}
      /\ prog.loops[l].inner \subseteq LoopBlocks(prog.loops[l])
  BY <1>1 DEF LoopsAreApart
<1>3. ASSUME prog.loops[l].simplified
      PROVE  /\ prog.loops[l].preheader \in Blocks
             /\ \A m \in DOMAIN prog.loops :
                  /\ prog.loops[l].preheader \notin LoopBlocks(prog.loops[m])
                  /\ l # m /\ prog.loops[m].simplified =>
                       prog.loops[l].preheader # prog.loops[m].preheader
  BY <1>1, <1>3 DEF LoopsAreApart, Blocks
<1>4. ASSUME prog.loops[l].simplified, NEW b \in LoopBlocks(prog.loops[l])
      PROVE  /\ Dominates(prog.loops[l].preheader, b)
             /\ \A a \in Blocks \ LoopBlocks(prog.loops[l]) :
                  Dominates(a, b) => \/ a = prog.loops[l].preheader
                                     \/ Dominates(a, prog.loops[l].preheader)
  BY <1>1, <1>4 DEF EnteredFromPreheader, Blocks, Dominates
<1> QED
  BY <1>2, <1>3, <1>4

\* An operand of an instruction that is no phi.
LEMMA OperandAvailable ==
  ASSUME prog \in Programs, NEW i \in Instructions \ prog.phis, NEW o \in prog.uses[i]
  PROVE  /\ o \in Instructions
         /\ \/ Orig(o) = Orig(i) /\ InFront(prog.code, o, i)
            \/ Orig(o) # Orig(i) /\ Dominates(Orig(o), Orig(i))
<1>1. o \in Instructions
  BY OfProgram
<1>2. DefsDominateUses(prog, prog.code)
  BY ProgramAssumption
<1>3. Available(prog, prog.code, o, i)
  BY <1>2 DEF DefsDominateUses, Instructions
<1> QED
  BY <1>1, <1>3 DEF Available, InFront, Orig, Dominates

-----------------------------------------------------------------------------
(* The steps that move nothing. *)

Working == pc \in {"scan", "choose", "hoist"}

\* What stands in the loop at hand stands where it did, and an instruction of
\* this loop has not moved before the hoisting.
LEMMA LoopIsOriginal ==
  ASSUME LInv, Working, NEW i \in Instructions
  PROVE  /\ Parent(i) \in LoopBlocks(L) => i \notin Moved /\ Parent(i) = Orig(i)
         /\ Orig(i) \in LoopBlocks(L) /\ i \in Moved =>
              pc = "hoist" /\ i \in ToSet(hoistable) /\ Parent(i) = L.preheader
<1>1. prog \in Programs /\ loop \in DOMAIN prog.loops /\ InPreheaders
  BY DEF LInv, Working
<1>2. i \notin Moved => Parent(i) = Orig(i)
  BY DEF Moved, Parent, Orig
<1>3. ASSUME i \in Moved
      PROVE  /\ Parent(i) \notin LoopBlocks(L)
             /\ Orig(i) \in LoopBlocks(L) =>
                  pc = "hoist" /\ i \in ToSet(hoistable) /\ Parent(i) = L.preheader
  <2>1. PICK l \in 1..loop :
          /\ l \in DOMAIN prog.loops /\ prog.loops[l].simplified
          /\ Orig(i) \in LoopBlocks(prog.loops[l]) /\ Parent(i) = prog.loops[l].preheader
          /\ l = loop => pc = "hoist" /\ i \in ToSet(hoistable)
    BY <1>1, <1>3 DEF InPreheaders
  <2>2. Parent(i) \notin LoopBlocks(L)
    BY <1>1, <2>1, OfLoops DEF L
  <2>3. Orig(i) \in LoopBlocks(L) => l = loop
    BY <1>1, <2>1, OfLoops DEF L
  <2> QED
    BY <2>1, <2>2, <2>3 DEF L
<1> QED
  BY <1>2, <1>3

\* The code, its order, and what has moved stay.
LEMMA CodeStays ==
  ASSUME LInv, UNCHANGED <<prog, code>>
  PROVE  /\ prog' \in Programs
         /\ DOMAIN code' = Blocks' /\ EachOnce(code', Instructions')
         /\ Moved' = Moved /\ Kept' /\ HoistedInOrder'
         /\ Blocks' = Blocks /\ Instructions' = Instructions
         /\ \A i : Orig(i)' = Orig(i) /\ Parent(i)' = Parent(i)
<1>1. Blocks' = Blocks /\ Instructions' = Instructions /\ InnerBlocks' = InnerBlocks
  BY DEF Blocks, Instructions, InnerBlocks
<1>2. Moved' = Moved
  BY <1>1 DEF Moved
<1>3. \A i : Orig(i)' = Orig(i) /\ Parent(i)' = Parent(i)
  BY DEF Orig, Parent
<1>4. Kept'
  <2>1. Kept
    BY DEF LInv
  <2> QED
    BY <1>1, <1>2, <2>1 DEF Kept, InFront, Parent
<1>5. HoistedInOrder'
  <2>1. HoistedInOrder
    BY DEF LInv
  <2> QED
    BY <1>1, <1>2, <2>1 DEF HoistedInOrder, Arrives
<1> QED
  BY <1>1, <1>2, <1>3, <1>4, <1>5 DEF LInv

\* What has moved is in the preheaders still.
LEMMA PreheadersStay ==
  ASSUME LInv, UNCHANGED <<prog, code>>,
         \/ loop' = loop /\ (pc = "hoist" => pc' = "hoist" /\ hoistable' = hoistable)
         \/ loop' = loop + 1
  PROVE  InPreheaders'
<1> SUFFICES ASSUME NEW i \in Moved'
             PROVE  \E l \in 1..loop' :
                      /\ l \in DOMAIN prog'.loops /\ prog'.loops[l].simplified
                      /\ Orig(i)' \in LoopBlocks(prog'.loops[l]) /\ Parent(i)' = prog'.loops[l].preheader
                      /\ l = loop' => pc' = "hoist" /\ i \in ToSet(hoistable')
  BY DEF InPreheaders
<1>1. i \in Moved /\ Orig(i)' = Orig(i) /\ Parent(i)' = Parent(i)
  BY CodeStays
<1>2. PICK l \in 1..loop :
        /\ l \in DOMAIN prog.loops /\ prog.loops[l].simplified
        /\ Orig(i) \in LoopBlocks(prog.loops[l]) /\ Parent(i) = prog.loops[l].preheader
        /\ l = loop => pc = "hoist" /\ i \in ToSet(hoistable)
  BY <1>1 DEF LInv, InPreheaders
<1>3. loop \in Nat /\ loop >= 1
  BY OfProgram DEF LInv
<1>4. l \in 1..loop' /\ (l = loop' => pc' = "hoist" /\ i \in ToSet(hoistable'))
  BY <1>2, <1>3
<1> QED
  BY <1>1, <1>2, <1>4

\* The lists are kept in order as long as they do not change.
LEMMA ListsStay ==
  ASSUME LInv, Working, UNCHANGED <<prog, loop>>
  PROVE  /\ L' = L /\ \A o : Local(o)' = Local(o)
         /\ invariant' = invariant => Found'
         /\ hoistable' = hoistable /\ invariant' = invariant => ChosenInOrder'
<1>1. L' = L /\ Instructions' = Instructions /\ \A i : Orig(i)' = Orig(i)
  BY DEF L, Instructions, Orig
<1>2. \A o : Local(o)' = Local(o)
  BY <1>1 DEF Local
<1>3. Found /\ ChosenInOrder
  BY DEF LInv, Working
<1>4. ASSUME invariant' = invariant PROVE Found'
  BY <1>1, <1>2, <1>3, <1>4 DEF Found
<1>5. ASSUME invariant' = invariant, hoistable' = hoistable PROVE ChosenInOrder'
  BY <1>1, <1>2, <1>3, <1>5 DEF ChosenInOrder
<1> QED
  BY <1>1, <1>2, <1>4, <1>5

\* Appending an element that is new.
LEMMA AppendNew ==
  ASSUME NEW S, NEW s \in Seq(S), NEW x \in S
  PROVE  /\ Append(s, x) \in Seq(S)
         /\ DOMAIN s = 1..Len(s) /\ Len(s) \in Nat
         /\ DOMAIN Append(s, x) = 1..(Len(s) + 1)
         /\ \A j \in 1..Len(s) : Append(s, x)[j] = s[j]
         /\ Append(s, x)[Len(s) + 1] = x
         /\ ToSet(Append(s, x)) = ToSet(s) \cup {x}
         /\ Injective(s) /\ x \notin ToSet(s) => Injective(Append(s, x))
<1> DEFINE t == Append(s, x)
           n == Len(s)
<1>1. /\ t \in Seq(S) /\ n \in Nat /\ DOMAIN s = 1..n /\ DOMAIN t = 1..(n + 1)
      /\ \A j \in 1..n : t[j] = s[j]
      /\ t[n + 1] = x
  BY AppendProperties
<1> HIDE DEF t, n
<1>2. ToSet(t) = ToSet(s) \cup {x}
  <2>1. \A y \in ToSet(t) : y \in ToSet(s) \cup {x}
    BY <1>1 DEF ToSet
  <2>2. \A y \in ToSet(s) \cup {x} : \E j \in 1..(n + 1) : t[j] = y
    <3> TAKE y \in ToSet(s) \cup {x}
    <3>1. CASE y = x
      BY <1>1, <3>1
    <3>2. CASE y \in ToSet(s)
      <4>1. PICK j \in 1..n : s[j] = y
        BY <1>1, <3>2 DEF ToSet
      <4>2. j \in 1..(n + 1)
        BY <1>1
      <4> QED
        BY <1>1, <4>1, <4>2
    <3> QED
      BY <3>1, <3>2
  <2>3. \A y \in ToSet(s) \cup {x} : y \in ToSet(t)
    BY <1>1, <2>2 DEF ToSet
  <2> QED
    BY <2>1, <2>3
<1>3. ASSUME Injective(s), x \notin ToSet(s), NEW j \in 1..(n + 1), NEW k \in 1..(n + 1), t[j] = t[k]
      PROVE  j = k
  <2>1. \A m \in 1..n : t[m] = s[m] /\ s[m] # x
    BY <1>1, <1>3 DEF ToSet
  <2>2. \A m \in 1..(n + 1) : m \in 1..n \/ m = n + 1
    BY <1>1
  <2>3. j \in 1..n /\ k \in 1..n => j = k
    BY <1>1, <1>3, <2>1 DEF Injective
  <2> QED
    BY <1>1, <1>3, <2>1, <2>2, <2>3
<1> QED
  BY <1>1, <1>2, <1>3 DEF Injective, t, n

LEMMA EmptyLists ==
  ASSUME NEW S
  PROVE  <<>> \in Seq(S) /\ Injective(<<>>) /\ ToSet(<<>>) = {} /\ DOMAIN <<>> = {}
<1>1. <<>> \in Seq(S) /\ DOMAIN <<>> = {}
  OBVIOUS
<1> QED
  BY <1>1 DEF Injective, ToSet

LEMMA InitL == Init => LInv
<1> SUFFICES ASSUME Init PROVE LInv
  OBVIOUS
<1>1. /\ prog \in Programs /\ code = prog.code /\ loop = 1 /\ at = 1
      /\ invariant = <<>> /\ hoistable = <<>> /\ node = None /\ pc = "loops"
  BY DEF Init
<1>2. DOMAIN code = Blocks /\ EachOnce(code, Instructions) /\ Len(prog.loops) \in Nat
  BY <1>1, OfProgram
<1>3. Moved = {}
  BY <1>1 DEF Moved
<1>4. Kept
  BY <1>1, <1>3 DEF Kept
<1>5. InPreheaders /\ HoistedInOrder
  BY <1>3 DEF InPreheaders, HoistedInOrder
<1>6. loop \in 1..(Len(prog.loops) + 1) /\ at \in Nat \ {0}
  BY <1>1, <1>2
<1> QED
  BY <1>1, <1>2, <1>4, <1>5, <1>6 DEF LInv

LEMMA BeginLoopL == ASSUME LInv, BeginLoop PROVE LInv'
<1>1. /\ pc = "loops" /\ loop <= Len(prog.loops) /\ at' = 1
      /\ UNCHANGED <<prog, code, invariant, hoistable, visited, node>>
  BY DEF BeginLoop
<1>2. /\ prog \in Programs /\ loop \in 1..(Len(prog.loops) + 1)
      /\ invariant = <<>> /\ hoistable = <<>> /\ node = None
  BY <1>1 DEF LInv
<1>3. Len(prog.loops) \in Nat /\ DOMAIN prog.loops = 1..Len(prog.loops)
  BY <1>2, OfProgram
<1>4. /\ prog' \in Programs /\ DOMAIN code' = Blocks' /\ EachOnce(code', Instructions')
      /\ Kept' /\ HoistedInOrder'
  BY <1>1, CodeStays
<1>5. CASE L.simplified
  <2>1. pc' = "scan" /\ loop' = loop
    BY <1>5 DEF BeginLoop
  <2>2. InPreheaders'
    BY <1>1, <2>1, PreheadersStay
  <2>3. loop' \in DOMAIN prog'.loops /\ L'.simplified /\ loop' \in 1..(Len(prog'.loops) + 1)
    BY <1>1, <1>2, <1>3, <1>5, <2>1 DEF L
  <2>4. invariant' = <<>> /\ hoistable' = <<>>
    BY <1>1, <1>2
  <2>5. Found' /\ ChosenInOrder'
    BY <2>4, EmptyLists DEF Found, ChosenInOrder
  <2> QED
    BY <1>1, <1>2, <1>4, <2>1, <2>2, <2>3, <2>4, <2>5 DEF LInv
<1>6. CASE ~L.simplified
  <2>1. pc' = "loops" /\ loop' = loop + 1
    BY <1>1, <1>6 DEF BeginLoop
  <2>2. InPreheaders'
    BY <1>1, <2>1, PreheadersStay
  <2>3. loop' \in 1..(Len(prog'.loops) + 1)
    BY <1>1, <1>2, <1>3, <2>1
  <2> QED
    BY <1>1, <1>2, <1>4, <2>1, <2>2, <2>3 DEF LInv
<1> QED
  BY <1>5, <1>6

\* findLIInstr() goes over instructions of the loop.
LEMMA BodyInLoop ==
  ASSUME LInv, Working
  PROVE  /\ Body \in Seq(Instructions)
         /\ \A k \in DOMAIN Body : Parent(Body[k]) \in LoopBlocks(L)
<1> DEFINE seqs == [k \in DOMAIN L.order |-> code[L.order[k]]]
<1>1. prog \in Programs /\ loop \in DOMAIN prog.loops /\ DOMAIN code = Blocks /\ EachOnce(code, Instructions)
  BY DEF LInv, Working
<1>2. L.order \in Seq(Blocks)
  BY <1>1, OfProgram DEF L
<1>3. code \in [Blocks -> Seq(Instructions)]
  BY <1>1 DEF EachOnce
<1>4. DOMAIN L.order = 1..Len(L.order) /\ Len(L.order) \in Nat /\ \A k \in DOMAIN L.order : L.order[k] \in Blocks
  BY <1>2
<1>5. seqs \in [1..Len(L.order) -> Seq(Instructions)]
  BY <1>3, <1>4
<1>6. seqs \in Seq(Seq(Instructions))
  BY <1>4, <1>5, SeqDef
<1> HIDE DEF seqs
<1>7. /\ FlattenSeq(seqs) \in Seq(Instructions)
      /\ \A k \in DOMAIN FlattenSeq(seqs) :
           \E j \in DOMAIN seqs : FlattenSeq(seqs)[k] \in ToSet(seqs[j])
  BY <1>6, FlattenRange
<1>8. ASSUME NEW k \in DOMAIN FlattenSeq(seqs)
      PROVE  Parent(FlattenSeq(seqs)[k]) \in LoopBlocks(L)
  <2>1. PICK j \in DOMAIN seqs : FlattenSeq(seqs)[k] \in ToSet(seqs[j])
    BY <1>7
  <2>2. j \in DOMAIN L.order /\ seqs[j] = code[L.order[j]]
    BY <2>1 DEF seqs
  <2>3. FlattenSeq(seqs)[k] \in Instructions
    BY <1>7
  <2>4. L.order[j] = Holds(code, FlattenSeq(seqs)[k])
    BY <1>1, <1>4, <2>1, <2>2, <2>3, InBlock
  <2>5. L.order[j] \in LoopBlocks(L)
    BY <2>2 DEF LoopBlocks, ToSet
  <2> QED
    BY <2>4, <2>5 DEF Parent
<1> QED
  BY <1>7, <1>8 DEF Body, seqs

LEMMA ScanL == ASSUME LInv, Scan PROVE LInv'
<1>1. /\ pc = "scan" /\ at <= Len(Body) /\ at' = at + 1 /\ pc' = pc
      /\ UNCHANGED <<prog, code, loop, hoistable, visited, node>>
  BY DEF Scan
<1>2. /\ Working /\ prog \in Programs /\ loop \in DOMAIN prog.loops /\ L.simplified
      /\ Found /\ hoistable = <<>> /\ node = None /\ at \in Nat \ {0}
      /\ loop \in 1..(Len(prog.loops) + 1)
  BY <1>1 DEF LInv, Working
<1>3. /\ prog' \in Programs /\ DOMAIN code' = Blocks' /\ EachOnce(code', Instructions')
      /\ Kept' /\ HoistedInOrder' /\ Instructions' = Instructions
      /\ \A i : Orig(i)' = Orig(i)
  BY <1>1, CodeStays
<1>4. L' = L /\ \A o : Local(o)' = Local(o)
  BY <1>1, <1>2, ListsStay
<1>5. InPreheaders'
  BY <1>1, PreheadersStay
<1>6. Found'
  <2>1. CASE invariant' = invariant
    BY <1>1, <1>2, <2>1, ListsStay
  <2>2. CASE invariant' # invariant
    <3> DEFINE x == Body[at]
               n == Len(invariant)
    <3>1. /\ x \notin ToSet(invariant) /\ InvariantOperands(x)
          /\ invariant' = Append(invariant, x)
      BY <2>2 DEF Scan
    <3>2. x \in Instructions /\ Parent(x) \in LoopBlocks(L)
      <4>1. Body \in Seq(Instructions) /\ \A k \in DOMAIN Body : Parent(Body[k]) \in LoopBlocks(L)
        BY <1>2, BodyInLoop
      <4>2. at \in DOMAIN Body
        BY <1>1, <1>2, <4>1
      <4> QED
        BY <4>1, <4>2
    <3> HIDE DEF x
    <3>3. Orig(x) \in LoopBlocks(L)
      BY <1>2, <3>2, LoopIsOriginal
    <3>4. invariant \in Seq(Instructions) /\ Injective(invariant)
      BY <1>2 DEF Found
    <3>5. /\ invariant' \in Seq(Instructions) /\ Injective(invariant')
          /\ DOMAIN invariant = 1..n /\ n \in Nat
          /\ DOMAIN invariant' = 1..(n + 1)
          /\ \A j \in 1..n : invariant'[j] = invariant[j]
          /\ invariant'[n + 1] = x
      BY <3>1, <3>2, <3>4, AppendNew
    <3>6. ASSUME NEW o \in prog.uses[x], Local(o)
          PROVE  \E j \in 1..n : invariant[j] = o
      <4>1. o \in Instructions
        BY <1>2, <3>2, OfProgram
      <4>2. Orig(o) \in LoopBlocks(L) \ L.inner
        BY <3>6 DEF Local
      <4>3. o \notin Moved
        BY <1>1, <1>2, <4>1, <4>2, LoopIsOriginal
      <4>4. Parent(o) = Orig(o)
        BY <4>1, <4>3 DEF Moved, Parent, Orig
      <4>5. InThisLoop(o)
        BY <4>2, <4>4 DEF InThisLoop
      <4>6. o \in ToSet(invariant)
        BY <3>1, <4>5 DEF InvariantOperands
      <4> QED
        BY <3>5, <4>6 DEF ToSet
    <3> HIDE DEF n
    <3>7. ASSUME NEW k \in DOMAIN invariant'
          PROVE  /\ Orig(invariant[k])' \in LoopBlocks(L')
                 /\ \A o \in prog'.uses[invariant'[k]] :
                      Local(o)' => \E j \in 1..(k - 1) : invariant'[j] = o
      <4>1. CASE k = n + 1
        <5>1. \A j \in 1..n : j \in 1..(k - 1) /\ invariant'[j] = invariant[j]
          BY <3>5, <4>1
        <5>2. invariant'[k] = x /\ prog'.uses = prog.uses
          BY <1>1, <3>5, <4>1
        <5>3. Orig(invariant[k])' = Orig(x)
          BY <1>1, <5>2 DEF Orig
        <5> QED
          BY <1>4, <3>3, <3>6, <5>1, <5>2, <5>3
      <4>2. CASE k # n + 1
        <5>1. k \in 1..n
          BY <3>5, <4>2
        <5>2. /\ Orig(invariant[k]) \in LoopBlocks(L)
              /\ \A o \in prog.uses[invariant[k]] : Local(o) => \E j \in 1..(k - 1) : invariant[j] = o
          BY <1>2, <3>5, <5>1 DEF Found
        <5>3. \A j \in 1..(k - 1) : invariant'[j] = invariant[j]
          BY <3>5, <5>1
        <5>4. invariant'[k] = invariant[k] /\ prog'.uses = prog.uses
          BY <1>1, <3>5, <5>1
        <5>5. Orig(invariant[k])' = Orig(invariant[k])
          BY <1>1, <5>4 DEF Orig
        <5> QED
          BY <1>4, <5>2, <5>3, <5>4, <5>5
      <4> QED
        BY <4>1, <4>2
    <3> QED
      BY <1>3, <3>5, <3>7 DEF Found
  <2> QED
    BY <2>1, <2>2
<1>7. ChosenInOrder'
  <2>1. hoistable' = <<>>
    BY <1>1, <1>2
  <2> QED
    BY <2>1, EmptyLists DEF ChosenInOrder
<1>8. at' \in Nat \ {0}
  BY <1>1, <1>2
<1> QED
  BY <1>1, <1>2, <1>3, <1>4, <1>5, <1>6, <1>7, <1>8 DEF LInv

\* The rounds end, or begin again.
LEMMA RoundL == ASSUME LInv, AnotherRound \/ FindHoistable PROVE LInv'
<1>1. /\ pc = "scan" /\ at' = 1 /\ pc' \in {"scan", "choose"}
      /\ UNCHANGED <<prog, code, loop, invariant, hoistable, visited, node>>
  BY DEF AnotherRound, FindHoistable
<1>2. /\ Working /\ loop \in DOMAIN prog.loops /\ L.simplified
      /\ hoistable = <<>> /\ node = None /\ loop \in 1..(Len(prog.loops) + 1)
  BY <1>1 DEF LInv, Working
<1>3. /\ prog' \in Programs /\ DOMAIN code' = Blocks' /\ EachOnce(code', Instructions')
      /\ Kept' /\ HoistedInOrder'
  BY <1>1, CodeStays
<1>4. L' = L /\ Found' /\ ChosenInOrder'
  BY <1>1, <1>2, ListsStay
<1>5. InPreheaders'
  BY <1>1, PreheadersStay
<1>6. hoistable' = <<>> /\ ToSet(hoistable') = {}
  BY <1>1, <1>2, EmptyLists
<1> QED
  BY <1>1, <1>2, <1>3, <1>4, <1>5, <1>6 DEF LInv

LEMMA ChooseL == ASSUME LInv, Choose PROVE LInv'
<1> DEFINE x == invariant[at]
           n == Len(hoistable)
<1>1. /\ pc = "choose" /\ at <= Len(invariant) /\ at' = at + 1 /\ pc' = pc
      /\ hoistable' = IF Hoistable(x) THEN Append(hoistable, x) ELSE hoistable
      /\ UNCHANGED <<prog, code, loop, invariant, visited, node>>
  BY DEF Choose
<1>2. /\ Working /\ loop \in DOMAIN prog.loops /\ L.simplified
      /\ node = None /\ loop \in 1..(Len(prog.loops) + 1) /\ at \in Nat \ {0}
      /\ Found /\ ChosenInOrder
      /\ ToSet(hoistable) \subseteq {invariant[j] : j \in {k \in DOMAIN invariant : k < at}}
  BY <1>1 DEF LInv, Working
<1>3. /\ prog' \in Programs /\ DOMAIN code' = Blocks' /\ EachOnce(code', Instructions')
      /\ Kept' /\ HoistedInOrder' /\ Instructions' = Instructions
  BY <1>1, CodeStays
<1>4. L' = L /\ Found' /\ (\A o : Local(o)' = Local(o)) /\ (hoistable' = hoistable => ChosenInOrder')
  BY <1>1, <1>2, ListsStay
<1>5. InPreheaders'
  BY <1>1, PreheadersStay
<1>6. /\ invariant \in Seq(Instructions) /\ Injective(invariant) /\ DOMAIN invariant = 1..Len(invariant)
      /\ hoistable \in Seq(Instructions) /\ Injective(hoistable)
      /\ at \in DOMAIN invariant /\ x \in Instructions /\ Len(invariant) \in Nat
  BY <1>1, <1>2 DEF Found, ChosenInOrder
<1>7. x \notin ToSet(hoistable)
  BY <1>2, <1>6 DEF Injective
<1>8. \A k \in DOMAIN hoistable : \E j \in DOMAIN invariant : j < at /\ hoistable[k] = invariant[j]
  BY <1>2 DEF ToSet
<1>9. CASE ~Hoistable(x)
  <2>1. hoistable' = hoistable
    BY <1>1, <1>9
  <2>2. ToSet(hoistable') \subseteq {invariant'[j] : j \in {k \in DOMAIN invariant' : k < at'}}
    BY <1>1, <1>2, <1>6, <2>1
  <2> QED
    BY <1>1, <1>2, <1>3, <1>4, <1>5, <2>1, <2>2 DEF LInv
<1>10. CASE Hoistable(x)
  <2>1. hoistable' = Append(hoistable, x)
    BY <1>1, <1>10
  <2>2. x \in ToSet(invariant)
    BY <1>6 DEF ToSet
  <2> HIDE DEF x
  <2>3. /\ hoistable' \in Seq(Instructions) /\ Injective(hoistable')
        /\ DOMAIN hoistable = 1..n /\ n \in Nat
        /\ DOMAIN hoistable' = 1..(n + 1)
        /\ \A j \in 1..n : hoistable'[j] = hoistable[j]
        /\ hoistable'[n + 1] = x
        /\ ToSet(hoistable') = ToSet(hoistable) \cup {x}
    BY <1>6, <1>7, <2>1, AppendNew
  <2> HIDE DEF n
  <2>4. ToSet(hoistable') \subseteq {invariant'[j] : j \in {k \in DOMAIN invariant' : k < at'}}
    <3>1. \A j \in DOMAIN invariant : j < at => j < at'
      BY <1>1, <1>2, <1>6
    <3>2. at < at'
      BY <1>1, <1>2
    <3> QED
      BY <1>1, <1>2, <1>6, <2>3, <3>1, <3>2 DEF x
  <2>5. \A o \in prog.uses[x] : Local(o) => \E j \in 1..(at - 1) : invariant[j] = o
    BY <1>2, <1>6 DEF Found, x
  <2>6. ASSUME NEW k \in DOMAIN hoistable', NEW o \in prog.uses[hoistable'[k]],
               Local(o), o \in ToSet(hoistable')
        PROVE  \E j \in 1..(k - 1) : hoistable'[j] = o
    <3>1. CASE k = n + 1
      <4>1. o # x
        <5>1. PICK j \in 1..(at - 1) : invariant[j] = o
          BY <2>3, <2>5, <2>6, <3>1
        <5>2. j \in DOMAIN invariant /\ j # at
          BY <1>1, <1>2, <1>6, <5>1
        <5> QED
          BY <1>6, <5>1, <5>2 DEF Injective, x
      <4>2. PICK j \in 1..n : hoistable[j] = o
        BY <2>3, <2>6, <4>1 DEF ToSet
      <4>3. j \in 1..(k - 1)
        BY <2>3, <3>1, <4>2
      <4> QED
        BY <2>3, <4>2, <4>3
    <3>2. CASE k # n + 1
      <4>1. k \in 1..n /\ hoistable'[k] = hoistable[k]
        BY <2>3, <3>2
      <4>2. PICK i \in DOMAIN invariant : i < at /\ hoistable[k] = invariant[i]
        BY <1>8, <2>3, <4>1
      <4>3. PICK j \in 1..(i - 1) : invariant[j] = o
        BY <1>2, <2>6, <4>1, <4>2 DEF Found
      <4>4. o # x
        <5>1. j \in DOMAIN invariant /\ j # at
          BY <1>2, <1>6, <4>2, <4>3
        <5> QED
          BY <1>6, <4>3, <5>1 DEF Injective, x
      <4>5. o \in ToSet(hoistable)
        BY <2>3, <2>6, <4>4
      <4>6. PICK m \in 1..(k - 1) : hoistable[m] = o
        BY <1>2, <2>3, <2>6, <4>1, <4>5 DEF ChosenInOrder
      <4>7. m \in 1..n
        BY <2>3, <4>1, <4>6
      <4> QED
        BY <2>3, <4>6, <4>7
    <3> QED
      BY <3>1, <3>2
  <2>7. ChosenInOrder'
    <3>1. ToSet(hoistable') \subseteq ToSet(invariant')
      BY <1>1, <1>2, <2>2, <2>3 DEF ChosenInOrder
    <3> QED
      BY <1>1, <1>3, <1>4, <2>3, <2>6, <3>1 DEF ChosenInOrder
  <2>8. at' \in Nat \ {0}
    BY <1>1, <1>2
  <2> QED
    BY <1>1, <1>2, <1>3, <1>4, <1>5, <2>4, <2>7, <2>8 DEF LInv
<1> QED
  BY <1>9, <1>10

\* Where a hoistable instruction comes from.
LEMMA HoistablePlace ==
  ASSUME LInv, Working, NEW k \in DOMAIN hoistable
  PROVE  /\ hoistable[k] \in Instructions
         /\ Orig(hoistable[k]) \in LoopBlocks(L) /\ Orig(hoistable[k]) \in Blocks
         /\ k \in Nat /\ k >= 1 /\ k <= Len(hoistable) /\ Len(hoistable) \in Nat
<1>1. prog \in Programs /\ Found /\ ChosenInOrder
  BY DEF LInv, Working
<1>2. hoistable[k] \in Instructions /\ k \in 1..Len(hoistable) /\ Len(hoistable) \in Nat
  BY <1>1 DEF ChosenInOrder
<1>3. hoistable[k] \in ToSet(invariant)
  BY <1>1 DEF ChosenInOrder, ToSet
<1>4. Orig(hoistable[k]) \in LoopBlocks(L)
  BY <1>1, <1>3 DEF Found, ToSet
<1>5. Orig(hoistable[k]) \in Blocks
  BY <1>1, <1>2, OfProgram, WhereItStands DEF Orig
<1> QED
  BY <1>2, <1>4, <1>5

LEMMA ChosenL == ASSUME LInv, Chosen PROVE LInv'
<1>1. /\ pc = "choose" /\ at' = Len(hoistable) + 1 /\ visited' = {} /\ pc' = "hoist"
      /\ UNCHANGED <<prog, code, loop, invariant, hoistable, node>>
  BY DEF Chosen
<1>2. /\ Working /\ loop \in DOMAIN prog.loops /\ L.simplified /\ prog \in Programs
      /\ node = None /\ loop \in 1..(Len(prog.loops) + 1)
  BY <1>1 DEF LInv, Working
<1>3. /\ prog' \in Programs /\ DOMAIN code' = Blocks' /\ EachOnce(code', Instructions')
      /\ Kept' /\ HoistedInOrder' /\ Moved' = Moved /\ \A i : Orig(i)' = Orig(i)
  BY <1>1, CodeStays
<1>4. L' = L /\ Found' /\ ChosenInOrder'
  BY <1>1, <1>2, ListsStay
<1>5. InPreheaders'
  BY <1>1, PreheadersStay
<1>6. Len(hoistable) \in Nat
  BY <1>2 DEF LInv, Working, ChosenInOrder
<1>7. ASSUME NEW k \in DOMAIN hoistable
      PROVE  hoistable[k] \notin Moved /\ Orig(hoistable[k]) # None
  <2>1. /\ hoistable[k] \in Instructions /\ Orig(hoistable[k]) \in LoopBlocks(L)
        /\ Orig(hoistable[k]) \in Blocks
    BY <1>2, HoistablePlace
  <2>2. hoistable[k] \notin Moved
    BY <1>1, <1>2, <2>1, LoopIsOriginal
  <2> QED
    BY <1>2, <2>1, <2>2, OfProgram
<1>8. Visit'
  <2>1. \A k \in DOMAIN hoistable' : hoistable'[k] \in Moved' <=> Passed(k)'
    BY <1>1, <1>2, <1>3, <1>7 DEF Passed
  <2>2. at' > Len(hoistable')
    BY <1>1, <1>6
  <2> QED
    BY <1>1, <1>2, <2>1, <2>2 DEF Visit
<1>9. at' \in Nat \ {0}
  BY <1>1, <1>6
<1> QED
  BY <1>1, <1>2, <1>3, <1>4, <1>5, <1>8, <1>9 DEF LInv

LEMMA VisitBlockL == ASSUME LInv, NEW b \in Blocks, VisitBlock(b) PROVE LInv'
<1>1. /\ pc = "hoist" /\ at > Len(hoistable) /\ b \notin visited /\ DominatorsVisited(b)
      /\ visited' = visited \cup {b} /\ node' = b /\ at' = 1 /\ pc' = pc
      /\ UNCHANGED <<prog, code, loop, invariant, hoistable>>
  BY DEF VisitBlock
<1>2. /\ Working /\ loop \in DOMAIN prog.loops /\ L.simplified /\ prog \in Programs
      /\ Visit /\ loop \in 1..(Len(prog.loops) + 1) /\ at \in Nat
  BY <1>1 DEF LInv, Working
<1>3. /\ prog' \in Programs /\ DOMAIN code' = Blocks' /\ EachOnce(code', Instructions')
      /\ Kept' /\ HoistedInOrder' /\ Moved' = Moved /\ Blocks' = Blocks
      /\ \A i : Orig(i)' = Orig(i)
  BY <1>1, CodeStays
<1>4. L' = L /\ Found' /\ ChosenInOrder'
  BY <1>1, <1>2, ListsStay
<1>5. InPreheaders'
  BY <1>1, PreheadersStay
<1>6. \A c, d : Dominates(c, d)' = Dominates(c, d)
  BY <1>1 DEF Dominates
<1>7. \A c \in visited : \A a \in Blocks : Dominates(a, c) => a \in visited
  BY <1>2 DEF Visit
<1>8. ASSUME NEW k \in DOMAIN hoistable
      PROVE  hoistable[k] \in Moved <=> Passed(k)'
  <2>1. /\ Orig(hoistable[k]) \in Blocks
        /\ k \in Nat /\ k >= 1 /\ k <= Len(hoistable) /\ Len(hoistable) \in Nat
    BY <1>2, HoistablePlace
  <2>2. None \notin Blocks
    BY <1>2, OfProgram
  <2>3. node \in visited \cup {None} /\ (hoistable[k] \in Moved <=> Passed(k))
    BY <1>2 DEF Visit
  <2>4. k < at /\ ~(k < at')
    BY <1>1, <1>2, <2>1
  <2>5. Passed(k) <=> Orig(hoistable[k]) \in visited
    BY <2>1, <2>2, <2>3, <2>4 DEF Passed
  <2>6. Passed(k)' <=> Orig(hoistable[k]) \in visited
    <3>1. Orig(hoistable[k])' = Orig(hoistable[k])
      BY <1>1 DEF Orig
    <3>2. Passed(k)' <=> \/ Orig(hoistable[k]) \in visited' \ {node'}
                         \/ Orig(hoistable[k]) = node' /\ k < at'
      BY <1>1, <3>1 DEF Passed, Orig
    <3> QED
      BY <1>1, <2>4, <3>2
  <2> QED
    BY <2>3, <2>5, <2>6
<1>9. Visit'
  <2>1. visited' \subseteq Blocks' /\ node' \in visited' \cup {None} /\ node' # None
    <3>1. visited \subseteq Blocks /\ None \notin Blocks
      BY <1>2, OfProgram DEF Visit
    <3> QED
      BY <1>1, <1>3, <3>1
  <2>2. \A c \in visited' : \A a \in Blocks : Dominates(a, c) => a \in visited'
    BY <1>1, <1>7 DEF DominatorsVisited
  <2>3. \A c \in visited' \ {node'} : ~Dominates(node', c)
    BY <1>1, <1>7
  <2>4. \A k \in DOMAIN hoistable' : hoistable'[k] \in Moved' <=> Passed(k)'
    BY <1>1, <1>3, <1>8
  <2> QED
    BY <1>3, <1>6, <2>1, <2>2, <2>3, <2>4 DEF Visit
<1> QED
  BY <1>1, <1>2, <1>3, <1>4, <1>5, <1>9 DEF LInv

LEMMA EndLoopL == ASSUME LInv, EndLoop \/ Return PROVE LInv'
<1>1. /\ UNCHANGED <<prog, code, at>>
      /\ pc' \in {"loops", "done"} /\ invariant' = <<>> /\ hoistable' = <<>> /\ node' = None
      /\ \/ loop' = loop /\ pc = "loops"
         \/ loop' = loop + 1 /\ pc = "hoist"
  BY DEF EndLoop, Return, LInv, Visited
<1>2. /\ prog' \in Programs /\ DOMAIN code' = Blocks' /\ EachOnce(code', Instructions')
      /\ Kept' /\ HoistedInOrder'
  BY <1>1, CodeStays
<1>3. InPreheaders'
  BY <1>1, PreheadersStay
<1>4. loop' \in 1..(Len(prog'.loops) + 1)
  <2>1. prog \in Programs /\ loop \in 1..(Len(prog.loops) + 1) /\ (pc = "hoist" => loop \in DOMAIN prog.loops)
    BY DEF LInv
  <2>2. Len(prog.loops) \in Nat /\ DOMAIN prog.loops = 1..Len(prog.loops)
    BY <2>1, OfProgram
  <2> QED
    BY <1>1, <2>1, <2>2
<1>5. at' \in Nat \ {0}
  BY <1>1 DEF LInv
<1> QED
  BY <1>1, <1>2, <1>3, <1>4, <1>5 DEF LInv

LEMMA StutterL == ASSUME LInv, UNCHANGED vars PROVE LInv'
<1>1. UNCHANGED <<prog, code, loop, at, invariant, hoistable, visited, node, pc>>
  BY DEF vars
<1>2. /\ prog' \in Programs /\ DOMAIN code' = Blocks' /\ EachOnce(code', Instructions')
      /\ Kept' /\ HoistedInOrder' /\ Moved' = Moved /\ Blocks' = Blocks
      /\ \A i : Orig(i)' = Orig(i)
  BY <1>1, CodeStays
<1>3. InPreheaders'
  BY <1>1, PreheadersStay
<1>4. Visit => Visit'
  BY <1>1, <1>2 DEF Visit, Dominates, Passed
<1>5. Working => L' = L /\ Found' /\ ChosenInOrder'
  BY <1>1, ListsStay
<1> QED
  BY <1>1, <1>2, <1>3, <1>4, <1>5 DEF LInv, Working

-----------------------------------------------------------------------------
(* The step that moves. *)

\* An instruction does not use itself in its place: positions are numbers.
LEMMA NotBeforeItself ==
  ASSUME NEW c, NEW is, EachOnce(c, is), NEW i \in is
  PROVE  ~InFront(c, i, i)
<1>1. Holds(c, i) \in DOMAIN c /\ Position(c, i) \in DOMAIN c[Holds(c, i)]
  BY WhereItStands
<1>2. c[Holds(c, i)] \in Seq(is)
  BY <1>1 DEF EachOnce
<1>3. Position(c, i) \in Nat
  BY <1>1, <1>2
<1> QED
  BY <1>3 DEF InFront

\* A hoistable instruction that is taken when the visit is at its block.
Taken(x) ==
  /\ LInv /\ Hoist /\ x = hoistable[at] /\ Parent(x) = node

LEMMA TakenPlace ==
  ASSUME NEW x, Taken(x)
  PROVE  /\ x \in Instructions /\ x \notin Moved
         /\ Orig(x) = node /\ node \in LoopBlocks(L)
         /\ at \in DOMAIN hoistable /\ at \in Nat
         /\ L.simplified /\ L.preheader \in Blocks /\ L.preheader # node
         /\ code' = Relocated(code, x, L.preheader)
<1>1. /\ pc = "hoist" /\ at <= Len(hoistable) /\ x = hoistable[at] /\ Parent(x) = node
      /\ code' = IF Parent(hoistable[at]) = node THEN MoveBefore(hoistable[at], L.preheader) ELSE code
  BY DEF Taken, Hoist
<1>2. /\ LInv /\ Working /\ loop \in DOMAIN prog.loops /\ L.simplified /\ prog \in Programs
      /\ Visit /\ at \in Nat \ {0} /\ ChosenInOrder
  BY <1>1 DEF LInv, Working, Taken
<1>3. at \in DOMAIN hoistable
  BY <1>1, <1>2 DEF ChosenInOrder
<1>4. x \in Instructions /\ Orig(x) \in LoopBlocks(L) /\ Orig(x) \in Blocks
  BY <1>1, <1>2, <1>3, HoistablePlace
<1>5. /\ L.preheader \in Blocks /\ L.preheader \notin LoopBlocks(L)
      /\ Dominates(L.preheader, Orig(x))
  BY <1>2, <1>4, OfLoops DEF L
<1>6. x \notin Moved
  <2> SUFFICES ASSUME x \in Moved PROVE FALSE
    OBVIOUS
  <2>1. node = L.preheader
    BY <1>1, <1>2, <1>4, LoopIsOriginal
  <2>2. Passed(at)
    BY <1>1, <1>2, <1>3 DEF Visit
  <2>3. Orig(x) \in visited \ {node}
    BY <1>1, <1>2, <2>2 DEF Passed
  <2>4. ~Dominates(node, Orig(x))
    BY <1>2, <2>3 DEF Visit
  <2> QED
    BY <1>5, <2>1, <2>4
<1>7. Orig(x) = node
  BY <1>1, <1>4, <1>6 DEF Moved, Orig, Parent
<1>8. code' = Relocated(code, x, L.preheader)
  BY <1>1 DEF MoveBefore, Relocated, Parent
<1> QED
  BY <1>2, <1>3, <1>4, <1>5, <1>6, <1>7, <1>8

\* Where everything stands afterwards.
LEMMA TakenMoves ==
  ASSUME NEW x, Taken(x)
  PROVE  /\ DOMAIN code' = Blocks' /\ EachOnce(code', Instructions')
         /\ Instructions' = Instructions /\ prog' = prog
         /\ Parent(x)' = L.preheader
         /\ \A i \in Instructions : i # x => Parent(i)' = Parent(i)
         /\ \A i, j \in Instructions : i # x /\ j # x /\ InFront(code, i, j) => InFront(code', i, j)
         /\ \A i \in Instructions : Parent(i) = L.preheader => InFront(code', i, x)
         /\ Moved' = Moved \cup {x}
<1>1. /\ x \in Instructions /\ x \notin Moved /\ Orig(x) = node /\ L.preheader \in Blocks
      /\ L.preheader # node /\ code' = Relocated(code, x, L.preheader)
  BY TakenPlace
<1>2. prog' = prog /\ Blocks' = Blocks /\ Instructions' = Instructions
  BY DEF Taken, Hoist, Blocks, Instructions
<1>3. DOMAIN code = Blocks /\ EachOnce(code, Instructions) /\ Holds(code, x) = node
  BY DEF Taken, LInv, Parent
<1> DEFINE p == L.preheader
<1>4. p \in DOMAIN code /\ p # Holds(code, x)
  BY <1>1, <1>3
<1>5. /\ DOMAIN code' = DOMAIN code /\ EachOnce(code', Instructions)
      /\ Holds(code', x) = p
      /\ \A i \in Instructions : i # x => Holds(code', i) = Holds(code, i)
  BY <1>1, <1>3, <1>4, MovePlaces
<1>6. /\ \A i, j \in Instructions : i # x /\ j # x /\ InFront(code, i, j) => InFront(code', i, j)
      /\ \A i \in Instructions : Holds(code, i) = p => InFront(code', i, x)
  BY <1>1, <1>3, <1>4, MoveKeepsOrder
<1>7. Moved' = Moved \cup {x}
  <2>1. Moved' = {i \in Instructions : Holds(code', i) # Holds(prog.code, i)}
    BY <1>2 DEF Moved
  <2>2. Holds(prog.code, x) = node
    BY <1>1 DEF Orig
  <2> QED
    BY <1>1, <1>5, <2>1, <2>2 DEF Moved
<1> QED
  BY <1>2, <1>3, <1>5, <1>6, <1>7 DEF Parent

LEMMA TakenInPreheaders == ASSUME NEW x, Taken(x) PROVE InPreheaders'
<1>1. /\ prog' = prog /\ Moved' = Moved \cup {x} /\ Parent(x)' = L.preheader
      /\ \A i \in Instructions : i # x => Parent(i)' = Parent(i)
  BY TakenMoves
<1>2. /\ pc' = "hoist" /\ loop' = loop /\ hoistable' = hoistable /\ x = hoistable[at]
      /\ loop \in DOMAIN prog.loops /\ loop \in 1..loop /\ InPreheaders
      /\ prog \in Programs
  <2>1. loop \in 1..(Len(prog.loops) + 1) /\ loop \in DOMAIN prog.loops /\ InPreheaders /\ prog \in Programs
    BY DEF Taken, LInv, Hoist
  <2>2. Len(prog.loops) \in Nat
    BY <2>1, OfProgram
  <2> QED
    BY <2>1, <2>2 DEF Taken, Hoist
<1>3. /\ Orig(x) \in LoopBlocks(L) /\ at \in DOMAIN hoistable /\ L.simplified
  BY TakenPlace
<1>4. \A i : Orig(i)' = Orig(i)
  BY <1>1 DEF Orig
<1> SUFFICES ASSUME NEW i \in Moved \cup {x}
             PROVE  \E l \in 1..loop :
                      /\ l \in DOMAIN prog.loops /\ prog.loops[l].simplified
                      /\ Orig(i) \in LoopBlocks(prog.loops[l]) /\ Parent(i)' = prog.loops[l].preheader
                      /\ l = loop => pc' = "hoist" /\ i \in ToSet(hoistable)
  BY <1>1, <1>2, <1>4 DEF InPreheaders
<1>5. CASE i = x
  <2>1. x \in ToSet(hoistable)
    BY <1>2, <1>3 DEF ToSet
  <2> QED
    BY <1>1, <1>2, <1>3, <1>5, <2>1 DEF L
<1>6. CASE i # x
  <2>1. i \in Moved /\ i \in Instructions
    BY <1>6 DEF Moved
  <2>2. PICK l \in 1..loop :
          /\ l \in DOMAIN prog.loops /\ prog.loops[l].simplified
          /\ Orig(i) \in LoopBlocks(prog.loops[l]) /\ Parent(i) = prog.loops[l].preheader
          /\ l = loop => pc = "hoist" /\ i \in ToSet(hoistable)
    BY <1>2, <2>1 DEF InPreheaders
  <2> QED
    BY <1>1, <1>2, <1>6, <2>1, <2>2
<1> QED
  BY <1>5, <1>6

LEMMA TakenKeeps == ASSUME NEW x, Taken(x) PROVE Kept'
<1>1. /\ prog' = prog /\ Moved' = Moved \cup {x} /\ Instructions' = Instructions
      /\ Parent(x)' = L.preheader
      /\ \A i \in Instructions : i # x => Parent(i)' = Parent(i)
      /\ \A i, j \in Instructions : i # x /\ j # x /\ InFront(code, i, j) => InFront(code', i, j)
      /\ \A i \in Instructions : Parent(i) = L.preheader => InFront(code', i, x)
  BY TakenMoves
<1>2. /\ \A i, o \in Instructions \ Moved : InFront(prog.code, o, i) => InFront(code, o, i)
      /\ \A i \in Moved, o \in Instructions \ Moved : Parent(o) = Parent(i) => InFront(code, o, i)
  BY DEF Taken, LInv, Kept
<1>3. ASSUME NEW i \in Instructions \ Moved', NEW o \in Instructions \ Moved', InFront(prog.code, o, i)
      PROVE  InFront(code', o, i)
  BY <1>1, <1>2, <1>3
<1>4. ASSUME NEW i \in Moved', NEW o \in Instructions \ Moved', Parent(o)' = Parent(i)'
      PROVE  InFront(code', o, i)
  <2>1. o # x /\ o \in Instructions \ Moved /\ Parent(o)' = Parent(o)
    BY <1>1
  <2>2. CASE i = x
    BY <1>1, <1>4, <2>1, <2>2
  <2>3. CASE i # x
    <3>1. i \in Moved /\ i \in Instructions
      BY <1>1, <2>3 DEF Moved
    <3>2. Parent(o) = Parent(i)
      BY <1>1, <1>4, <2>1, <2>3, <3>1
    <3> QED
      BY <1>1, <1>2, <2>1, <2>3, <3>1, <3>2
  <2> QED
    BY <2>2, <2>3
<1>5. \A i, o \in Instructions \ Moved' : InFront(prog.code, o, i) => InFront(code', o, i)
  BY <1>3
<1>6. \A i \in Moved', o \in Instructions \ Moved' : Parent(o)' = Parent(i)' => InFront(code', o, i)
  BY <1>4
<1> QED
  BY <1>1, <1>5, <1>6 DEF Kept, InFront

LEMMA TakenVisits == ASSUME NEW x, Taken(x) PROVE Visit'
<1>1. /\ prog' = prog /\ Moved' = Moved \cup {x}
  BY TakenMoves
<1>2. /\ Orig(x) = node /\ at \in DOMAIN hoistable /\ at \in Nat /\ x \notin Moved /\ node \in LoopBlocks(L)
  BY TakenPlace
<1>3. /\ at' = at + 1 /\ UNCHANGED <<visited, node, hoistable>> /\ x = hoistable[at]
  BY DEF Taken, Hoist
<1>4. /\ Visit /\ Injective(hoistable) /\ hoistable \in Seq(Instructions) /\ prog \in Programs
      /\ loop \in DOMAIN prog.loops
  BY DEF Taken, LInv, Hoist, ChosenInOrder
<1>5. node # None
  BY <1>2, <1>4, OfProgram DEF L
<1>6. ASSUME NEW k \in DOMAIN hoistable
      PROVE  hoistable[k] \in Moved' <=> Passed(k)'
  <2>1. k \in Nat
    BY <1>4
  <2>2. Passed(k)' <=> \/ Orig(hoistable[k]) \in visited \ {node}
                       \/ Orig(hoistable[k]) = node /\ k < at + 1
    BY <1>1, <1>3 DEF Passed, Orig
  <2>3. CASE k = at
    BY <1>1, <1>2, <1>3, <2>2, <2>3
  <2>4. CASE k # at
    <3>1. hoistable[k] # x
      BY <1>2, <1>3, <1>4, <2>4 DEF Injective
    <3>2. k < at + 1 <=> k < at
      BY <1>2, <2>1, <2>4
    <3>3. hoistable[k] \in Moved <=> Passed(k)
      BY <1>4 DEF Visit
    <3> QED
      BY <1>1, <2>2, <3>1, <3>2, <3>3 DEF Passed
  <2> QED
    BY <2>3, <2>4
<1>7. Blocks' = Blocks /\ \A a, b : Dominates(a, b)' = Dominates(a, b)
  BY <1>1 DEF Blocks, Dominates
<1>8. \A k \in DOMAIN hoistable' : hoistable'[k] \in Moved' <=> Passed(k)'
  BY <1>3, <1>6
<1> QED
  BY <1>3, <1>4, <1>5, <1>7, <1>8 DEF Visit

\* The operands of what is in the preheader are in front of it.
LEMMA TakenInOrder == ASSUME NEW x, Taken(x) PROVE HoistedInOrder'
<1> DEFINE p == L.preheader
<1>1. /\ prog' = prog /\ Moved' = Moved \cup {x} /\ Instructions' = Instructions
      /\ Parent(x)' = p
      /\ \A i \in Instructions : i # x => Parent(i)' = Parent(i)
      /\ \A i, j \in Instructions : i # x /\ j # x /\ InFront(code, i, j) => InFront(code', i, j)
      /\ \A i \in Instructions : Parent(i) = p => InFront(code', i, x)
  BY TakenMoves
<1>2. /\ Orig(x) = node /\ at \in DOMAIN hoistable /\ at \in Nat /\ x \notin Moved /\ node \in LoopBlocks(L)
      /\ L.simplified /\ x \in Instructions
  BY TakenPlace
<1>3. /\ Visit /\ ChosenInOrder /\ prog \in Programs /\ loop \in DOMAIN prog.loops
      /\ InPreheaders /\ HoistedInOrder /\ x = hoistable[at]
  BY DEF Taken, LInv, Hoist
<1>4. EachOnce(prog.code, Instructions)
  BY <1>3, OfProgram
<1> SUFFICES ASSUME NEW i \in Moved' \ prog.phis, NEW o \in prog.uses[i] \cap Moved',
                    Orig(o) \notin InnerBlocks, Parent(i)' = Parent(o)'
             PROVE  InFront(code', o, i)
  BY <1>1 DEF HoistedInOrder, Arrives, InFront, Orig, Parent, InnerBlocks
<1>5. /\ i \in Instructions \ prog.phis /\ o \in Instructions
      /\ \/ Orig(o) = Orig(i) /\ InFront(prog.code, o, i)
         \/ Orig(o) # Orig(i) /\ Dominates(Orig(o), Orig(i))
  <2>1. i \in Instructions
    BY <1>1, <1>2 DEF Moved
  <2> QED
    BY <1>3, <2>1, OperandAvailable
<1>6. i # o
  BY <1>4, <1>5, NotBeforeItself
<1>7. CASE i # x /\ o # x
  <2>1. i \in Moved \ prog.phis /\ o \in prog.uses[i] \cap Moved /\ Parent(i) = Parent(o)
    BY <1>1, <1>5, <1>7
  <2>2. InFront(code, o, i)
    BY <1>3, <2>1 DEF HoistedInOrder, Arrives, InFront, Orig, Parent
  <2> QED
    BY <1>1, <1>5, <1>7, <2>2
<1>8. CASE i = x
  BY <1>1, <1>5, <1>6, <1>8
<1>9. CASE o = x
  <2>1. i # x /\ i \in Moved /\ Parent(i) = p
    BY <1>1, <1>5, <1>6, <1>9
  <2>2. PICK l \in 1..loop :
          /\ l \in DOMAIN prog.loops /\ prog.loops[l].simplified
          /\ Orig(i) \in LoopBlocks(prog.loops[l]) /\ Parent(i) = prog.loops[l].preheader
          /\ l = loop => pc = "hoist" /\ i \in ToSet(hoistable)
    BY <1>3, <2>1 DEF InPreheaders
  <2>3. l = loop
    BY <1>2, <1>3, <2>1, <2>2, OfLoops DEF L
  <2>4. PICK k \in DOMAIN hoistable : hoistable[k] = i
    BY <2>2, <2>3 DEF ToSet
  <2>5. Local(x)
    BY <1>2, <1>3, <1>9 DEF Local, InnerBlocks, L
  <2>6. x \in ToSet(hoistable)
    BY <1>2, <1>3 DEF ToSet
  <2>7. PICK j \in 1..(k - 1) : hoistable[j] = x
    BY <1>3, <1>9, <2>4, <2>5, <2>6 DEF ChosenInOrder
  <2>8. at < k /\ k \in Nat
    <3>1. k \in 1..Len(hoistable) /\ Len(hoistable) \in Nat
      BY <1>3 DEF ChosenInOrder
    <3>2. j \in DOMAIN hoistable
      BY <1>3, <2>7, <3>1 DEF ChosenInOrder
    <3>3. j = at
      BY <1>2, <1>3, <2>7, <3>2 DEF ChosenInOrder, Injective
    <3> QED
      BY <2>7, <3>1, <3>3
  <2>9. Passed(k)
    BY <1>3, <2>1, <2>4 DEF Visit
  <2>10. Orig(i) \in visited \ {node}
    BY <1>2, <2>4, <2>8, <2>9 DEF Passed
  <2>11. ~Dominates(node, Orig(i))
    BY <1>3, <2>10 DEF Visit
  <2> QED
    BY <1>2, <1>5, <1>9, <2>10, <2>11
<1> QED
  BY <1>7, <1>8, <1>9

LEMMA HoistL == ASSUME LInv, Hoist PROVE LInv'
<1>1. /\ pc = "hoist" /\ at <= Len(hoistable) /\ at' = at + 1 /\ pc' = pc
      /\ code' = IF Parent(hoistable[at]) = node THEN MoveBefore(hoistable[at], L.preheader) ELSE code
      /\ UNCHANGED <<prog, loop, invariant, hoistable, visited, node>>
  BY DEF Hoist
<1>2. /\ Working /\ loop \in DOMAIN prog.loops /\ L.simplified /\ prog \in Programs
      /\ Visit /\ loop \in 1..(Len(prog.loops) + 1) /\ at \in Nat \ {0} /\ ChosenInOrder
  BY <1>1 DEF LInv, Working
<1>3. L' = L /\ Found' /\ ChosenInOrder' /\ at' \in Nat \ {0} /\ at \in DOMAIN hoistable
  BY <1>1, <1>2, ListsStay DEF ChosenInOrder
<1>4. ASSUME Parent(hoistable[at]) = node
      PROVE  DOMAIN code' = Blocks' /\ EachOnce(code', Instructions')
             /\ InPreheaders' /\ Kept' /\ Visit' /\ HoistedInOrder'
  <2>1. Taken(hoistable[at])
    BY <1>4 DEF Taken
  <2> QED
    BY <2>1, TakenMoves, TakenInPreheaders, TakenKeeps, TakenVisits, TakenInOrder
<1>5. ASSUME Parent(hoistable[at]) # node
      PROVE  DOMAIN code' = Blocks' /\ EachOnce(code', Instructions')
             /\ InPreheaders' /\ Kept' /\ Visit' /\ HoistedInOrder'
  <2>1. code' = code
    BY <1>1, <1>5
  <2>2. /\ DOMAIN code' = Blocks' /\ EachOnce(code', Instructions') /\ Moved' = Moved
        /\ Kept' /\ HoistedInOrder' /\ Blocks' = Blocks
    BY <1>1, <2>1, CodeStays
  <2>3. InPreheaders'
    BY <1>1, <2>1, PreheadersStay
  <2>4. Orig(hoistable[at]) # node
    <3> SUFFICES ASSUME Orig(hoistable[at]) = node PROVE FALSE
      OBVIOUS
    <3>1. hoistable[at] \in Instructions
      BY <1>2, <1>3, HoistablePlace
    <3>2. hoistable[at] \in Moved
      BY <1>5, <3>1 DEF Moved, Orig, Parent
    <3>3. Passed(at)
      BY <1>2, <1>3, <3>2 DEF Visit
    <3> QED
      BY <1>2, <3>3 DEF Passed
  <2>5. ASSUME NEW k \in DOMAIN hoistable
        PROVE  hoistable[k] \in Moved <=> Passed(k)'
    <3>1. k \in Nat
      BY <1>2 DEF ChosenInOrder
    <3>2. Passed(k)' <=> \/ Orig(hoistable[k]) \in visited \ {node}
                         \/ Orig(hoistable[k]) = node /\ k < at + 1
      BY <1>1 DEF Passed, Orig
    <3>3. Orig(hoistable[k]) = node => (k < at + 1 <=> k < at)
      BY <1>2, <2>4, <3>1
    <3>4. hoistable[k] \in Moved <=> Passed(k)
      BY <1>2 DEF Visit
    <3> QED
      BY <3>2, <3>3, <3>4 DEF Passed
  <2>6. Visit'
    <3>1. \A k \in DOMAIN hoistable' : hoistable'[k] \in Moved' <=> Passed(k)'
      BY <1>1, <2>2, <2>5
    <3>2. \A a, b : Dominates(a, b)' = Dominates(a, b)
      BY <1>1 DEF Dominates
    <3>3. node # None
      <4>1. Len(hoistable) \in Nat
        BY <1>2 DEF ChosenInOrder
      <4> QED
        BY <1>1, <1>2, <4>1 DEF Visit
    <3> QED
      BY <1>1, <1>2, <2>2, <3>1, <3>2, <3>3 DEF Visit
  <2> QED
    BY <2>2, <2>3, <2>6
<1> QED
  BY <1>1, <1>2, <1>3, <1>4, <1>5 DEF LInv

THEOREM HoistingInvariant == Spec => []LInv
<1>1. Init => LInv
  BY InitL
<1>2. ASSUME LInv, [Next]_vars PROVE LInv'
  <2>1. CASE Next
    BY <2>1, <1>2, BeginLoopL, ScanL, RoundL, ChooseL, ChosenL, VisitBlockL, HoistL, EndLoopL DEF Next
  <2>2. CASE UNCHANGED vars
    BY <2>2, <1>2, StutterL
  <2> QED
    BY <2>1, <2>2, <1>2
<1> QED
  BY <1>1, <1>2, PTL DEF Spec

\* What is hoisted arrives in the preheader behind the operands that are
\* hoisted there from no inner loop, whatever order the dominator tree gives
\* to siblings (lab-loops.cpp, run(): the visit and moveBefore()).
THEOREM OperandsArriveFirst == Spec => []HoistedInOrder
<1>1. LInv => HoistedInOrder
  BY DEF LInv
<1> QED
  BY <1>1, HoistingInvariant, PTL

-----------------------------------------------------------------------------
(* Definitions stay in front of uses. *)

LEMMA TypesKept == ASSUME LInv PROVE TypeOK
<1>1. ToSet(hoistable) \subseteq ToSet(invariant)
  BY EmptyLists DEF LInv, ChosenInOrder
<1> QED
  BY <1>1 DEF LInv, TypeOK

\* The first loop has been visited, it has no inner loop, and what was found
\* in it is hoistable and no phi.
AllHoisted ==
  /\ LInv /\ Visited /\ Flat(L) /\ loop = 1
  /\ ToSet(hoistable) = ToSet(invariant) /\ ToSet(invariant) \cap prog.phis = {}

\* Then what was found is what has moved, all of it to the preheader.
LEMMA AllMoved ==
  ASSUME AllHoisted
  PROVE  /\ Moved = ToSet(invariant) /\ Moved \cap prog.phis = {}
         /\ \A i \in Moved : /\ Orig(i) \in LoopBlocks(L) /\ Parent(i) = L.preheader
                             /\ Dominates(L.preheader, Orig(i)) /\ Orig(i) # L.preheader
                             /\ Orig(i) \notin InnerBlocks
         /\ L.preheader \in Blocks
<1>1. /\ Working /\ Visit /\ InPreheaders /\ prog \in Programs /\ visited = Blocks /\ at > Len(hoistable)
      /\ loop \in DOMAIN prog.loops /\ L.simplified /\ loop = 1 /\ LInv /\ at \in Nat
      /\ ToSet(hoistable) = ToSet(invariant) /\ ToSet(invariant) \cap prog.phis = {}
      /\ L.inner = {}
  BY DEF AllHoisted, LInv, Visited, Working, Flat
<1>2. \A k \in DOMAIN hoistable : hoistable[k] \in Moved
  <2> TAKE k \in DOMAIN hoistable
  <2>1. /\ Orig(hoistable[k]) \in Blocks
        /\ k \in Nat /\ k >= 1 /\ k <= Len(hoistable) /\ Len(hoistable) \in Nat
    BY <1>1, HoistablePlace
  <2>2. Passed(k)
    BY <1>1, <2>1 DEF Passed
  <2> QED
    BY <1>1, <2>2 DEF Visit
<1>3. ASSUME NEW i \in Moved
      PROVE  /\ Orig(i) \in LoopBlocks(L) /\ Parent(i) = L.preheader /\ i \in ToSet(hoistable)
             /\ Dominates(L.preheader, Orig(i)) /\ Orig(i) # L.preheader
             /\ Orig(i) \notin InnerBlocks
  <2>1. PICK l \in 1..loop :
          /\ l \in DOMAIN prog.loops /\ prog.loops[l].simplified
          /\ Orig(i) \in LoopBlocks(prog.loops[l]) /\ Parent(i) = prog.loops[l].preheader
          /\ l = loop => pc = "hoist" /\ i \in ToSet(hoistable)
    BY <1>1 DEF InPreheaders
  <2>2. l = loop
    BY <1>1, <2>1
  <2>3. Orig(i) \in LoopBlocks(L) /\ Parent(i) = L.preheader /\ i \in ToSet(hoistable)
    BY <2>1, <2>2 DEF L
  <2>4. Dominates(L.preheader, Orig(i)) /\ Orig(i) # L.preheader
    BY <1>1, <2>3, OfLoops DEF L
  <2>5. ASSUME NEW m \in DOMAIN prog.loops PROVE Orig(i) \notin prog.loops[m].inner
    <3>1. CASE m = loop
      BY <1>1, <3>1 DEF L
    <3>2. CASE m # loop
      <4>1. Orig(i) \notin LoopBlocks(prog.loops[m])
        BY <1>1, <2>3, <3>2, OfLoops DEF L
      <4>2. prog.loops[m].inner \subseteq LoopBlocks(prog.loops[m])
        BY <1>1, OfLoops
      <4> QED
        BY <4>1, <4>2
    <3> QED
      BY <3>1, <3>2
  <2>6. Orig(i) \notin InnerBlocks
    BY <2>5 DEF InnerBlocks
  <2> QED
    BY <2>3, <2>4, <2>6
<1>4. Moved = ToSet(hoistable)
  BY <1>2, <1>3 DEF ToSet
<1>5. L.preheader \in Blocks
  BY <1>1, OfLoops DEF L
<1> QED
  BY <1>1, <1>3, <1>4, <1>5

\* Dominance is an order, on the blocks of the function at hand.
LEMMA DominanceOrder ==
  ASSUME prog \in Programs, NEW a \in Blocks, NEW b \in Blocks
  PROVE  /\ \A c \in Blocks : Dominates(a, b) /\ Dominates(b, c) => Dominates(a, c)
         /\ Dominates(a, b) /\ Dominates(b, a) => a = b
<1>1. DominanceIsOrder(prog)
  BY ProgramAssumption
<1> QED
  BY <1>1 DEF DominanceIsOrder, Dominates, Blocks

\* A phi finds its operands at the end of the same predecessors.
LEMMA PhiStaysFed ==
  ASSUME AllHoisted, NEW i \in Instructions \cap prog.phis, NEW o \in prog.uses[i]
  PROVE  Available(prog, code, o, i)
<1>1. /\ prog \in Programs /\ i \notin Moved /\ L.preheader \in Blocks
      /\ \A j \in Moved : Parent(j) = L.preheader /\ Dominates(L.preheader, Orig(j))
  BY AllMoved DEF AllHoisted, LInv
<1>2. o \in Instructions
  BY <1>1, OfProgram
<1>3. Available(prog, prog.code, o, i)
  <2>1. DefsDominateUses(prog, prog.code)
    BY <1>1, ProgramAssumption
  <2> QED
    BY <2>1 DEF DefsDominateUses, Instructions
<1>4. PICK q \in Blocks : Orig(i) \in prog.succ[q] /\ Dominates(Orig(o), q)
  BY <1>3 DEF Available, Orig, Dominates, Blocks
<1>5. Parent(i) = Orig(i)
  BY <1>1 DEF Moved, Parent, Orig
<1>6. Orig(o) \in Blocks
  BY <1>1, <1>2, OfProgram, WhereItStands DEF Orig
<1>7. Dominates(Parent(o), q)
  <2>1. CASE o \in Moved
    BY <1>1, <1>4, <1>6, <2>1, DominanceOrder
  <2>2. CASE o \notin Moved
    BY <1>2, <1>4, <2>2 DEF Moved, Parent, Orig
  <2> QED
    BY <2>1, <2>2
<1> QED
  BY <1>4, <1>5, <1>7 DEF Available, Parent, Dominates, Blocks

\* The other instructions find them in front, or in a block that dominates
\* theirs.
LEMMA OperandStaysAvailable ==
  ASSUME AllHoisted, NEW i \in Instructions \ prog.phis, NEW o \in prog.uses[i]
  PROVE  Available(prog, code, o, i)
<1> DEFINE p == L.preheader
<1>1. /\ prog \in Programs /\ p \in Blocks /\ Moved = ToSet(invariant)
      /\ \A j \in Moved : /\ Orig(j) \in LoopBlocks(L) /\ Parent(j) = p
                          /\ Dominates(p, Orig(j)) /\ Orig(j) # p
                          /\ Orig(j) \notin InnerBlocks
  BY AllMoved DEF AllHoisted, LInv
<1>2. /\ Found /\ Kept /\ HoistedInOrder /\ loop \in DOMAIN prog.loops /\ L.simplified /\ L.inner = {}
  BY DEF AllHoisted, LInv, Visited, Flat
<1>3. /\ o \in Instructions
      /\ \/ Orig(o) = Orig(i) /\ InFront(prog.code, o, i)
         \/ Orig(o) # Orig(i) /\ Dominates(Orig(o), Orig(i))
  BY <1>1, OperandAvailable
<1>4. Orig(o) \in Blocks /\ Orig(i) \in Blocks
  BY <1>1, <1>3, OfProgram, WhereItStands DEF Orig
<1>5. \A j \in Instructions \ Moved : Parent(j) = Orig(j)
  BY DEF Moved, Parent, Orig
<1> SUFFICES \/ InFront(code, o, i)
             \/ Parent(o) # Parent(i) /\ Dominates(Parent(o), Parent(i))
  BY DEF Available, InFront, Parent, Dominates
<1>6. CASE i \notin Moved /\ o \notin Moved
  BY <1>2, <1>3, <1>5, <1>6 DEF Kept
<1>7. CASE i \notin Moved /\ o \in Moved
  <2>1. Parent(o) = p /\ Parent(i) = Orig(i) /\ Dominates(p, Orig(o)) /\ Orig(o) # p
    BY <1>1, <1>5, <1>7
  <2>2. Dominates(p, Orig(i))
    BY <1>1, <1>3, <1>4, <2>1, DominanceOrder
  <2>3. Orig(i) # p
    BY <1>1, <1>3, <1>4, <2>1, DominanceOrder
  <2> QED
    BY <2>1, <2>2, <2>3
<1>8. CASE i \in Moved /\ o \notin Moved
  <2>1. Parent(i) = p /\ Parent(o) = Orig(o) /\ Orig(i) \in LoopBlocks(L)
    BY <1>1, <1>3, <1>5, <1>8
  <2>2. Orig(o) \notin LoopBlocks(L)
    <3> SUFFICES ASSUME Orig(o) \in LoopBlocks(L) PROVE FALSE
      OBVIOUS
    <3>1. Local(o)
      BY <1>2 DEF Local
    <3>2. PICK k \in DOMAIN invariant : invariant[k] = i
      BY <1>1, <1>8 DEF ToSet
    <3>3. PICK j \in 1..(k - 1) : invariant[j] = o
      BY <1>2, <3>1, <3>2 DEF Found
    <3>4. j \in DOMAIN invariant
      BY <1>2, <3>2, <3>3 DEF Found
    <3> QED
      BY <1>1, <1>8, <3>3, <3>4 DEF ToSet
  <2>3. Dominates(Orig(o), Orig(i))
    BY <1>3, <2>1, <2>2
  <2>4. Orig(o) = p \/ Dominates(Orig(o), p)
    BY <1>1, <1>2, <1>4, <2>1, <2>2, <2>3, OfLoops DEF L
  <2>5. CASE Orig(o) = p
    BY <1>2, <1>3, <1>8, <2>1, <2>5 DEF Kept
  <2> QED
    BY <2>1, <2>4, <2>5
<1>9. CASE i \in Moved /\ o \in Moved
  <2>1. Holds(code, i) = Holds(code, o) /\ Orig(o) \notin InnerBlocks
    BY <1>1, <1>9 DEF Parent
  <2>2. Arrives(i, o)
    BY <1>2, <1>9, <2>1 DEF HoistedInOrder, Orig
  <2> QED
    BY <2>1, <2>2 DEF Arrives, InFront
<1> QED
  BY <1>6, <1>7, <1>8, <1>9

\* Hoisting loses and duplicates no instruction; and when the first loop has
\* been visited, has no inner loop, and all that was found invariant in it is
\* hoistable and no phi, every definition is still in front of its uses
\* (lab-loops.cpp, run()).
THEOREM HoistingKeepsDominance == Spec => []KeepsDominance
<1>1. ASSUME LInv PROVE KeepsDominance
  <2>1. TypeOK
    BY <1>1, TypesKept
  <2>2. ASSUME AllHoisted PROVE DefsDominateUses(prog, code)
    <3>1. ASSUME NEW i \in Instructions, NEW o \in prog.uses[i]
          PROVE  Available(prog, code, o, i)
      BY <2>2, PhiStaysFed, OperandStaysAvailable
    <3> QED
      BY <3>1 DEF DefsDominateUses, Instructions
  <2> QED
    BY <1>1, <2>1, <2>2 DEF KeepsDominance, AllHoisted
<1> QED
  BY <1>1, HoistingInvariant, PTL

-----------------------------------------------------------------------------
(* Every invariant is found. *)

LEMMA InConcat ==
  ASSUME NEW S, NEW s \in Seq(S), NEW t \in Seq(S)
  PROVE  s \o t \in Seq(S) /\ ToSet(s) \cup ToSet(t) \subseteq ToSet(s \o t)
<1>1. /\ s \o t \in Seq(S) /\ Len(s \o t) = Len(s) + Len(t) /\ Len(s) \in Nat /\ Len(t) \in Nat
      /\ \A k \in 1..(Len(s) + Len(t)) : (s \o t)[k] = IF k <= Len(s) THEN s[k] ELSE t[k - Len(s)]
  BY ConcatProperties
<1>2. DOMAIN s = 1..Len(s) /\ DOMAIN t = 1..Len(t) /\ DOMAIN (s \o t) = 1..(Len(s) + Len(t))
  BY <1>1
<1>3. ASSUME NEW j \in 1..Len(s) PROVE s[j] \in ToSet(s \o t)
  <2>1. j \in 1..(Len(s) + Len(t)) /\ j <= Len(s)
    BY <1>1
  <2> QED
    BY <1>1, <1>2, <2>1 DEF ToSet
<1>4. ASSUME NEW j \in 1..Len(t) PROVE t[j] \in ToSet(s \o t)
  <2> DEFINE k == Len(s) + j
  <2>1. k \in 1..(Len(s) + Len(t)) /\ ~(k <= Len(s)) /\ k - Len(s) = j
    BY <1>1
  <2> HIDE DEF k
  <2>2. (s \o t)[k] = t[j]
    BY <1>1, <2>1
  <2> QED
    BY <1>2, <2>1, <2>2 DEF ToSet
<1> QED
  BY <1>1, <1>2, <1>3, <1>4 DEF ToSet

\* All of the sequences come into the one that FlattenSeq() makes of them.
LEMMA FlattenOnto ==
  ASSUME NEW S, NEW seqs \in Seq(Seq(S)), NEW j \in DOMAIN seqs, NEW x \in ToSet(seqs[j])
  PROVE  x \in ToSet(FlattenSeq(seqs))
<1> DEFINE N == Len(seqs)
           C == CHOOSE f : f = [i \in 1..N |-> IF i = 1 THEN seqs[i] ELSE f[i - 1] \o seqs[i]]
           Good(i) == C[i] \in Seq(S) /\ (j <= i => x \in ToSet(C[i]))
<1>1. N \in Nat /\ DOMAIN seqs = 1..N /\ (\A i \in 1..N : seqs[i] \in Seq(S)) /\ N # 0
  BY ElementOfSeq
<1>2. FlattenSeq(seqs) = C[N]
  BY <1>1 DEF FlattenSeq
<1>3. PICK h : h = [i \in 1..N |-> FlatStep(seqs, h, i)]
  BY <1>1, FlatExists
<1>4. \E f : f = [i \in 1..N |-> IF i = 1 THEN seqs[i] ELSE f[i - 1] \o seqs[i]]
  <2>1. h = [i \in 1..N |-> IF i = 1 THEN seqs[i] ELSE h[i - 1] \o seqs[i]]
    BY <1>3 DEF FlatStep
  <2> QED
    BY <2>1
<1> HIDE DEF N
<1>9. C = [i \in 1..N |-> IF i = 1 THEN seqs[i] ELSE C[i - 1] \o seqs[i]]
  BY <1>4, Zenon
<1> HIDE DEF C
<1>5. \A i \in 1..N : C[i] = IF i = 1 THEN seqs[i] ELSE C[i - 1] \o seqs[i]
  BY <1>9
<1> DEFINE Bad == {i \in 1..N : ~Good(i)}
<1>6. ASSUME Bad # {} PROVE FALSE
  <2>1. Bad \subseteq Nat
    BY <1>1
  <2>2. PICK m \in Bad : \A y \in Bad : ~(y < m)
    BY <1>6, <2>1, LeastNumber
  <2>3. m \in 1..N /\ ~Good(m) /\ m \in Nat /\ j \in 1..N
    BY <1>1, <2>1, <2>2
  <2>4. CASE m = 1
    <3>1. C[m] = seqs[m] /\ seqs[m] \in Seq(S) /\ (j <= m => j = m)
      BY <1>1, <1>5, <2>3, <2>4
    <3> QED
      BY <2>3, <3>1
  <2>5. CASE m # 1
    <3>1. m - 1 \in 1..N /\ m - 1 < m
      BY <1>1, <2>3, <2>5
    <3>2. Good(m - 1)
      BY <2>2, <3>1
    <3>3. C[m] = C[m - 1] \o seqs[m] /\ seqs[m] \in Seq(S)
      BY <1>1, <1>5, <2>3, <2>5
    <3>4. C[m] \in Seq(S) /\ ToSet(C[m - 1]) \cup ToSet(seqs[m]) \subseteq ToSet(C[m])
      BY <3>2, <3>3, InConcat
    <3>5. j <= m => j <= m - 1 \/ j = m
      BY <2>3
    <3> QED
      BY <2>3, <3>2, <3>4, <3>5
  <2> QED
    BY <2>4, <2>5
<1>7. N \in 1..N /\ j <= N
  BY <1>1
<1>8. Good(N)
  BY <1>6, <1>7
<1> QED
  BY <1>2, <1>7, <1>8

\* So findLIInstr() goes over all instructions of the loop.
LEMMA BodyIsLoop ==
  ASSUME LInv, Working, NEW i \in Instructions, Parent(i) \in LoopBlocks(L)
  PROVE  i \in ToSet(Body)
<1> DEFINE seqs == [k \in DOMAIN L.order |-> code[L.order[k]]]
<1>1. prog \in Programs /\ loop \in DOMAIN prog.loops /\ DOMAIN code = Blocks /\ EachOnce(code, Instructions)
  BY DEF LInv, Working
<1>2. L.order \in Seq(Blocks)
  BY <1>1, OfProgram DEF L
<1>3. code \in [Blocks -> Seq(Instructions)]
  BY <1>1 DEF EachOnce
<1>4. DOMAIN L.order = 1..Len(L.order) /\ Len(L.order) \in Nat /\ \A k \in DOMAIN L.order : L.order[k] \in Blocks
  BY <1>2
<1>5. seqs \in [1..Len(L.order) -> Seq(Instructions)]
  BY <1>3, <1>4
<1>6. seqs \in Seq(Seq(Instructions))
  BY <1>4, <1>5, SeqDef
<1>7. PICK j \in DOMAIN L.order : L.order[j] = Parent(i)
  BY DEF LoopBlocks, ToSet
<1>8. i \in ToSet(code[Parent(i)])
  BY <1>1, <1>4, <1>7, InBlock DEF Parent
<1>9. j \in DOMAIN seqs /\ i \in ToSet(seqs[j])
  BY <1>7, <1>8
<1> HIDE DEF seqs
<1>10. i \in ToSet(FlattenSeq(seqs))
  BY <1>6, <1>9, FlattenOnto
<1> QED
  BY <1>10 DEF Body, seqs

\* The rounds have been over the instruction and did not have to add it.
Settled(i) == i \in ToSet(invariant) \/ ~InvariantOperands(i)

Exhausted ==
  /\ (pc = "scan" /\ ~changed) => \A k \in 1..(at - 1) : Settled(Body[k])
  /\ pc = "choose" => \A k \in DOMAIN Body : Settled(Body[k])

LEMMA SettledStays ==
  ASSUME UNCHANGED <<prog, code, loop, invariant>>
  PROVE  Body' = Body /\ \A i : Settled(i)' <=> Settled(i)
<1>1. L' = L /\ \A i : Parent(i)' = Parent(i)
  BY DEF L, Parent
<1>2. Body' = Body
  BY <1>1 DEF Body
<1>3. \A i : InThisLoop(i)' <=> InThisLoop(i)
  BY <1>1 DEF InThisLoop
<1>4. \A i : InvariantOperands(i)' <=> InvariantOperands(i)
  BY <1>3 DEF InvariantOperands
<1> QED
  BY <1>2, <1>4 DEF Settled

LEMMA ExhaustedStep == ASSUME LInv, Exhausted, [Next]_vars PROVE Exhausted'
<1>1. CASE BeginLoop \/ AnotherRound
  <2>1. at' = 1 /\ pc' # "choose"
    BY <1>1 DEF BeginLoop, AnotherRound
  <2> QED
    BY <2>1 DEF Exhausted
<1>2. CASE Scan
  <2>1. /\ pc = "scan" /\ pc' = "scan" /\ at' = at + 1 /\ UNCHANGED <<prog, code, loop>>
        /\ ~changed' => /\ ~changed /\ invariant' = invariant
                        /\ ~(Body[at] \notin ToSet(invariant) /\ InvariantOperands(Body[at]))
    BY <1>2 DEF Scan
  <2>2. at \in Nat \ {0}
    BY DEF LInv
  <2>3. SUFFICES ASSUME ~changed', NEW k \in 1..(at' - 1)
                 PROVE  Settled(Body[k])'
    BY <2>1 DEF Exhausted
  <2>4. Body' = Body /\ \A i : Settled(i)' <=> Settled(i)
    BY <2>1, <2>3, SettledStays
  <2>5. k = at \/ k \in 1..(at - 1)
    BY <2>1, <2>2
  <2>6. Settled(Body[at])
    BY <2>1, <2>3 DEF Settled
  <2>7. Settled(Body[k])
    BY <2>1, <2>3, <2>5, <2>6 DEF Exhausted
  <2>8. \A i : Settled(i) => (\A j : Body[j] = i => Settled(Body[j])')
    BY <2>1, <2>3, <2>4 DEF Settled, InvariantOperands, InThisLoop, Parent, L
  <2> QED
    BY <2>7, <2>8
<1>3. CASE FindHoistable
  <2>1. /\ pc = "scan" /\ at > Len(Body) /\ ~changed /\ pc' = "choose"
        /\ UNCHANGED <<prog, code, loop, invariant>>
    BY <1>3 DEF FindHoistable
  <2>2. Body \in Seq(Instructions) /\ at \in Nat
    BY <2>1, BodyInLoop DEF LInv, Working
  <2>3. \A k \in DOMAIN Body : k \in 1..(at - 1)
    BY <2>1, <2>2
  <2>4. \A k \in DOMAIN Body : Settled(Body[k])
    BY <2>1, <2>3 DEF Exhausted
  <2>5. Body' = Body /\ \A i : Settled(i)' <=> Settled(i)
    BY <2>1, SettledStays
  <2> QED
    BY <2>1, <2>4, <2>5 DEF Exhausted, Settled, InvariantOperands, InThisLoop, Parent, L
<1>4. CASE Choose
  <2>1. /\ pc = "choose" /\ pc' = "choose" /\ UNCHANGED <<prog, code, loop, invariant>>
    BY <1>4 DEF Choose
  <2>2. Body' = Body /\ \A i : Settled(i)' <=> Settled(i)
    BY <2>1, SettledStays
  <2> QED
    BY <2>1, <2>2 DEF Exhausted, Settled, InvariantOperands, InThisLoop, Parent, L
<1>5. CASE \/ Chosen \/ (\E b \in Blocks : VisitBlock(b)) \/ Hoist \/ EndLoop \/ Return
  <2>1. pc' \in {"hoist", "loops", "done"}
    BY <1>5 DEF Chosen, VisitBlock, Hoist, EndLoop, Return
  <2> QED
    BY <2>1 DEF Exhausted
<1>6. CASE UNCHANGED vars
  <2>1. UNCHANGED <<prog, code, loop, at, changed, invariant, pc>>
    BY <1>6 DEF vars
  <2>2. Body' = Body /\ \A i : Settled(i)' <=> Settled(i)
    BY <2>1, SettledStays
  <2> QED
    BY <2>1, <2>2 DEF Exhausted, Settled, InvariantOperands, InThisLoop, Parent, L
<1> QED
  BY <1>1, <1>2, <1>3, <1>4, <1>5, <1>6 DEF Next

\* The recursion in Chain.
BackStep(i, blocks, f, n) ==
  IF n = 0 THEN prog.uses[i]
  ELSE f[n - 1] \cup UNION {prog.uses[o] : o \in {p \in f[n - 1] : Parent(p) \in blocks}}
Back(i, blocks, N, f) == f = [n \in 0..N |-> BackStep(i, blocks, f, n)]

\* It defines a function.
LEMMA BackExists ==
  ASSUME NEW i, NEW blocks, NEW N \in Nat
  PROVE  \E f : Back(i, blocks, N, f)
<1> DEFINE UpTo(f, m) == \A k \in 0..m : f[k] = BackStep(i, blocks, f, k)
           Fun(f) == f = [k \in 0..N |-> f[k]]
           Bad == {m \in 0..N : ~ \E f : Fun(f) /\ UpTo(f, m)}
<1>1. ASSUME Bad # {} PROVE FALSE
  <2>1. Bad \subseteq Nat
    OBVIOUS
  <2>2. PICK m \in Bad : \A y \in Bad : ~(y < m)
    BY <1>1, <2>1, LeastNumber
  <2>3. m \in 0..N /\ ~ \E f : Fun(f) /\ UpTo(f, m)
    BY <2>2
  <2>4. CASE m = 0
    <3> DEFINE f == [k \in 0..N |-> prog.uses[i]]
    <3>1. Fun(f) /\ UpTo(f, 0)
      BY DEF BackStep
    <3> QED
      BY <2>3, <2>4, <3>1
  <2>5. CASE m # 0
    <3>1. m - 1 \in 0..N /\ m - 1 < m /\ m \in Nat
      BY <2>3, <2>5
    <3>2. m - 1 \notin Bad
      BY <2>2, <3>1
    <3>3. PICK f : Fun(f) /\ UpTo(f, m - 1)
      BY <3>1, <3>2
    <3> DEFINE g == [f EXCEPT ![m] = BackStep(i, blocks, f, m)]
    <3>4. DOMAIN f = 0..N
      BY <3>3
    <3>5. g[m] = BackStep(i, blocks, f, m) /\ \A k \in 0..N : k # m => g[k] = f[k]
      BY <3>4, <2>3, <2>5
    <3>6. Fun(g)
      BY <3>4
    <3> HIDE DEF g
    <3>7. ASSUME NEW k \in 0..m PROVE g[k] = BackStep(i, blocks, g, k)
      <4>1. k \in 0..N /\ (k # 0 => k - 1 \in 0..N /\ k - 1 # m)
        BY <2>3, <3>1
      <4>2. BackStep(i, blocks, g, k) = BackStep(i, blocks, f, k)
        BY <3>5, <4>1 DEF BackStep
      <4>3. CASE k = m
        BY <3>5, <4>2, <4>3
      <4>4. CASE k # m
        <5>1. k \in 0..(m - 1)
          BY <3>1, <4>4
        <5> QED
          BY <3>3, <3>5, <4>1, <4>2, <4>4, <5>1
      <4> QED
        BY <4>3, <4>4
    <3> QED
      BY <2>3, <3>6, <3>7
  <2> QED
    BY <2>4, <2>5
<1>2. PICK f : Fun(f) /\ UpTo(f, N)
  <2>1. N \in 0..N
    OBVIOUS
  <2> HIDE DEF Fun, UpTo
  <2> QED
    BY <1>1, <2>1
<1>3. [k \in 0..N |-> f[k]] = [k \in 0..N |-> BackStep(i, blocks, f, k)]
  BY <1>2
<1> QED
  BY <1>2, <1>3 DEF Back

LEMMA ChainIsBack ==
  ASSUME NEW i, NEW blocks, Cardinality(Instructions) \in Nat
  PROVE  \E f : /\ Back(i, blocks, Cardinality(Instructions), f)
                /\ Chain(i, blocks) = {o \in f[Cardinality(Instructions)] : Parent(o) \in blocks}
<1> DEFINE N == Cardinality(Instructions)
           C == CHOOSE back : back = [n \in 0..N |->
                  IF n = 0 THEN prog.uses[i]
                  ELSE LET r == back[n - 1] IN
                       r \cup UNION {prog.uses[o] : o \in {p \in r : Parent(p) \in blocks}}]
<1>1. Chain(i, blocks) = {o \in C[N] : Parent(o) \in blocks}
  BY DEF Chain
<1> HIDE DEF N
<1>2. N \in Nat
  BY DEF N
<1>3. PICK h : Back(i, blocks, N, h)
  BY <1>2, BackExists
<1>4. \E f : f = [n \in 0..N |->
                  IF n = 0 THEN prog.uses[i]
                  ELSE LET r == f[n - 1] IN
                       r \cup UNION {prog.uses[o] : o \in {p \in r : Parent(p) \in blocks}}]
  <2>1. h = [n \in 0..N |->
                  IF n = 0 THEN prog.uses[i]
                  ELSE LET r == h[n - 1] IN
                       r \cup UNION {prog.uses[o] : o \in {p \in r : Parent(p) \in blocks}}]
    BY <1>3 DEF Back, BackStep
  <2> QED
    BY <2>1
<1>5. C = [n \in 0..N |->
                  IF n = 0 THEN prog.uses[i]
                  ELSE LET r == C[n - 1] IN
                       r \cup UNION {prog.uses[o] : o \in {p \in r : Parent(p) \in blocks}}]
  BY <1>4, Zenon
<1> HIDE DEF C
<1>6. Back(i, blocks, N, C)
  BY <1>5 DEF Back, BackStep
<1> QED
  BY <1>1, <1>6 DEF N

\* There are finitely many instructions, and their operands are instructions.
LEMMA FiniteUses ==
  ASSUME prog \in Programs
  PROVE  /\ IsFiniteSet(Instructions) /\ Cardinality(Instructions) \in Nat
         /\ \A i \in Instructions : prog.uses[i] \subseteq Instructions
<1>1. IsFiniteSet(Instructions)
  BY ProgramAssumption DEF Instructions
<1> QED
  BY <1>1, OfProgram, FS_CardinalityType

\* What is in reach after n steps grows until it is closed.
LEMMA BackCloses ==
  ASSUME prog \in Programs, NEW i \in Instructions, NEW blocks, NEW f,
         Back(i, blocks, Cardinality(Instructions), f)
  PROVE  LET B == f[Cardinality(Instructions)] IN
         /\ B \subseteq Instructions /\ prog.uses[i] \subseteq B
         /\ \A o \in B : Parent(o) \in blocks => prog.uses[o] \subseteq B
<1> DEFINE N == Cardinality(Instructions)
           Closed(B) == \A o \in B : Parent(o) \in blocks => prog.uses[o] \subseteq B
           Good(n) == /\ f[n] \subseteq Instructions /\ prog.uses[i] \subseteq f[n]
                      /\ Closed(f[n]) \/ Cardinality(f[n]) >= n
<1>1. /\ IsFiniteSet(Instructions) /\ N \in Nat
      /\ \A o \in Instructions : prog.uses[o] \subseteq Instructions
  BY FiniteUses
<1> HIDE DEF N
<1>2. \A n \in 0..N : f[n] = BackStep(i, blocks, f, n)
  BY DEF Back, N
<1> DEFINE Bad == {n \in 0..N : ~Good(n)}
<1>3. ASSUME Bad # {} PROVE FALSE
  <2>1. Bad \subseteq Nat
    BY <1>1
  <2>2. PICK m \in Bad : \A y \in Bad : ~(y < m)
    BY <1>3, <2>1, LeastNumber
  <2>3. m \in 0..N /\ ~Good(m) /\ m \in Nat
    BY <2>1, <2>2
  <2>4. CASE m = 0
    <3>1. f[m] = prog.uses[i]
      BY <1>2, <2>3, <2>4 DEF BackStep
    <3>2. IsFiniteSet(f[m])
      BY <1>1, <3>1, FS_Subset
    <3>3. Cardinality(f[m]) >= m
      BY <2>4, <3>2, FS_CardinalityType
    <3> QED
      BY <1>1, <2>3, <3>1, <3>3
  <2>5. CASE m # 0
    <3> DEFINE A == f[m - 1]
               B == f[m]
    <3>1. m - 1 \in 0..N /\ m - 1 < m
      BY <1>1, <2>3, <2>5
    <3>2. Good(m - 1)
      BY <2>2, <3>1
    <3>3. B = A \cup UNION {prog.uses[o] : o \in {p \in A : Parent(p) \in blocks}}
      BY <1>2, <2>3, <2>5 DEF BackStep
    <3>4. /\ A \subseteq Instructions /\ prog.uses[i] \subseteq A
          /\ Closed(A) \/ Cardinality(A) >= m - 1
      BY <3>2
    <3> HIDE DEF A, B
    <3>5. B \subseteq Instructions /\ A \subseteq B /\ prog.uses[i] \subseteq B
      BY <1>1, <3>3, <3>4
    <3>6. CASE Closed(A)
      <4>1. B = A
        BY <3>3, <3>6
      <4> QED
        BY <2>3, <3>5, <3>6, <4>1 DEF B
    <3>7. CASE ~Closed(A)
      <4>1. B # A
        BY <3>3, <3>7
      <4>2. IsFiniteSet(B)
        BY <1>1, <3>5, FS_Subset
      <4>3. /\ IsFiniteSet(A) /\ Cardinality(A) <= Cardinality(B)
            /\ Cardinality(A) = Cardinality(B) => A = B
        BY <3>5, <4>2, FS_Subset
      <4>4. Cardinality(A) \in Nat /\ Cardinality(B) \in Nat
        BY <4>2, <4>3, FS_CardinalityType
      <4>5. Cardinality(B) >= m
        BY <2>3, <3>4, <3>7, <4>1, <4>3, <4>4
      <4> QED
        BY <2>3, <3>5, <4>5 DEF B
    <3> QED
      BY <3>6, <3>7
  <2> QED
    BY <2>4, <2>5
<1>4. Good(N)
  <2>1. N \in 0..N
    BY <1>1
  <2> QED
    BY <1>3, <2>1
<1>5. ASSUME ~Closed(f[N]) PROVE FALSE
  <2>1. f[N] \subseteq Instructions /\ Cardinality(f[N]) >= Cardinality(Instructions)
    BY <1>4, <1>5 DEF N
  <2>2. /\ IsFiniteSet(f[N]) /\ Cardinality(f[N]) <= Cardinality(Instructions)
        /\ Cardinality(f[N]) = Cardinality(Instructions) => f[N] = Instructions
    BY <1>1, <2>1, FS_Subset
  <2>3. Cardinality(f[N]) \in Nat /\ Cardinality(Instructions) \in Nat
    BY <1>1, <2>2, FS_CardinalityType
  <2>4. f[N] = Instructions
    BY <2>1, <2>2, <2>3
  <2> QED
    BY <1>1, <1>5, <2>4
<1> QED
  BY <1>4, <1>5 DEF N

\* The chain of an instruction holds its operands in the loop and is closed,
LEMMA ChainCloses ==
  ASSUME prog \in Programs, NEW i \in Instructions, NEW blocks
  PROVE  /\ Chain(i, blocks) \subseteq Instructions
         /\ \A o \in prog.uses[i] : Parent(o) \in blocks => o \in Chain(i, blocks)
         /\ \A o \in Chain(i, blocks) : \A p \in prog.uses[o] :
              Parent(p) \in blocks => p \in Chain(i, blocks)
<1>1. Cardinality(Instructions) \in Nat
  BY FiniteUses
<1> DEFINE N == Cardinality(Instructions)
<1>2. PICK f : Back(i, blocks, N, f) /\ Chain(i, blocks) = {o \in f[N] : Parent(o) \in blocks}
  BY <1>1, ChainIsBack
<1>3. /\ f[N] \subseteq Instructions /\ prog.uses[i] \subseteq f[N]
      /\ \A o \in f[N] : Parent(o) \in blocks => prog.uses[o] \subseteq f[N]
  BY <1>2, BackCloses
<1> QED
  BY <1>2, <1>3

\* and it is the least such set.
LEMMA ChainIsLeast ==
  ASSUME prog \in Programs, NEW i \in Instructions, NEW blocks, NEW T,
         \A o \in prog.uses[i] : Parent(o) \in blocks => o \in T,
         \A o \in T : \A p \in prog.uses[o] : Parent(p) \in blocks => p \in T
  PROVE  Chain(i, blocks) \subseteq T
<1> DEFINE N == Cardinality(Instructions)
<1>1. N \in Nat
  BY FiniteUses
<1>2. PICK f : Back(i, blocks, N, f) /\ Chain(i, blocks) = {o \in f[N] : Parent(o) \in blocks}
  BY <1>1, ChainIsBack
<1> HIDE DEF N
<1>3. \A n \in 0..N : f[n] = BackStep(i, blocks, f, n)
  BY <1>2 DEF Back
<1> DEFINE Good(n) == \A o \in f[n] : Parent(o) \in blocks => o \in T
           Bad == {n \in 0..N : ~Good(n)}
<1>4. ASSUME Bad # {} PROVE FALSE
  <2>1. Bad \subseteq Nat
    BY <1>1
  <2>2. PICK m \in Bad : \A y \in Bad : ~(y < m)
    BY <1>4, <2>1, LeastNumber
  <2>3. m \in 0..N /\ ~Good(m) /\ m \in Nat
    BY <2>1, <2>2
  <2>4. CASE m = 0
    <3>1. f[m] = prog.uses[i]
      BY <1>3, <2>3, <2>4 DEF BackStep
    <3> QED
      BY <2>3, <3>1
  <2>5. CASE m # 0
    <3>1. m - 1 \in 0..N /\ m - 1 < m
      BY <1>1, <2>3, <2>5
    <3>2. Good(m - 1)
      BY <2>2, <3>1
    <3>3. f[m] = f[m - 1] \cup UNION {prog.uses[o] : o \in {p \in f[m - 1] : Parent(p) \in blocks}}
      BY <1>3, <2>3, <2>5 DEF BackStep
    <3> QED
      BY <2>3, <3>2, <3>3
  <2> QED
    BY <2>4, <2>5
<1>5. Good(N)
  <2>1. N \in 0..N
    BY <1>1
  <2> QED
    BY <1>4, <2>1
<1> QED
  BY <1>2, <1>5

\* When the rounds are over in a loop without inner loops.
RoundsOver == LInv /\ Exhausted /\ pc = "choose" /\ Flat(L)

LEMMA OverFacts ==
  ASSUME RoundsOver
  PROVE  /\ prog \in Programs /\ Found
         /\ \A i \in Instructions : Parent(i) \in LoopBlocks(L) => Local(i) /\ i \in ToSet(Body)
         /\ \A i \in ToSet(Body) : i \in Instructions /\ Parent(i) \in LoopBlocks(L) /\ Settled(i)
         /\ \A i : InThisLoop(i) <=> Parent(i) \in LoopBlocks(L)
<1>1. LInv /\ Working /\ prog \in Programs /\ Found /\ L.inner = {} /\ Exhausted /\ pc = "choose"
  BY DEF RoundsOver, LInv, Working, Flat
<1>2. Body \in Seq(Instructions) /\ \A k \in DOMAIN Body : Parent(Body[k]) \in LoopBlocks(L)
  BY <1>1, BodyInLoop
<1>3. \A i \in ToSet(Body) : \E k \in DOMAIN Body : Body[k] = i
  BY DEF ToSet
<1>4. \A i \in ToSet(Body) : i \in Instructions /\ Parent(i) \in LoopBlocks(L)
  BY <1>2, <1>3
<1>5. \A i \in ToSet(Body) : Settled(i)
  BY <1>1, <1>3 DEF Exhausted
<1>6. \A i \in Instructions : Parent(i) \in LoopBlocks(L) => Local(i) /\ i \in ToSet(Body)
  BY <1>1, LoopIsOriginal, BodyIsLoop DEF Local
<1>7. \A i : InThisLoop(i) <=> Parent(i) \in LoopBlocks(L)
  BY <1>1 DEF InThisLoop
<1> QED
  BY <1>1, <1>4, <1>5, <1>6, <1>7

\* What an invariant depends on was found before it,
LEMMA ChainWasFound ==
  ASSUME RoundsOver, NEW k \in DOMAIN invariant
  PROVE  Chain(invariant[k], LoopBlocks(L)) \subseteq {invariant[j] : j \in 1..(k - 1)}
<1> DEFINE T == {invariant[j] : j \in 1..(k - 1)}
<1>1. prog \in Programs /\ Found /\ \A i \in Instructions : Parent(i) \in LoopBlocks(L) => Local(i)
  BY OverFacts
<1>2. /\ invariant \in Seq(Instructions) /\ DOMAIN invariant = 1..Len(invariant) /\ Len(invariant) \in Nat
      /\ \A m \in DOMAIN invariant : invariant[m] \in Instructions
  BY <1>1 DEF Found
<1>3. \A i \in Instructions : prog.uses[i] \subseteq Instructions
  BY <1>1, OfProgram
<1>4. ASSUME NEW m \in DOMAIN invariant, NEW o \in prog.uses[invariant[m]], Parent(o) \in LoopBlocks(L)
      PROVE  \E j \in 1..(m - 1) : invariant[j] = o
  <2>1. Local(o)
    BY <1>1, <1>2, <1>3, <1>4
  <2> QED
    BY <1>1, <2>1 DEF Found
<1>5. \A o \in prog.uses[invariant[k]] : Parent(o) \in LoopBlocks(L) => o \in T
  BY <1>4
<1>6. ASSUME NEW o \in T, NEW p \in prog.uses[o], Parent(p) \in LoopBlocks(L)
      PROVE  p \in T
  <2>1. PICK m \in 1..(k - 1) : o = invariant[m]
    OBVIOUS
  <2>2. m \in DOMAIN invariant
    BY <1>2
  <2>3. PICK j \in 1..(m - 1) : invariant[j] = p
    BY <1>4, <1>6, <2>1, <2>2
  <2>4. j \in 1..(k - 1)
    BY <1>2
  <2> QED
    BY <2>3, <2>4
<1> HIDE DEF T
<1>7. Chain(invariant[k], LoopBlocks(L)) \subseteq T
  BY <1>1, <1>2, <1>5, <1>6, ChainIsLeast
<1> QED
  BY <1>7 DEF T

\* so it does not depend on itself.
LEMMA FoundIsAcyclic ==
  ASSUME RoundsOver, NEW k \in DOMAIN invariant
  PROVE  invariant[k] \notin Chain(invariant[k], LoopBlocks(L))
<1>1. /\ invariant \in Seq(Instructions) /\ DOMAIN invariant = 1..Len(invariant) /\ Len(invariant) \in Nat
      /\ Injective(invariant)
  BY OverFacts DEF Found
<1>2. ASSUME NEW j \in 1..(k - 1) PROVE invariant[j] # invariant[k]
  <2>1. j \in DOMAIN invariant /\ j # k
    BY <1>1
  <2> QED
    BY <1>1, <2>1 DEF Injective
<1> QED
  BY <1>2, ChainWasFound

\* What is not found in the loop has an operand that is not.
Missed == {i \in Instructions : Parent(i) \in LoopBlocks(L) /\ i \notin ToSet(invariant)}

LEMMA MissedUsesMissed ==
  ASSUME RoundsOver, NEW i \in Missed
  PROVE  \E o \in prog.uses[i] : o \in Missed
<1>1. i \in Instructions /\ i \in ToSet(Body) /\ Settled(i) /\ i \notin ToSet(invariant)
  BY OverFacts DEF Missed
<1>2. PICK o \in prog.uses[i] : InThisLoop(o) /\ o \notin ToSet(invariant)
  BY <1>1 DEF Settled, InvariantOperands
<1>3. prog.uses[i] \subseteq Instructions
  BY <1>1, OverFacts, OfProgram
<1> QED
  BY <1>2, <1>3, OverFacts DEF Missed

\* Following such operands, of which there are finitely many, leads to one that
\* depends on itself: their chains would become ever smaller.
LEMMA MissedIsCyclic ==
  ASSUME RoundsOver, NEW i \in Missed
  PROVE  \E o \in Chain(i, LoopBlocks(L)) \cup {i} : o \in Chain(o, LoopBlocks(L))
<1> DEFINE B == LoopBlocks(L)
           C == Chain(i, B) \cup {i}
           Sizes == {Cardinality(Chain(x, B)) : x \in Missed \cap C}
<1> SUFFICES ASSUME \A o \in C : o \notin Chain(o, B) PROVE FALSE
  OBVIOUS
<1>1. prog \in Programs /\ IsFiniteSet(Instructions)
  BY OverFacts, FiniteUses
<1>2. \A x \in Missed : x \in Instructions /\ Parent(x) \in B
  BY DEF Missed
<1> HIDE DEF B
<1>3. \A x \in Instructions : IsFiniteSet(Chain(x, B)) /\ Cardinality(Chain(x, B)) \in Nat
  <2> TAKE x \in Instructions
  <2>1. Chain(x, B) \subseteq Instructions
    BY <1>1, ChainCloses
  <2>2. IsFiniteSet(Chain(x, B))
    BY <1>1, <2>1, FS_Subset
  <2> QED
    BY <2>2, FS_CardinalityType
<1>4. Sizes \subseteq Nat /\ Sizes # {}
  <2>1. i \in Missed \cap C
    OBVIOUS
  <2> QED
    BY <1>2, <1>3, <2>1
<1>5. PICK n \in Sizes : \A y \in Sizes : ~(y < n)
  BY <1>4, LeastNumber
<1>6. PICK x \in Missed \cap C : n = Cardinality(Chain(x, B))
  BY <1>5
<1>7. PICK y \in prog.uses[x] : y \in Missed
  BY <1>6, MissedUsesMissed
<1>8. x \in Instructions /\ y \in Instructions /\ Parent(y) \in B
  BY <1>2, <1>6, <1>7
<1>9. y \in Chain(x, B)
  BY <1>1, <1>7, <1>8, ChainCloses
<1>10. y \in C
  <2>1. CASE x = i
    BY <1>9, <2>1
  <2>2. CASE x \in Chain(i, B)
    <3>1. i \in Instructions
      BY <1>2
    <3> QED
      BY <1>1, <1>7, <1>8, <2>2, <3>1, ChainCloses
  <2> QED
    BY <1>6, <2>1, <2>2
<1>11. Chain(y, B) \subseteq Chain(x, B)
  <2>1. \A o \in Chain(x, B) : \A p \in prog.uses[o] : Parent(p) \in B => p \in Chain(x, B)
    BY <1>1, <1>8, ChainCloses
  <2> QED
    BY <1>1, <1>8, <1>9, <2>1, ChainIsLeast
<1>12. Chain(y, B) # Chain(x, B)
  BY <1>9, <1>10
<1>13. /\ Cardinality(Chain(y, B)) <= Cardinality(Chain(x, B))
       /\ Cardinality(Chain(y, B)) = Cardinality(Chain(x, B)) => Chain(y, B) = Chain(x, B)
  BY <1>3, <1>8, <1>11, FS_Subset
<1>14. Cardinality(Chain(y, B)) < n
  BY <1>3, <1>6, <1>8, <1>12, <1>13
<1>15. Cardinality(Chain(y, B)) \in Sizes
  BY <1>7, <1>10
<1> QED
  BY <1>5, <1>14, <1>15

\* findLIInstr() finds in a loop without inner loops all that does not depend,
\* through instructions of the loop, on something that depends on itself, and
\* nothing else (lab-loops.cpp, findLIInstr()).
THEOREM AllInvariantsFound == Spec => []InvariantsAreTheRest
<1>1. Init => Exhausted
  BY DEF Init, Exhausted
<1>2. LInv /\ Exhausted /\ [Next]_vars => Exhausted'
  BY ExhaustedStep
<1>3. ASSUME LInv, Exhausted PROVE InvariantsAreTheRest
  <2> SUFFICES ASSUME pc = "choose", Flat(L), NEW i \in ToSet(Body)
               PROVE  i \in ToSet(invariant) <=>
                        \A o \in Chain(i, LoopBlocks(L)) \cup {i} : o \notin Chain(o, LoopBlocks(L))
    BY DEF InvariantsAreTheRest
  <2>1. RoundsOver
    BY <1>3 DEF RoundsOver
  <2>2. ASSUME i \in ToSet(invariant), NEW o \in Chain(i, LoopBlocks(L)) \cup {i}
        PROVE  o \notin Chain(o, LoopBlocks(L))
    <3>1. PICK k \in DOMAIN invariant : invariant[k] = i
      BY <2>2 DEF ToSet
    <3>2. invariant \in Seq(Instructions)
      BY <2>1, OverFacts DEF Found
    <3>3. \E j \in DOMAIN invariant : o = invariant[j]
      <4>1. CASE o = i
        BY <3>1, <4>1
      <4>2. CASE o \in Chain(i, LoopBlocks(L))
        <5>1. PICK j \in 1..(k - 1) : o = invariant[j]
          BY <2>1, <3>1, <4>2, ChainWasFound
        <5>2. j \in DOMAIN invariant
          BY <3>2
        <5> QED
          BY <5>1, <5>2
      <4> QED
        BY <2>2, <4>1, <4>2
    <3> QED
      BY <2>1, <3>3, FoundIsAcyclic
  <2>3. ASSUME i \notin ToSet(invariant)
        PROVE  \E o \in Chain(i, LoopBlocks(L)) \cup {i} : o \in Chain(o, LoopBlocks(L))
    <3>1. i \in Missed
      BY <2>1, <2>3, OverFacts DEF Missed
    <3> QED
      BY <2>1, <3>1, MissedIsCyclic
  <2> QED
    BY <2>2, <2>3
<1> QED
  BY <1>1, <1>2, <1>3, HoistingInvariant, PTL DEF Spec
-----------------------------------------------------------------------------
(***************************************************************************)
(* Loop fusion.  The handles of the loops are those from before the first  *)
(* fusion; a pair whose first loop was the second of a pair in front of it *)
(* is passed over, because nothing leads to the latch of that loop.        *)
(***************************************************************************)
\* One edge of the present graph.
Goes(a, b) == b \in ToSet(succ[a])

\* Loops that took part in a fusion, and pairs as the pass finds them.
Took(l) == \E p \in fused : l = p[1] \/ l = p[2]
IsSimple(l) == fn.loops[l].simplified
Adjoin(p) ==
  /\ p[1] \in Loops /\ p[2] \in Loops /\ IsSimple(p[1]) /\ IsSimple(p[2])
  /\ \E b \in BlocksIn(p[1]) : Edge(fn, b, fn.loops[p[2]].pre)

FusionShape ==
  /\ FunctionOK(fn)
  /\ succ \in [BasicBlocks -> Seq(BasicBlocks)]
  /\ \A b \in BasicBlocks : Len(succ[b]) = Len(fn.succ[b])
  /\ ref \in [Phis -> Phis]
  /\ pairs \in Seq(Loops \X Loops) /\ turn \in Nat \ {0}
  /\ phase \in {"adjacent", "count", "equivalent", "dependences", "fuse", "done"}

\* The pairs are adjacent in the function as it was, in the order of their
\* first loops, and those fused are behind.
Ascending ==
  /\ \A n \in DOMAIN pairs : Adjoin(pairs[n])
  /\ \A n, o \in DOMAIN pairs : n < o => pairs[n][1] < pairs[o][1]
  /\ phase = "adjacent" => \A n \in DOMAIN pairs : pairs[n][1] < turn
Behind ==
  /\ phase \notin {"fuse", "done"} => succ = fn.succ /\ fused = {}
  /\ \A p \in fused : \E n \in DOMAIN pairs : n < turn /\ pairs[n] = p

\* A loop that took part in none is as it was.
Untouched ==
  \A l \in Loops : IsSimple(l) /\ ~Took(l) =>
    /\ \A b \in BlocksIn(l) \cup {fn.loops[l].pre} : succ[b] = fn.succ[b]
    /\ \A b \in BasicBlocks, c \in BlocksIn(l) : Goes(b, c) => Edge(fn, b, c)

\* Nothing leads to the latch of a second loop any more.
Cut == \A p \in fused : \A b \in BasicBlocks : ~Goes(b, fn.loops[p[2]].latch)

Apart == \A p, q \in fused : p = q \/ ToSet(p) \cap ToSet(q) = {}

FusionInv == FusionShape /\ Ascending /\ Behind /\ Untouched /\ Cut /\ Apart
-----------------------------------------------------------------------------
LEMMA Elements ==
  ASSUME NEW s, NEW e PROVE e \in ToSet(s) <=> \E i \in DOMAIN s : s[i] = e
BY DEF ToSet

LEMMA PairIs ==
  ASSUME NEW S, NEW p \in S \X S
  PROVE  p = <<p[1], p[2]>> /\ p[1] \in S /\ p[2] \in S /\ ToSet(p) = {p[1], p[2]}
<1>1. p = <<p[1], p[2]>> /\ p[1] \in S /\ p[2] \in S
  OBVIOUS
<1>2. DOMAIN p = {1, 2}
  BY <1>1
<1> QED BY <1>1, <1>2 DEF ToSet

\* The facts about a function that are used, one by one.
LEMMA FunctionIs ==
  ASSUME FusionShape
  PROVE  /\ BasicBlocks = DOMAIN fn.succ /\ Loops = 1..Len(fn.loops) /\ Len(fn.loops) \in Nat
         /\ IsFiniteSet(BasicBlocks)
         /\ \A b \in BasicBlocks : fn.succ[b] \in Seq(BasicBlocks)
         /\ \A l \in Loops :
              /\ BlocksIn(l) \subseteq BasicBlocks
              /\ fn.loops[l].latch \in BlocksIn(l) /\ fn.loops[l].header \in BlocksIn(l)
              /\ fn.loops[l].phis \in Seq([start : Int, step : Int])
BY DEF FusionShape, FunctionOK, BasicBlocks, Loops, BlocksIn, BlocksOf, Top
LEMMA LoopsApart ==
  ASSUME FusionShape, NEW l \in Loops, NEW m \in Loops,
         NEW b \in BlocksIn(l), b \in BlocksIn(m)
  PROVE  l = m
BY DEF FusionShape, FunctionOK, Loops, BlocksIn, Top

\* A loop in simplified form.
LEMMA SimpleLoop ==
  ASSUME FusionShape, NEW l \in Loops, IsSimple(l)
  PROVE  LET pre == fn.loops[l].pre  header == fn.loops[l].header  latch == fn.loops[l].latch IN
         /\ pre \in BasicBlocks /\ Edge(fn, pre, header) /\ Edge(fn, latch, header)
         /\ \A a \in BasicBlocks, b \in BlocksIn(l) :
              a \notin BlocksIn(l) /\ Edge(fn, a, b) => a = pre /\ b = header
         /\ \E a \in BasicBlocks : a # latch /\ Edge(fn, a, latch)
         /\ \A a \in BlocksIn(l), b \in BasicBlocks, c \in BasicBlocks :
              b \notin BlocksIn(l) /\ Edge(fn, a, b) /\ Edge(fn, c, b)
              => c \in BlocksIn(l)
         /\ \A m \in Loops :
              /\ pre \notin BlocksIn(m)
              /\ \A b \in BlocksIn(m) : Edge(fn, b, pre) => m < l
<1> DEFINE top == fn.loops[l]
<1>1. Simplified(fn, top)
  BY DEF FusionShape, FunctionOK, Loops, IsSimple
<1>2. BlocksOf(top) = BlocksIn(l) /\ DOMAIN fn.succ = BasicBlocks
  BY DEF BlocksIn, Top, BasicBlocks
<1>3. /\ top.pre \in BasicBlocks /\ fn.succ[top.pre] = <<top.header>> /\ Edge(fn, top.latch, top.header)
      /\ \A a \in BasicBlocks \ BlocksIn(l), b \in BlocksIn(l) :
           Edge(fn, a, b) => a = top.pre /\ b = top.header
      /\ \E a \in BasicBlocks : a # top.latch /\ Edge(fn, a, top.latch)
      /\ \A a \in BlocksIn(l), b \in BasicBlocks \ BlocksIn(l) :
           Edge(fn, a, b) => \A c \in BasicBlocks : Edge(fn, c, b) => c \in BlocksIn(l)
  BY <1>1, <1>2 DEF Simplified
<1>4. Edge(fn, top.pre, top.header)
  BY <1>2, <1>3 DEF Edge, ToSet
<1>5. \A m \in Loops :
        /\ top.pre \notin BlocksIn(m)
        /\ \A b \in BlocksIn(m) : Edge(fn, b, top.pre) => m < l
  BY DEF FusionShape, FunctionOK, Loops, BlocksIn, Top, IsSimple
<1> QED BY <1>3, <1>4, <1>5

LEMMA EdgeIs ==
  ASSUME FusionShape, NEW a \in BasicBlocks, NEW b
  PROVE  /\ Edge(fn, a, b) <=> b \in ToSet(fn.succ[a])
         /\ Goes(a, b) => b \in BasicBlocks
<1>1. Edge(fn, a, b) <=> b \in ToSet(fn.succ[a])
  BY DEF Edge, BasicBlocks
<1>2. succ[a] \in Seq(BasicBlocks)
  BY DEF FusionShape
<1>3. ToSet(succ[a]) \subseteq BasicBlocks
  BY <1>2 DEF ToSet
<1> QED BY <1>1, <1>3 DEF Goes

LEMMA SingleIs ==
  ASSUME FusionShape, NEW c, SinglePredecessor(c) # <<>>
  PROVE  \E x \in BasicBlocks :
           /\ SinglePredecessor(c)[1] = x
           /\ \A d \in BasicBlocks : Goes(d, c) <=> d = x
<1> DEFINE P == Predecessors(c)
<1>1. SinglePredecessor(c) = SetToSeq(P) /\ Cardinality(P) = 1
  BY DEF SinglePredecessor
<1>2. \A d : d \in P <=> d \in BasicBlocks /\ Goes(d, c)
  BY DEF Predecessors, Goes
<1>3. P \subseteq BasicBlocks
  BY <1>2
<1> HIDE DEF P
<1>4. IsFiniteSet(P)
  BY <1>3, FunctionIs, FS_Subset
<1>5. PICK x : P = {x}
  BY <1>1, <1>4, FS_Singleton
<1>6. SetToSeq(P)[1] = x
  <2> DEFINE f == [i \in 1..1 |-> x]
  <2>1. f \in [1..Cardinality(P) -> P] /\ IsInjective(f)
    BY <1>1, <1>5 DEF IsInjective
  <2>2. SetToSeq(P) \in [1..Cardinality(P) -> P]
    BY <2>1 DEF SetToSeq
  <2> QED BY <1>1, <1>5, <2>2
<1> QED BY <1>1, <1>2, <1>5, <1>6

LEMMA ExitIs ==
  ASSUME FusionShape, NEW l \in Loops, ExitBlock(l) # <<>>
  PROVE  \E a \in BlocksIn(l) :
           LET e == ExitBlock(l)[1] IN
           ExitBlock(l) = <<e>> /\ Goes(a, e) /\ e \in BasicBlocks /\ e \notin BlocksIn(l)
<1> DEFINE E == ExitEdges(l)
<1>1. /\ Cardinality(E) = 1
      /\ ExitBlock(l) = LET edge == CHOOSE e \in E : TRUE IN <<succ[edge[1]][edge[2]]>>
  BY DEF ExitBlock
<1>2. E # {}
  BY <1>1, FS_EmptySet
<1> DEFINE edge == CHOOSE e \in E : TRUE
           e == succ[edge[1]][edge[2]]
<1>3. edge \in E
  BY <1>2
<1>4. edge[1] \in BlocksIn(l) /\ edge[2] \in DOMAIN succ[edge[1]] /\ e \notin BlocksIn(l)
  <2>1. \A g \in E : /\ g[1] \in BlocksIn(l) /\ g[2] \in DOMAIN succ[g[1]]
                     /\ succ[g[1]][g[2]] \notin BlocksIn(l)
    BY DEF ExitEdges
  <2> HIDE DEF E, edge
  <2> QED BY <1>3, <2>1
<1>5. ExitBlock(l) = <<e>>
  BY <1>1
<1> HIDE DEF e, E, edge
<1>6. Goes(edge[1], e) /\ edge[1] \in BasicBlocks
  BY <1>4, FunctionIs DEF Goes, ToSet, e
<1>7. e \in BasicBlocks
  BY <1>6, EdgeIs
<1>8. ExitBlock(l)[1] = e
  BY <1>5
<1> QED BY <1>4, <1>5, <1>6, <1>7, <1>8
\* r is s with the edges from b to old leading to new.
Redirected(B, s, r, b, old, new) ==
  /\ r \in [B -> Seq(B)]
  /\ \A d \in B : d # b => r[d] = s[d]
  /\ \A d \in B : Len(r[d]) = Len(s[d]) /\ DOMAIN r[d] = DOMAIN s[d]
  /\ \A j \in DOMAIN s[b] : r[b][j] = IF s[b][j] = old THEN new ELSE s[b][j]

LEMMA Replaced ==
  ASSUME NEW B, NEW s \in [B -> Seq(B)], NEW b \in B, NEW old, NEW new \in B
  PROVE  Redirected(B, s, ReplaceSuccessor(s, b, old, new), b, old, new)
<1> DEFINE t == [j \in DOMAIN s[b] |-> IF s[b][j] = old THEN new ELSE s[b][j]]
           r == [s EXCEPT ![b] = t]
<1>1. ReplaceSuccessor(s, b, old, new) = r
  BY DEF ReplaceSuccessor
<1>2. s[b] \in Seq(B) /\ DOMAIN s[b] = 1..Len(s[b]) /\ Len(s[b]) \in Nat
  OBVIOUS
<1>3. t \in Seq(B) /\ Len(t) = Len(s[b]) /\ DOMAIN t = DOMAIN s[b]
  <2>1. \A j \in 1..Len(s[b]) : (IF s[b][j] = old THEN new ELSE s[b][j]) \in B
    BY <1>2
  <2> QED BY <1>2, <2>1
<1>4. \A j \in DOMAIN s[b] : t[j] = IF s[b][j] = old THEN new ELSE s[b][j]
  OBVIOUS
<1> HIDE DEF t
<1>5. r \in [B -> Seq(B)] /\ r[b] = t /\ \A d \in B : d # b => r[d] = s[d]
  BY <1>3
<1> HIDE DEF r
<1> QED BY <1>1, <1>3, <1>4, <1>5 DEF Redirected

\* What one fusion changes: x and y are the bodies of the loops a and b, e is
\* the block that b exits to.
Fuses(a, b, x, y, e) ==
  /\ a \in Loops /\ b \in Loops /\ a # b /\ pairs[turn] = <<a, b>>
  /\ IsSimple(a) /\ IsSimple(b) /\ ~Took(a) /\ ~Took(b)
  /\ x \in BlocksIn(a) /\ y \in BlocksIn(b) /\ y # fn.loops[b].latch
  /\ \A d \in BasicBlocks : Goes(d, fn.loops[b].latch) <=> d = y
  /\ e \in BasicBlocks /\ e \notin BlocksIn(b)
  /\ \E c \in BlocksIn(b) : Edge(fn, c, e)
  /\ succ' = ReplaceSuccessor(ReplaceSuccessor(ReplaceSuccessor(
               succ, x, fn.loops[a].latch, y), y, fn.loops[b].latch, fn.loops[a].latch),
               fn.loops[a].header, ExitBlock(a)[1], e)

\* The one block that leads to the latch of a loop as it was is in the loop.
LEMMA PredecessorInLoop ==
  ASSUME FusionInv, NEW l \in Loops, IsSimple(l), ~Took(l),
         NEW x \in BasicBlocks, \A d \in BasicBlocks : Goes(d, fn.loops[l].latch) <=> d = x
  PROVE  x \in BlocksIn(l) /\ x # fn.loops[l].latch
<1> DEFINE latch == fn.loops[l].latch
           pre == fn.loops[l].pre
<1>0. FusionShape /\ Untouched
  BY DEF FusionInv
<1>1. /\ \A b \in BlocksIn(l) \cup {pre} : succ[b] = fn.succ[b]
      /\ \A b \in BasicBlocks, c \in BlocksIn(l) : Goes(b, c) => Edge(fn, b, c)
  BY <1>0 DEF Untouched
<1>2. BlocksIn(l) \subseteq BasicBlocks /\ latch \in BlocksIn(l)
  BY <1>0, FunctionIs
<1>3. \A b \in BlocksIn(l) \cup {pre} : Edge(fn, b, latch) => Goes(b, latch)
  BY <1>0, <1>1, <1>2, SimpleLoop, EdgeIs DEF Goes
<1>4. PICK a \in BasicBlocks : a # latch /\ Edge(fn, a, latch)
  BY <1>0, SimpleLoop
<1>5. a \in BlocksIn(l) \cup {pre}
  BY <1>0, <1>2, <1>4, SimpleLoop
<1>6. x = a
  BY <1>3, <1>4, <1>5
<1>7. CASE a \notin BlocksIn(l)
  <2>1. latch = fn.loops[l].header
    BY <1>0, <1>2, <1>4, <1>7, SimpleLoop
  <2>2. Goes(latch, latch)
    BY <1>0, <1>2, <1>3, <2>1, SimpleLoop
  <2> QED BY <1>2, <1>4, <1>6, <2>2
<1> QED BY <1>4, <1>6, <1>7

LEMMA FuseShape ==
  ASSUME FusionInv, Fuse
  PROVE  /\ phase = "fuse" /\ turn \in DOMAIN pairs
         /\ \E a, b, x, y, e : Fuses(a, b, x, y, e)
<1>0. FusionShape /\ Ascending /\ Behind /\ Untouched /\ Cut
  BY DEF FusionInv
<1>1. phase = "fuse" /\ turn \in DOMAIN pairs
  BY <1>0 DEF Fuse, FusionShape
<1> DEFINE a == pairs[turn][1]
           b == pairs[turn][2]
<1>2. pairs[turn] \in Loops \X Loops
  BY <1>0, <1>1 DEF FusionShape
<1>3. pairs[turn] = <<a, b>> /\ a \in Loops /\ b \in Loops /\ L1 = a /\ L2 = b
  BY <1>2 DEF L1, L2
<1>4. Adjoin(pairs[turn])
  BY <1>0, <1>1 DEF Ascending
<1>5. /\ IsSimple(a) /\ IsSimple(b)
      /\ \E c \in BlocksIn(a) : Edge(fn, c, fn.loops[b].pre)
  BY <1>4 DEF Adjoin
<1> HIDE DEF a, b
<1>6. a < b /\ a # b
  <2>1. a \in Nat /\ b \in Nat
    BY <1>0, <1>3, FunctionIs
  <2> QED BY <1>0, <1>3, <1>5, <2>1, SimpleLoop
<1>7. /\ SinglePredecessor(fn.loops[a].latch) # <<>>
      /\ SinglePredecessor(fn.loops[b].latch) # <<>>
      /\ ExitBlock(a) # <<>> /\ ExitBlock(b) # <<>>
  BY <1>3 DEF Fuse, Normal, Body1, Body2, Top
<1>8. PICK x \in BasicBlocks : /\ SinglePredecessor(fn.loops[a].latch)[1] = x
                                 /\ \A d \in BasicBlocks : Goes(d, fn.loops[a].latch) <=> d = x
  BY <1>0, <1>7, SingleIs
<1>9. PICK y \in BasicBlocks : /\ SinglePredecessor(fn.loops[b].latch)[1] = y
                                 /\ \A d \in BasicBlocks : Goes(d, fn.loops[b].latch) <=> d = y
  BY <1>0, <1>7, SingleIs
<1>10. ASSUME NEW p \in fused
       PROVE  /\ p[1] \in Loops /\ p[2] \in Loops /\ IsSimple(p[1])
              /\ p[1] # a /\ p[1] # b /\ p[2] # a /\ p[2] # b
  <2>1. PICK n \in DOMAIN pairs : n < turn /\ pairs[n] = p
    BY <1>0 DEF Behind
  <2>2. p[1] < a
    BY <1>0, <1>1, <2>1 DEF Ascending, a
  <2>3. Adjoin(p)
    BY <1>0, <2>1 DEF Ascending
  <2>4. /\ p[1] \in Loops /\ p[2] \in Loops /\ IsSimple(p[1])
        /\ \E c \in BlocksIn(p[1]) : Edge(fn, c, fn.loops[p[2]].pre)
    BY <2>3 DEF Adjoin
  <2>5. p[1] # a /\ p[1] # b
    <3>1. p[1] \in Nat /\ a \in Nat /\ b \in Nat
      BY <1>0, <1>3, <2>4, FunctionIs
    <3> QED BY <1>6, <2>2, <3>1
  <2>6. p[2] # a
    BY <1>0, <1>8 DEF Cut
  <2>7. p[2] # b
    <3>1. SUFFICES ASSUME p[2] = b PROVE FALSE
      OBVIOUS
    <3> DEFINE pre == fn.loops[b].pre
    <3>2. pre \in BasicBlocks /\ pre \notin BlocksIn(p[1])
      BY <1>0, <1>3, <1>5, <2>4, SimpleLoop
    <3>3. PICK c \in BlocksIn(p[1]) : Edge(fn, c, pre)
      BY <2>4, <3>1
    <3>4. PICK d \in BlocksIn(a) : Edge(fn, d, pre)
      BY <1>5
    <3>5. d \in BasicBlocks
      BY <1>0, <1>3, FunctionIs
    <3> HIDE DEF pre
    <3>6. d \in BlocksIn(p[1])
      BY <1>0, <2>4, <3>2, <3>3, <3>4, <3>5, SimpleLoop
    <3> QED BY <1>0, <1>3, <2>4, <2>5, <3>4, <3>6, LoopsApart
  <2> QED BY <2>4, <2>5, <2>6, <2>7
<1>11. ~Took(a) /\ ~Took(b)
  BY <1>10 DEF Took
<1>12. x \in BlocksIn(a)
  BY <1>3, <1>5, <1>8, <1>11, PredecessorInLoop
<1>13. y \in BlocksIn(b) /\ y # fn.loops[b].latch
  BY <1>3, <1>5, <1>9, <1>11, PredecessorInLoop
<1> DEFINE e == ExitBlock(b)[1]
<1>14. PICK c \in BlocksIn(b) : Goes(c, e) /\ e \in BasicBlocks /\ e \notin BlocksIn(b)
  BY <1>0, <1>3, <1>7, ExitIs
<1>15. Edge(fn, c, e)
  <2>1. succ[c] = fn.succ[c] /\ c \in BasicBlocks
    BY <1>0, <1>3, <1>5, <1>11, FunctionIs DEF Untouched
  <2> QED BY <1>0, <1>14, <2>1, EdgeIs DEF Goes
<1>16. succ' = ReplaceSuccessor(ReplaceSuccessor(ReplaceSuccessor(
                 succ, x, fn.loops[a].latch, y), y, fn.loops[b].latch, fn.loops[a].latch),
                 fn.loops[a].header, ExitBlock(a)[1], e)
  BY <1>3, <1>8, <1>9 DEF Fuse, Spliced, Body1, Body2, Top
<1> HIDE DEF e
<1>17. Fuses(a, b, x, y, e)
  BY <1>3, <1>5, <1>6, <1>9, <1>11, <1>12, <1>13, <1>14, <1>15, <1>16 DEF Fuses
<1> QED BY <1>1, <1>17
LEMMA FuseEffect ==
  ASSUME FusionInv, NEW a, NEW b, NEW x, NEW y, NEW e, Fuses(a, b, x, y, e)
  PROVE  /\ succ' \in [BasicBlocks -> Seq(BasicBlocks)]
         /\ \A d \in BasicBlocks : Len(succ'[d]) = Len(succ[d])
         /\ \A d \in BasicBlocks :
              d \notin BlocksIn(a) /\ d \notin BlocksIn(b) => succ'[d] = succ[d]
         /\ \A d \in BasicBlocks : \A c :
              Goes(d, c)' => Goes(d, c) \/ c = y \/ c = fn.loops[a].latch \/ c = e
         /\ \A d \in BasicBlocks : fn.loops[b].latch \notin ToSet(succ'[d])
<1> DEFINE B == BasicBlocks
           la == fn.loops[a].latch
           lb == fn.loops[b].latch
           ha == fn.loops[a].header
           xa == ExitBlock(a)[1]
           s1 == ReplaceSuccessor(succ, x, la, y)
           s2 == ReplaceSuccessor(s1, y, lb, la)
           s3 == ReplaceSuccessor(s2, ha, xa, e)
<1>0. FusionShape
  BY DEF FusionInv
<1>1. /\ a \in Loops /\ b \in Loops /\ a # b
      /\ x \in BlocksIn(a) /\ y \in BlocksIn(b) /\ y # lb
      /\ \A d \in B : Goes(d, lb) <=> d = y
      /\ e \in B /\ e \notin BlocksIn(b)
      /\ succ' = s3
  BY DEF Fuses
<1>2. /\ BlocksIn(a) \subseteq B /\ BlocksIn(b) \subseteq B
      /\ la \in BlocksIn(a) /\ ha \in BlocksIn(a) /\ lb \in BlocksIn(b)
  BY <1>0, <1>1, FunctionIs
<1>3. \A d : ~(d \in BlocksIn(a) /\ d \in BlocksIn(b))
  BY <1>0, <1>1, LoopsApart
<1>4. succ \in [B -> Seq(B)]
  BY <1>0 DEF FusionShape
<1> HIDE DEF B, la, lb, ha, xa
<1>8. x \in B /\ y \in B /\ e \in B /\ la \in B /\ ha \in B /\ x # y /\ ha # y /\ la # lb /\ e # lb
  BY <1>1, <1>2, <1>3
<1>5. /\ s1 \in [B -> Seq(B)]
      /\ \A d \in B : d # x => s1[d] = succ[d]
      /\ \A d \in B : Len(s1[d]) = Len(succ[d]) /\ DOMAIN s1[d] = DOMAIN succ[d]
      /\ \A j \in DOMAIN succ[x] : s1[x][j] = IF succ[x][j] = la THEN y ELSE succ[x][j]
  <2>1. Redirected(B, succ, s1, x, la, y)
    BY <1>4, <1>8, Replaced
  <2> HIDE DEF s1
  <2> QED BY <2>1 DEF Redirected
<1> HIDE DEF s1
<1>6. /\ s2 \in [B -> Seq(B)]
      /\ \A d \in B : d # y => s2[d] = s1[d]
      /\ \A d \in B : Len(s2[d]) = Len(s1[d]) /\ DOMAIN s2[d] = DOMAIN s1[d]
      /\ \A j \in DOMAIN s1[y] : s2[y][j] = IF s1[y][j] = lb THEN la ELSE s1[y][j]
  <2>1. Redirected(B, s1, s2, y, lb, la)
    BY <1>5, <1>8, Replaced
  <2> HIDE DEF s2
  <2> QED BY <2>1 DEF Redirected
<1> HIDE DEF s2
<1>7. /\ s3 \in [B -> Seq(B)]
      /\ \A d \in B : d # ha => s3[d] = s2[d]
      /\ \A d \in B : Len(s3[d]) = Len(s2[d]) /\ DOMAIN s3[d] = DOMAIN s2[d]
      /\ \A j \in DOMAIN s2[ha] : s3[ha][j] = IF s2[ha][j] = xa THEN e ELSE s2[ha][j]
  <2>1. Redirected(B, s2, s3, ha, xa, e)
    BY <1>6, <1>8, Replaced
  <2> HIDE DEF s3
  <2> QED BY <2>1 DEF Redirected
<1> HIDE DEF s3
<1>9. \A d \in B : Len(s3[d]) = Len(succ[d]) /\ DOMAIN s3[d] = DOMAIN succ[d]
  BY <1>5, <1>6, <1>7
<1>10. ASSUME NEW d \in B, d \notin BlocksIn(a), d \notin BlocksIn(b)
       PROVE  s3[d] = succ[d]
  <2>1. d # x /\ d # y /\ d # ha
    BY <1>1, <1>2, <1>10
  <2> QED BY <1>5, <1>6, <1>7, <2>1
<1>11. ASSUME NEW d \in B, NEW j \in DOMAIN succ[d]
       PROVE  /\ s3[d][j] = succ[d][j] \/ s3[d][j] \in {y, la, e}
              /\ d = y => s3[d][j] # lb
  <2>1. s1[d][j] = succ[d][j] \/ s1[d][j] = y
    BY <1>5, <1>8
  <2>2. s2[d][j] = s1[d][j] \/ s2[d][j] = la
    BY <1>5, <1>6, <1>8
  <2>3. s3[d][j] = s2[d][j] \/ s3[d][j] = e
    BY <1>5, <1>6, <1>7, <1>8
  <2>4. d = y => s2[d][j] # lb
    BY <1>5, <1>6, <1>8
  <2> QED BY <2>1, <2>2, <2>3, <2>4, <1>8
<1>12. ASSUME NEW d \in B, NEW c, c \in ToSet(s3[d])
       PROVE  /\ c \in ToSet(succ[d]) \/ c = y \/ c = la \/ c = e
              /\ c # lb
  <2>1. PICK j \in DOMAIN succ[d] : s3[d][j] = c
    BY <1>9, <1>12, Elements
  <2>2. c \in ToSet(succ[d]) \/ c = y \/ c = la \/ c = e
    BY <1>11, <2>1, Elements
  <2>3. c # lb
    <3>1. d # y => lb \notin ToSet(succ[d])
      BY <1>1 DEF Goes
    <3> QED BY <1>1, <1>8, <1>11, <2>1, <2>2, <3>1
  <2> QED BY <2>2, <2>3
<1>13. \A d \in B : \A c : Goes(d, c)' => Goes(d, c) \/ c = y \/ c = la \/ c = e
  BY <1>1, <1>12 DEF Goes
<1>14. \A d \in B : lb \notin ToSet(succ'[d])
  BY <1>1, <1>12
<1>15. s3 \in [B -> Seq(B)]
  BY <1>7
<1> QED BY <1>1, <1>9, <1>10, <1>13, <1>14, <1>15 DEF B, la, lb
-----------------------------------------------------------------------------
LEMMA SameFunction ==
  ASSUME fn' = fn
  PROVE  /\ BasicBlocks' = BasicBlocks /\ Loops' = Loops /\ Phis' = Phis
         /\ \A l : BlocksIn(l)' = BlocksIn(l) /\ IsSimple(l)' = IsSimple(l)
         /\ \A p : Adjoin(p)' = Adjoin(p)
<1>1. BasicBlocks' = BasicBlocks /\ Loops' = Loops
  BY DEF BasicBlocks, Loops
<1>2. \A l : Top(l)' = Top(l)
  BY DEF Top
<1>3. \A l : BlocksIn(l)' = BlocksIn(l) /\ IsSimple(l)' = IsSimple(l)
  BY <1>2 DEF BlocksIn, IsSimple
<1>4. Phis' = Phis
  BY <1>1, <1>2 DEF Phis
<1>5. \A p : Adjoin(p)' = Adjoin(p)
  BY <1>1, <1>3 DEF Adjoin
<1> QED BY <1>1, <1>3, <1>4, <1>5

\* While the pairs are collected, and thinned out.
Unfused == UNCHANGED <<fn, succ, ref, fused>> /\ phase \notin {"fuse", "done"}

LEMMA UnfusedKeeps ==
  ASSUME FusionInv, Unfused, FusionShape', Ascending'
  PROVE  FusionInv'
<1>1. /\ fn' = fn /\ succ' = succ /\ fused' = fused
      /\ succ = fn.succ /\ fused = {}
  BY DEF FusionInv, Behind, Unfused
<1>2. Behind' /\ Cut' /\ Apart'
  BY <1>1 DEF Behind, Cut, Apart
<1>3. Untouched'
  <2>1. \A b, c : Goes(b, c)' = Goes(b, c)
    BY <1>1 DEF Goes
  <2>2. \A l : Took(l)' = Took(l)
    BY <1>1 DEF Took
  <2>3. Untouched
    BY DEF FusionInv
  <2> QED BY <1>1, <2>1, <2>2, <2>3, SameFunction DEF Untouched
<1> QED BY <1>2, <1>3 DEF FusionInv
LEMMA FindStep ==
  ASSUME FusionInv, FindAdjacent
  PROVE  FusionInv'
<1>0. FusionShape /\ Ascending /\ Behind
  BY DEF FusionInv
<1>1. Unfused /\ phase = "adjacent" /\ turn \in Loops /\ turn' = turn + 1 /\ phase' = phase /\ fn' = fn
  BY DEF FindAdjacent, Unfused
<1>2. turn \in Nat /\ turn' \in Nat \ {0}
  BY <1>0, <1>1 DEF FusionShape
<1>3. CASE pairs' = pairs
  <2>1. FusionShape'
    BY <1>0, <1>1, <1>2, <1>3, SameFunction DEF FusionShape, Unfused
  <2>2. Ascending'
    <3>1. \A n \in DOMAIN pairs : pairs[n][1] < turn /\ pairs[n][1] \in Nat
      BY <1>0, <1>1, FunctionIs DEF Ascending, Adjoin
    <3>2. \A n \in DOMAIN pairs : pairs[n][1] < turn'
      BY <1>1, <1>2, <3>1
    <3> QED BY <1>0, <1>1, <1>3, <3>2, SameFunction DEF Ascending
  <2> QED BY <1>1, <2>1, <2>2, UnfusedKeeps
<1>4. ASSUME NEW m \in Loops, Adjacent(turn, m), pairs' = Append(pairs, <<turn, m>>)
      PROVE  FusionInv'
  <2>1. /\ IsSimple(turn) /\ IsSimple(m) /\ ExitBlock(turn) = <<fn.loops[m].pre>>
    BY <1>4 DEF Adjacent, Top, IsSimple
  <2>2. PICK a \in BlocksIn(turn) : Goes(a, fn.loops[m].pre)
    <3>1. ExitBlock(turn) # <<>> /\ ExitBlock(turn)[1] = fn.loops[m].pre
      BY <2>1
    <3> QED BY <1>0, <1>1, <3>1, ExitIs
  <2>3. Adjoin(<<turn, m>>)
    <3>1. succ = fn.succ /\ a \in BasicBlocks
      BY <1>0, <1>1, FunctionIs DEF Behind
    <3>2. Edge(fn, a, fn.loops[m].pre)
      BY <1>0, <2>2, <3>1, EdgeIs DEF Goes
    <3> QED BY <1>1, <2>1, <3>2 DEF Adjoin
  <2>4. /\ pairs' \in Seq(Loops \X Loops) /\ DOMAIN pairs = 1..Len(pairs)
        /\ DOMAIN pairs' = 1..(Len(pairs) + 1) /\ Len(pairs) \in Nat
        /\ \A n \in DOMAIN pairs : pairs'[n] = pairs[n]
        /\ pairs'[Len(pairs) + 1] = <<turn, m>>
    BY <1>0, <1>1, <1>4 DEF FusionShape
  <2>5. FusionShape'
    BY <1>0, <1>1, <1>2, <2>4, SameFunction DEF FusionShape, Unfused
  <2>6. \A n \in DOMAIN pairs' :
          \/ n \in DOMAIN pairs /\ pairs'[n] = pairs[n]
          \/ n = Len(pairs) + 1 /\ pairs'[n] = <<turn, m>>
    BY <2>4
  <2>7. \A n \in DOMAIN pairs : pairs[n][1] < turn /\ pairs[n][1] \in Nat
    BY <1>0, <1>1, FunctionIs DEF Ascending, Adjoin
  <2>8. \A n \in DOMAIN pairs' : Adjoin(pairs'[n])
    BY <1>0, <2>3, <2>6 DEF Ascending
  <2>9. \A n \in DOMAIN pairs' : pairs'[n][1] < turn'
    BY <1>1, <1>2, <2>6, <2>7
  <2>10. \A n, o \in DOMAIN pairs' : n < o => pairs'[n][1] < pairs'[o][1]
    <3> SUFFICES ASSUME NEW n \in DOMAIN pairs', NEW o \in DOMAIN pairs', n < o
                 PROVE  pairs'[n][1] < pairs'[o][1]
      OBVIOUS
    <3>1. n \in DOMAIN pairs /\ pairs'[n] = pairs[n]
      BY <2>4
    <3>2. CASE o \in DOMAIN pairs
      BY <1>0, <2>4, <3>1, <3>2 DEF Ascending
    <3>3. CASE o = Len(pairs) + 1
      BY <2>4, <2>7, <3>1, <3>3
    <3> QED BY <2>6, <3>2, <3>3
  <2>11. Ascending'
    BY <1>1, <2>8, <2>9, <2>10, SameFunction DEF Ascending
  <2> QED BY <1>1, <2>5, <2>11, UnfusedKeeps
<1> QED BY <1>3, <1>4 DEF FindAdjacent

\* A pair taken out.
LEMMA Removed ==
  ASSUME NEW S, NEW s \in Seq(S), NEW i \in DOMAIN s
  PROVE  LET t == RemoveAt(s, i) IN
         /\ t \in Seq(S) /\ DOMAIN t = 1..(Len(s) - 1)
         /\ \A j \in DOMAIN t : t[j] = s[IF j < i THEN j ELSE j + 1]
<1>1. i \in 1..Len(s) /\ Len(s) \in Nat
  OBVIOUS
<1> DEFINE u == SubSeq(s, 1, i - 1)
           v == SubSeq(s, i + 1, Len(s))
<1>2. u \in Seq(S) /\ Len(u) = i - 1 /\ \A j \in 1..(i - 1) : u[j] = s[j]
  BY <1>1
<1>3. v \in Seq(S) /\ Len(v) = Len(s) - i /\ \A j \in 1..(Len(s) - i) : v[j] = s[j + i]
  BY <1>1
<1> HIDE DEF u, v
<1>4. u \o v \in Seq(S) /\ Len(u \o v) = Len(s) - 1 /\ DOMAIN (u \o v) = 1..(Len(s) - 1)
  BY <1>1, <1>2, <1>3
<1>5. \A j \in 1..(Len(s) - 1) : (u \o v)[j] = IF j < i THEN u[j] ELSE v[j - (i - 1)]
  <2>1. \A j \in 1..(Len(u) + Len(v)) : (u \o v)[j] = IF j <= Len(u) THEN u[j] ELSE v[j - Len(u)]
    BY <1>2, <1>3
  <2>2. Len(u) + Len(v) = Len(s) - 1 /\ \A j \in Nat : j <= Len(u) <=> j < i
    BY <1>1, <1>2, <1>3
  <2> QED BY <1>2, <2>1, <2>2
<1>6. \A j \in 1..(Len(s) - 1) : (u \o v)[j] = s[IF j < i THEN j ELSE j + 1]
  <2> SUFFICES ASSUME NEW j \in 1..(Len(s) - 1)
               PROVE  (u \o v)[j] = s[IF j < i THEN j ELSE j + 1]
    OBVIOUS
  <2>1. CASE j < i
    BY <1>1, <1>2, <1>5, <2>1
  <2>2. CASE ~(j < i)
    <3>1. j - (i - 1) \in 1..(Len(s) - i) /\ j - (i - 1) + i = j + 1
      BY <1>1, <2>2
    <3> QED BY <1>3, <1>5, <2>2, <3>1
  <2> QED BY <2>1, <2>2
<1>7. RemoveAt(s, i) = u \o v
  BY DEF RemoveAt, u, v
<1> QED BY <1>4, <1>6, <1>7

Erasing == {"count", "equivalent", "dependences"}
LEMMA EraseStep ==
  ASSUME FusionInv, phase \in Erasing, NEW refused, EraseIf(refused)
  PROVE  FusionInv'
<1>0. FusionShape /\ Ascending
  BY DEF FusionInv
<1>1. Unfused /\ fn' = fn /\ phase' = phase /\ phase # "adjacent"
  BY DEF EraseIf, Unfused, Erasing
<1>2. CASE pairs' = pairs /\ turn' = turn + 1
  <2>1. FusionShape'
    BY <1>0, <1>1, <1>2, SameFunction DEF FusionShape, Unfused
  <2>2. Ascending'
    BY <1>0, <1>1, <1>2, SameFunction DEF Ascending
  <2> QED BY <1>1, <2>1, <2>2, UnfusedKeeps
<1>3. CASE turn' = turn /\ turn \in DOMAIN pairs /\ pairs' = RemoveAt(pairs, turn)
  <2> DEFINE was(n) == IF n < turn THEN n ELSE n + 1
  <2>1. /\ pairs' \in Seq(Loops \X Loops) /\ DOMAIN pairs' = 1..(Len(pairs) - 1)
        /\ \A n \in DOMAIN pairs' : pairs'[n] = pairs[was(n)]
        /\ turn \in Nat /\ DOMAIN pairs = 1..Len(pairs) /\ Len(pairs) \in Nat
    BY <1>0, <1>3, Removed DEF FusionShape
  <2>2. \A n \in DOMAIN pairs' : was(n) \in DOMAIN pairs
    BY <2>1
  <2>3. \A n, o \in DOMAIN pairs' : n < o => was(n) < was(o)
    BY <2>1
  <2> HIDE DEF was
  <2>4. FusionShape'
    BY <1>0, <1>1, <1>3, <2>1, SameFunction DEF FusionShape, Unfused
  <2>5. Ascending'
    BY <1>0, <1>1, <2>1, <2>2, <2>3, SameFunction DEF Ascending
  <2> QED BY <1>1, <2>4, <2>5, UnfusedKeeps
<1> QED BY <1>2, <1>3 DEF EraseIf

LEMMA PhaseStep ==
  ASSUME FusionInv, phase \in Erasing \cup {"adjacent"}, turn' = 1,
         NEW next \in {"count", "equivalent", "dependences", "fuse"}, phase' = next,
         UNCHANGED <<fn, succ, ref, pairs, fused>>
  PROVE  FusionInv'
<1>0. FusionShape /\ Ascending
  BY DEF FusionInv
<1>1. Unfused
  BY DEF Unfused, Erasing
<1>2. FusionShape'
  BY <1>0, SameFunction DEF FusionShape
<1>3. Ascending'
  BY <1>0, SameFunction DEF Ascending
<1> QED BY <1>1, <1>2, <1>3, UnfusedKeeps
\* A round that changes nothing, or that fuses, goes on to the next pair.
LEMMA PassOver ==
  ASSUME FusionInv, turn' \in Nat, turn <= turn', phase = "fuse", phase' \in {"fuse", "done"},
         UNCHANGED <<fn, succ, ref, pairs, fused>>
  PROVE  FusionInv'
<1>0. FusionShape /\ Ascending /\ Behind /\ Untouched /\ Cut /\ Apart
  BY DEF FusionInv
<1>1. turn \in Nat \ {0} /\ turn' \in Nat \ {0} /\ \A n \in DOMAIN pairs : n \in Nat
  BY <1>0 DEF FusionShape
<1>2. FusionShape'
  BY <1>0, <1>1, SameFunction DEF FusionShape
<1>3. Ascending'
  BY <1>0, SameFunction DEF Ascending
<1>4. Behind'
  <2>1. \A n \in DOMAIN pairs : n < turn => n < turn'
    BY <1>1
  <2> QED BY <1>0, <2>1 DEF Behind
<1>5. Untouched'
  <2>1. \A b, c : Goes(b, c)' = Goes(b, c)
    BY DEF Goes
  <2>2. \A l : Took(l)' = Took(l)
    BY DEF Took
  <2> QED BY <1>0, <2>1, <2>2, SameFunction DEF Untouched
<1>6. Cut' /\ Apart'
  <2>1. \A b, c : Goes(b, c)' = Goes(b, c)
    BY DEF Goes
  <2>2. BasicBlocks' = BasicBlocks
    BY SameFunction
  <2> QED BY <1>0, <2>1, <2>2 DEF Cut, Apart, Goes
<1> QED BY <1>2, <1>3, <1>4, <1>5, <1>6 DEF FusionInv

LEMMA FuseStep ==
  ASSUME FusionInv, Fuse
  PROVE  FusionInv'
<1>0. FusionShape /\ Ascending /\ Behind /\ Untouched /\ Cut /\ Apart
  BY DEF FusionInv
<1>1. /\ phase = "fuse" /\ phase' = "fuse" /\ fn' = fn /\ pairs' = pairs /\ turn' = turn + 1
      /\ fused' = fused \cup {pairs[turn]} /\ turn \in DOMAIN pairs
  BY FuseShape DEF Fuse
<1>2. PICK a, b, x, y, e : Fuses(a, b, x, y, e)
  BY FuseShape
<1>3. /\ a \in Loops /\ b \in Loops /\ a # b /\ pairs[turn] = <<a, b>>
      /\ IsSimple(a) /\ IsSimple(b) /\ ~Took(a) /\ ~Took(b)
      /\ x \in BlocksIn(a) /\ y \in BlocksIn(b)
      /\ e \in BasicBlocks /\ e \notin BlocksIn(b)
      /\ \E c \in BlocksIn(b) : Edge(fn, c, e)
  BY <1>2 DEF Fuses
<1>4. /\ succ' \in [BasicBlocks -> Seq(BasicBlocks)]
      /\ \A d \in BasicBlocks : Len(succ'[d]) = Len(succ[d])
      /\ \A d \in BasicBlocks :
           d \notin BlocksIn(a) /\ d \notin BlocksIn(b) => succ'[d] = succ[d]
      /\ \A d \in BasicBlocks : \A c :
           Goes(d, c)' => Goes(d, c) \/ c = y \/ c = fn.loops[a].latch \/ c = e
      /\ \A d \in BasicBlocks : fn.loops[b].latch \notin ToSet(succ'[d])
  BY <1>2, FuseEffect
<1>5. turn \in Nat \ {0} /\ turn' \in Nat \ {0} /\ \A n \in DOMAIN pairs : n \in Nat
  BY <1>0, <1>1 DEF FusionShape
<1>6. fn.loops[a].latch \in BlocksIn(a)
  BY <1>0, <1>3, FunctionIs
\* None of the new ends of edges is in another loop in simplified form.
<1>7. ASSUME NEW l \in Loops, IsSimple(l), l # a, l # b
      PROVE  y \notin BlocksIn(l) /\ fn.loops[a].latch \notin BlocksIn(l)
             /\ e \notin BlocksIn(l)
  <2>1. y \notin BlocksIn(l) /\ fn.loops[a].latch \notin BlocksIn(l)
    BY <1>0, <1>3, <1>6, <1>7, LoopsApart
  <2>2. e \notin BlocksIn(l)
    <3>1. SUFFICES ASSUME e \in BlocksIn(l) PROVE FALSE
      OBVIOUS
    <3>2. PICK c \in BlocksIn(b) : Edge(fn, c, e)
      BY <1>3
    <3>3. c \in BasicBlocks /\ c \notin BlocksIn(l)
      BY <1>0, <1>3, <1>7, FunctionIs, LoopsApart
    <3>4. c = fn.loops[l].pre
      BY <1>0, <1>7, <3>1, <3>2, <3>3, SimpleLoop
    <3> QED BY <1>0, <1>3, <1>7, <3>2, <3>4, SimpleLoop
  <2> QED BY <2>1, <2>2
<1>8. \A l : Took(l)' <=> Took(l) \/ l = a \/ l = b
  BY <1>1, <1>3 DEF Took
<1>9. FusionShape'
  <2>1. ref' \in [Phis -> Phis]
    <3>1. fn.loops[a].phis # <<>>
      BY <1>3 DEF Fuse, HaveVariables, L1, Top
    <3>2. 1 \in DOMAIN fn.loops[a].phis
      <4>1. fn.loops[a].phis \in Seq([start : Int, step : Int])
        BY <1>0, <1>3, FunctionIs
      <4> QED BY <3>1, <4>1
    <3>3. <<a, 1>> \in Phis
      BY <1>3, <3>2 DEF Phis, Top
    <3>4. ref' = [p \in Phis |-> IF ref[p] = <<b, 1>> THEN <<a, 1>> ELSE ref[p]]
      BY <1>3 DEF Fuse, InductionVariable, L1, L2
    <3> QED BY <1>0, <3>3, <3>4 DEF FusionShape
  <2>2. \A d \in BasicBlocks : Len(succ'[d]) = Len(fn.succ[d])
    BY <1>0, <1>4 DEF FusionShape
  <2> QED BY <1>0, <1>1, <1>4, <1>5, <2>1, <2>2, SameFunction DEF FusionShape
<1>10. Ascending'
  BY <1>0, <1>1, SameFunction DEF Ascending
<1>11. Behind'
  <2>1. \A n \in DOMAIN pairs : n < turn => n < turn'
    BY <1>1, <1>5
  <2>2. turn < turn'
    BY <1>1, <1>5
  <2> QED BY <1>0, <1>1, <2>1, <2>2 DEF Behind
<1>12. Untouched'
  <2> SUFFICES ASSUME NEW l \in Loops, IsSimple(l), ~Took(l)'
               PROVE  /\ \A c \in BlocksIn(l) \cup {fn.loops[l].pre} : succ'[c] = fn.succ[c]
                      /\ \A c \in BasicBlocks, d \in BlocksIn(l) :
                           Goes(c, d)' => Edge(fn, c, d)
    BY <1>1, SameFunction DEF Untouched
  <2>1. ~Took(l) /\ l # a /\ l # b
    BY <1>8
  <2>2. /\ \A c \in BlocksIn(l) \cup {fn.loops[l].pre} : succ[c] = fn.succ[c]
        /\ \A c \in BasicBlocks, d \in BlocksIn(l) : Goes(c, d) => Edge(fn, c, d)
    BY <1>0, <2>1 DEF Untouched
  <2>3. \A c \in BlocksIn(l) \cup {fn.loops[l].pre} :
          c \in BasicBlocks /\ c \notin BlocksIn(a) /\ c \notin BlocksIn(b)
    BY <1>0, <1>3, <2>1, FunctionIs, LoopsApart, SimpleLoop
  <2>4. \A c \in BasicBlocks, d \in BlocksIn(l) : Goes(c, d)' => Goes(c, d)
    BY <1>4, <1>7, <2>1
  <2> QED BY <1>4, <2>2, <2>3, <2>4
<1>13. Cut'
  <2> SUFFICES ASSUME NEW p \in fused', NEW d \in BasicBlocks
               PROVE  fn.loops[p[2]].latch \notin ToSet(succ'[d])
    BY <1>1, SameFunction DEF Cut, Goes
  <2>1. CASE p \in fused
    <3>1. PICK n \in DOMAIN pairs : pairs[n] = p
      BY <1>0, <2>1 DEF Behind
    <3>2. p[2] \in Loops /\ IsSimple(p[2])
      BY <1>0, <3>1 DEF Ascending, Adjoin
    <3>3. p[2] # a /\ p[2] # b
      BY <1>3, <2>1 DEF Took
    <3>4. fn.loops[p[2]].latch \in BlocksIn(p[2])
      BY <1>0, <3>2, FunctionIs
    <3>5. ~Goes(d, fn.loops[p[2]].latch)
      BY <1>0, <2>1 DEF Cut
    <3> DEFINE latch == fn.loops[p[2]].latch
    <3>6. latch # y /\ latch # fn.loops[a].latch /\ latch # e
      BY <1>7, <3>2, <3>3, <3>4
    <3>7. \A c : Goes(d, c)' <=> c \in ToSet(succ'[d])
      BY DEF Goes
    <3> HIDE DEF latch
    <3>8. latch \notin ToSet(succ'[d])
      BY <1>4, <3>5, <3>6, <3>7 DEF latch
    <3> QED BY <3>8 DEF latch
  <2>2. CASE p = <<a, b>>
    BY <1>4, <2>2
  <2> QED BY <1>1, <1>3, <2>1, <2>2
<1>14. Apart'
  <2> SUFFICES ASSUME NEW p \in fused', NEW q \in fused', p # q
               PROVE  ToSet(p) \cap ToSet(q) = {}
    BY DEF Apart
  <2>1. ASSUME NEW r \in fused
        PROVE  ToSet(r) \cap {a, b} = {}
    <3>1. r \in Loops \X Loops
      BY <1>0, <2>1 DEF Behind, FusionShape
    <3>2. ToSet(r) = {r[1], r[2]}
      BY <3>1, PairIs
    <3> QED BY <1>3, <2>1, <3>2 DEF Took
  <2>2. ToSet(<<a, b>>) = {a, b}
    BY DEF ToSet
  <2>3. CASE p \in fused /\ q \in fused
    BY <1>0, <2>3 DEF Apart
  <2>4. CASE p \in fused /\ q = <<a, b>>
    BY <2>1, <2>2, <2>4
  <2>5. CASE p = <<a, b>> /\ q \in fused
    BY <2>1, <2>2, <2>5
  <2> QED BY <1>1, <1>3, <2>3, <2>4, <2>5
<1> QED BY <1>9, <1>10, <1>11, <1>12, <1>13, <1>14 DEF FusionInv
LEMMA FusionStarts ==
  ASSUME FusionInit
  PROVE  FusionInv
<1>1. /\ fn \in Functions /\ succ = fn.succ /\ pairs = <<>> /\ turn = 1 /\ fused = {} /\ phase = "adjacent"
      /\ ref = [p \in Phis |-> p]
  BY DEF FusionInit
<1>2. FunctionOK(fn)
  BY <1>1, FunctionsAssumption
<1>3. FusionShape
  <2>1. succ \in [BasicBlocks -> Seq(BasicBlocks)]
    BY <1>1, <1>2 DEF FunctionOK, BasicBlocks
  <2> QED BY <1>1, <1>2, <2>1 DEF FusionShape
<1>4. Ascending /\ Behind /\ Cut /\ Apart
  BY <1>1 DEF Ascending, Behind, Cut, Apart
<1>5. Untouched
  <2>1. ASSUME NEW b \in BasicBlocks, NEW c, Goes(b, c)
        PROVE  Edge(fn, b, c)
    BY <1>1, <1>3, <2>1, EdgeIs DEF Goes
  <2>2. \A l \in Loops : BlocksIn(l) \subseteq BasicBlocks
    BY <1>3, FunctionIs
  <2> QED BY <1>1, <2>1, <2>2 DEF Untouched
<1> QED BY <1>3, <1>4, <1>5 DEF FusionInv

LEMMA FusionKeeps ==
  ASSUME FusionInv, [FusionNext]_fusionVars
  PROVE  FusionInv'
<1>1. CASE FindAdjacent
  BY <1>1, FindStep
<1>2. CASE AllFound
  <2>1. /\ phase = "adjacent" /\ turn' = 1 /\ phase' = "count"
        /\ UNCHANGED <<fn, succ, ref, pairs, fused>>
    BY <1>2 DEF AllFound
  <2> QED BY <2>1, PhaseStep DEF Erasing
<1>3. ASSUME NEW refused, NEW next \in {"count", "equivalent", "dependences", "fuse"},
             phase \in Erasing, EraseIf(refused) \/ Then(next)
      PROVE  FusionInv'
  <2>1. CASE EraseIf(refused)
    BY <1>3, <2>1, EraseStep
  <2>2. CASE Then(next)
    <3>1. turn' = 1 /\ phase' = next /\ UNCHANGED <<fn, succ, ref, pairs, fused>>
      BY <2>2 DEF Then
    <3> QED BY <1>3, <3>1, PhaseStep
  <2> QED BY <1>3, <2>1, <2>2
<1>4. CASE TripCount
  BY <1>3, <1>4 DEF TripCount, Erasing
<1>5. CASE ControlFlowEquivalent
  BY <1>3, <1>5 DEF ControlFlowEquivalent, Erasing
<1>6. CASE Dependencies
  BY <1>3, <1>6 DEF Dependencies, Erasing
<1>7. turn \in Nat
  BY DEF FusionInv, FusionShape
<1>8. CASE Skip
  BY <1>7, <1>8, PassOver DEF Skip
<1>9. CASE Fuse
  BY <1>9, FuseStep
<1>10. CASE FusionDone
  BY <1>7, <1>10, PassOver DEF FusionDone
<1>11. CASE UNCHANGED fusionVars
  <2>1. UNCHANGED <<fn, succ, ref, pairs, turn, fused, phase>>
    BY <1>11 DEF fusionVars
  <2>2. FusionShape' /\ Ascending' /\ Behind'
    BY <2>1, SameFunction DEF FusionInv, FusionShape, Ascending, Behind
  <2>3. (\A b, c : Goes(b, c)' = Goes(b, c)) /\ (\A l : Took(l)' = Took(l))
    BY <2>1 DEF Goes, Took
  <2>4. Untouched' /\ Cut' /\ Apart'
    BY <2>1, <2>3, SameFunction DEF FusionInv, Untouched, Cut, Apart, Goes
  <2> QED BY <2>2, <2>4 DEF FusionInv
<1> QED BY <1>1, <1>2, <1>4, <1>5, <1>6, <1>8, <1>9, <1>10, <1>11 DEF FusionNext

LEMMA FusionHolds ==
  ASSUME FusionInv
  PROVE  FusedOnce
<1>0. FusionShape /\ Ascending /\ Behind /\ Apart
  BY DEF FusionInv
<1>1. \A b \in BasicBlocks : ToSet(succ[b]) \subseteq BasicBlocks
  BY <1>0, EdgeIs DEF Goes
<1>2. \A p \in Phis : ref[p] \in Phis
  BY <1>0 DEF FusionShape
<1>3. fused \subseteq ToSet(pairs)
  BY <1>0, Elements DEF Behind
<1>4. ASSUME NEW n \in DOMAIN pairs
      PROVE  pairs[n][1] < pairs[n][2]
  <2>1. Adjoin(pairs[n])
    BY <1>0 DEF Ascending
  <2> QED BY <1>0, <2>1, SimpleLoop DEF Adjoin
<1>5. FusionTypeOK
  BY <1>0, <1>1, <1>2, <1>3, <1>4 DEF FusionTypeOK, FusionShape
<1> QED BY <1>0, <1>5 DEF FusedOnce, Apart

\* FusedOnce, for every function: lab-fusion.cpp:191 goes through pairs from
\* before the first fusion, and what the handles of a loop answer when it is no
\* loop any more keeps it from being fused again.
THEOREM NoLoopFusedTwice == FusionSpec => []FusedOnce
<1>1. FusionInit => FusionInv
  BY FusionStarts
<1>2. FusionInv /\ [FusionNext]_fusionVars => FusionInv'
  BY FusionKeeps
<1>3. FusionInv => FusedOnce
  BY FusionHolds
<1> QED BY <1>1, <1>2, <1>3, PTL DEF FusionSpec
=============================================================================
