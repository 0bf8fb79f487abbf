-------------------------- MODULE ToyCompilerProofs --------------------------
(***************************************************************************)
(* Proofs about ToyCompiler: every rewrite keeps the body of main well     *)
(* formed, and from that, whatever the program and the options, buffers    *)
(* live around their uses at every point of the conversion to loops, and   *)
(* what comes out is of the dialect that was asked for.                    *)
(***************************************************************************)
EXTENDS ToyCompiler, SequenceTheorems, TLAPS

\* One operation of a well-formed body.
OpOK(body, i) ==
  /\ \A k \in DOMAIN body[i].ins : /\ body[i].ins[k] \in 1..(i - 1)
                                   /\ body[body[i].ins[k]].kind \notin NoResult \cup {"erased"}
  /\ Len(body[i].ins) \in Arity(body[i].kind)
  /\ body[i].kind = "generic_call" => ~body[i].type.ranked
  /\ body[i].kind = "return" <=> i = Len(body)

LEMMA WellFormedIs ==
  ASSUME NEW body
  PROVE  WellFormed(body) <=> body \in Seq(Operations) /\ \A i \in DOMAIN body : OpOK(body, i)
BY DEF WellFormed, OpOK

-----------------------------------------------------------------------------
(* Operations and their operands                                           *)

LEMMA FieldsOf ==
  ASSUME NEW op \in Operations
  PROVE  /\ op.kind \in Kinds \cup {"erased"}
         /\ op.ins \in Seq(Nat) /\ Len(op.ins) \in Nat /\ DOMAIN op.ins = 1..Len(op.ins)
         /\ op.type \in [ranked : BOOLEAN, dims : Seq(Nat)]
         /\ op.data \in Seq(Int)
<1>1. /\ op.kind \in Kinds \cup {"erased"} /\ op.ins \in Seq(Nat)
      /\ op.type \in [ranked : BOOLEAN, dims : Seq(Nat)] /\ op.data \in Seq(Int)
  BY DEF Operations
<1>2. QED  BY <1>1

LEMMA ErasedIsOperation == Erased \in Operations
<1>1. <<>> \in Seq(Nat) /\ <<>> \in Seq(Int)  OBVIOUS
<1>2. QED  BY <1>1 DEF Erased, Operations, Unranked

LEMMA CastIsOperation ==
  ASSUME NEW i \in Nat
  PROVE  /\ CastOf(i) \in Operations
         /\ CastOf(i).kind = "cast" /\ CastOf(i).ins = <<i>>
<1>1. <<i>> \in Seq(Nat)  OBVIOUS
<1>2. QED  BY <1>1, ErasedIsOperation DEF Erased, CastOf, Operations, Kinds, Inferable

\* An operation with other operands, or of another type, is the same otherwise.
LEMMA WithOperands ==
  ASSUME NEW op \in Operations, NEW ins \in Seq(Nat)
  PROVE  LET new == [op EXCEPT !.ins = ins]
         IN  /\ new \in Operations
             /\ new.kind = op.kind /\ new.type = op.type /\ new.data = op.data /\ new.callee = op.callee
             /\ new.ins = ins
BY DEF Operations

LEMMA WithType ==
  ASSUME NEW op \in Operations, NEW type \in [ranked : BOOLEAN, dims : Seq(Nat)]
  PROVE  LET new == [op EXCEPT !.type = type]
         IN  /\ new \in Operations
             /\ new.kind = op.kind /\ new.ins = op.ins /\ new.data = op.data /\ new.callee = op.callee
             /\ new.type = type
BY DEF Operations

LEMMA RenamedOperation ==
  ASSUME NEW op \in Operations, NEW at,
         \A k \in DOMAIN op.ins : at[op.ins[k]] \in Nat
  PROVE  /\ Renamed(op, at) \in Operations
         /\ Renamed(op, at).kind = op.kind /\ Renamed(op, at).type = op.type
         /\ DOMAIN Renamed(op, at).ins = DOMAIN op.ins
         /\ Len(Renamed(op, at).ins) = Len(op.ins)
         /\ \A k \in DOMAIN op.ins : Renamed(op, at).ins[k] = at[op.ins[k]]
<1> DEFINE ins == [k \in DOMAIN op.ins |-> at[op.ins[k]]]
<1>1. op.ins \in Seq(Nat)  BY DEF Operations
<1>2. DOMAIN op.ins = 1..Len(op.ins) /\ Len(op.ins) \in Nat  BY <1>1
<1>3. ins \in Seq(Nat) /\ Len(ins) = Len(op.ins) /\ DOMAIN ins = DOMAIN op.ins
  BY <1>2
<1>4. Renamed(op, at) = [op EXCEPT !.ins = ins]  BY DEF Renamed
<1>5. \A k \in DOMAIN op.ins : ins[k] = at[op.ins[k]]  OBVIOUS
<1> HIDE DEF ins
<1>6. QED  BY <1>3, <1>4, <1>5, WithOperands

-----------------------------------------------------------------------------
(* The rewrites keep the body well formed                                  *)

\* A use of i is replaced by one of a value further up.
LEMMA ReplaceOpKeeps ==
  ASSUME WellFormed(main), NEW i \in DOMAIN main, main[i].kind # "return",
         NEW v \in 1..(i - 1), main[v].kind \notin NoResult \cup {"erased"}
  PROVE  /\ WellFormed(ReplaceOp(i, v))
         /\ DOMAIN ReplaceOp(i, v) = DOMAIN main
         /\ \A j \in DOMAIN main : \/ ReplaceOp(i, v)[j] = Erased
                                   \/ /\ ReplaceOp(i, v)[j].kind = main[j].kind
                                      /\ ReplaceOp(i, v)[j].type = main[j].type
<1> DEFINE at == [k \in DOMAIN main |-> IF k = i THEN v ELSE k]
           new == ReplaceOp(i, v)
<1>1. main \in Seq(Operations) /\ \A j \in DOMAIN main : OpOK(main, j)
  BY WellFormedIs
<1>2. Len(main) \in Nat /\ DOMAIN main = 1..Len(main) /\ \A j \in DOMAIN main : main[j] \in Operations
  BY <1>1
<1>3. new = [j \in DOMAIN main |-> IF j = i THEN Erased ELSE Renamed(main[j], at)]
  BY DEF ReplaceOp
<1>4. v \in Nat /\ v \in DOMAIN main /\ v # i /\ i \in Nat  BY <1>2
<1>5. ASSUME NEW j \in DOMAIN main, NEW k \in DOMAIN main[j].ins
      PROVE  /\ main[j].ins[k] \in DOMAIN main
             /\ at[main[j].ins[k]] = IF main[j].ins[k] = i THEN v ELSE main[j].ins[k]
             /\ at[main[j].ins[k]] \in Nat
             /\ at[main[j].ins[k]] \in 1..(j - 1)
             /\ at[main[j].ins[k]] # i
             /\ main[at[main[j].ins[k]]].kind \notin NoResult \cup {"erased"}
  <2>1. main[j].ins[k] \in 1..(j - 1) /\ main[main[j].ins[k]].kind \notin NoResult \cup {"erased"}
    BY <1>1 DEF OpOK
  <2>2. j \in Nat /\ j <= Len(main)  BY <1>2
  <2>3. main[j].ins[k] \in DOMAIN main  BY <2>1, <2>2, <1>2
  <2>4. at[main[j].ins[k]] = IF main[j].ins[k] = i THEN v ELSE main[j].ins[k]  BY <2>3
  <2> HIDE DEF at
  <2>5. QED  BY <2>1, <2>2, <2>3, <2>4, <1>4
<1> HIDE DEF at, new
<1>6. ASSUME NEW j \in DOMAIN main, j # i
      PROVE  /\ new[j] \in Operations
             /\ new[j].kind = main[j].kind /\ new[j].type = main[j].type
             /\ DOMAIN new[j].ins = DOMAIN main[j].ins /\ Len(new[j].ins) = Len(main[j].ins)
             /\ \A k \in DOMAIN main[j].ins : new[j].ins[k] = at[main[j].ins[k]]
  <2>1. new[j] = Renamed(main[j], at)  BY <1>3, <1>6
  <2>2. \A k \in DOMAIN main[j].ins : at[main[j].ins[k]] \in Nat  BY <1>5
  <2>3. main[j] \in Operations  BY <1>2
  <2>4. QED  BY <2>1, <2>2, <2>3, RenamedOperation
<1>7. new[i] = Erased  BY <1>3
<1>8. new \in Seq(Operations) /\ DOMAIN new = DOMAIN main /\ Len(new) = Len(main)
  <2>1. \A j \in DOMAIN main : new[j] \in Operations  BY <1>6, <1>7, ErasedIsOperation
  <2>2. DOMAIN new = 1..Len(main)  BY <1>2, <1>3
  <2>3. new = [j \in 1..Len(main) |-> new[j]]  BY <1>2, <1>3
  <2>4. QED  BY <1>2, <2>1, <2>2, <2>3
<1>9. ASSUME NEW j \in DOMAIN new
      PROVE  OpOK(new, j)
  <2>1. CASE j = i
    <3>0. Erased.ins = <<>> /\ Erased.kind = "erased"  BY DEF Erased
    <3>1. new[j].ins = <<>> /\ new[j].kind = "erased" /\ Len(new[j].ins) = 0 /\ DOMAIN new[j].ins = {}
      BY <2>1, <3>0, <1>7
    <3>2. i # Len(main)  BY <1>1 DEF OpOK
    <3>3. 0 \in Arity("erased")  BY DEF Arity
    <3>4. QED  BY <2>1, <3>1, <3>2, <3>3, <1>8 DEF OpOK
  <2>2. CASE j # i
    <3>1. j \in DOMAIN main  BY <1>8
    <3>2. ASSUME NEW k \in DOMAIN new[j].ins
          PROVE  new[j].ins[k] \in 1..(j - 1) /\ new[new[j].ins[k]].kind \notin NoResult \cup {"erased"}
      <4>1. k \in DOMAIN main[j].ins /\ new[j].ins[k] = at[main[j].ins[k]]  BY <2>2, <3>1, <1>6
      <4>2. /\ at[main[j].ins[k]] \in 1..(j - 1) /\ at[main[j].ins[k]] # i
            /\ main[at[main[j].ins[k]]].kind \notin NoResult \cup {"erased"}
        BY <4>1, <3>1, <1>5
      <4>3. at[main[j].ins[k]] \in DOMAIN main  BY <4>2, <3>1, <1>2
      <4>4. new[at[main[j].ins[k]]].kind = main[at[main[j].ins[k]]].kind  BY <4>2, <4>3, <1>6
      <4>5. QED  BY <4>1, <4>2, <4>4
    <3>3. OpOK(main, j)  BY <3>1, <1>1
    <3>4. QED  BY <2>2, <3>1, <3>2, <3>3, <1>6, <1>8 DEF OpOK
  <2>3. QED  BY <2>1, <2>2
<1>10. WellFormed(new)  BY <1>8, <1>9, WellFormedIs
<1>11. \A j \in DOMAIN main : new[j] = Erased \/ (new[j].kind = main[j].kind /\ new[j].type = main[j].type)
  BY <1>6, <1>7
<1>12. QED  BY <1>8, <1>10, <1>11 DEF new

\* One operation is replaced by another with a result, or by one that nothing
\* uses, and the rest stays.
LEMMA ChangeKeeps ==
  ASSUME WellFormed(main), NEW i \in DOMAIN main, main[i].kind # "return",
         NEW op \in Operations, op.kind # "return",
         \A k \in DOMAIN op.ins : /\ op.ins[k] \in 1..(i - 1)
                                  /\ main[op.ins[k]].kind \notin NoResult \cup {"erased"},
         Len(op.ins) \in Arity(op.kind),
         op.kind = "generic_call" => ~op.type.ranked,
         op.kind \in NoResult \cup {"erased"} => ~Used(i)
  PROVE  /\ WellFormed([main EXCEPT ![i] = op])
         /\ [main EXCEPT ![i] = op][i] = op
         /\ DOMAIN [main EXCEPT ![i] = op] = DOMAIN main
         /\ \A j \in DOMAIN main : j # i => [main EXCEPT ![i] = op][j] = main[j]
<1> DEFINE new == [main EXCEPT ![i] = op]
<1>1. main \in Seq(Operations) /\ \A j \in DOMAIN main : OpOK(main, j)
  BY WellFormedIs
<1>2. Len(main) \in Nat /\ DOMAIN main = 1..Len(main)  BY <1>1
<1>3. /\ new \in Seq(Operations) /\ DOMAIN new = DOMAIN main /\ Len(new) = Len(main)
      /\ new[i] = op /\ \A j \in DOMAIN main : j # i => new[j] = main[j]
  BY <1>1, <1>2
<1> HIDE DEF new
<1>4. ASSUME NEW j \in DOMAIN main
      PROVE  OpOK(new, j)
  <2>1. ASSUME NEW k \in DOMAIN new[j].ins
        PROVE  new[j].ins[k] \in 1..(j - 1) /\ new[new[j].ins[k]].kind \notin NoResult \cup {"erased"}
    <3>1. CASE j = i
      <4>1. k \in DOMAIN op.ins /\ new[j].ins[k] = op.ins[k]  BY <3>1, <1>3
      <4>2. op.ins[k] \in 1..(i - 1) /\ main[op.ins[k]].kind \notin NoResult \cup {"erased"}  BY <4>1
      <4>3. op.ins[k] \in DOMAIN main /\ op.ins[k] # i  BY <4>2, <1>2
      <4>4. QED  BY <4>1, <4>2, <4>3, <3>1, <1>3
    <3>2. CASE j # i
      <4>1. k \in DOMAIN main[j].ins /\ new[j].ins[k] = main[j].ins[k]  BY <3>2, <1>3
      <4>2. main[j].ins[k] \in 1..(j - 1) /\ main[main[j].ins[k]].kind \notin NoResult \cup {"erased"}
        BY <4>1, <1>1 DEF OpOK
      <4>3. main[j].ins[k] \in DOMAIN main  BY <4>2, <1>2
      <4>4. CASE main[j].ins[k] = i
        <5>1. op.kind \notin NoResult \cup {"erased"}  BY <4>1, <4>4 DEF Used
        <5>2. QED  BY <5>1, <4>1, <4>2, <4>4, <1>3
      <4>5. CASE main[j].ins[k] # i
        BY <4>1, <4>2, <4>3, <4>5, <1>3
      <4>6. QED  BY <4>4, <4>5
    <3>3. QED  BY <3>1, <3>2
  <2>2. CASE j = i
    <3>1. i # Len(main)  BY <1>1 DEF OpOK
    <3>2. QED  BY <2>1, <2>2, <3>1, <1>3 DEF OpOK
  <2>3. CASE j # i
    <3>1. OpOK(main, j)  BY <1>1
    <3>2. QED  BY <2>1, <2>3, <3>1, <1>3 DEF OpOK
  <2>4. QED  BY <2>2, <2>3
<1>5. WellFormed(new)  BY <1>3, <1>4, WellFormedIs
<1>6. QED  BY <1>3, <1>5 DEF new

-----------------------------------------------------------------------------
(* Every pass on the body of main keeps it well formed                     *)

\* What the arity of an operation gives.
LEMMA OneOperand ==
  ASSUME WellFormed(main), NEW i \in DOMAIN main,
         main[i].kind \in {"transpose", "cast", "reshape", "print"}
  PROVE  /\ 1 \in DOMAIN main[i].ins /\ DOMAIN main[i].ins = {1} /\ Len(main[i].ins) = 1
         /\ Lhs(i) \in 1..(i - 1) /\ Lhs(i) \in DOMAIN main
         /\ main[Lhs(i)].kind \notin NoResult \cup {"erased"}
         /\ Operand(i) = main[Lhs(i)]
<1>1. main \in Seq(Operations) /\ OpOK(main, i)  BY WellFormedIs
<1>0. Len(main) \in Nat /\ DOMAIN main = 1..Len(main) /\ main[i] \in Operations  BY <1>1
<1>2. main[i].ins \in Seq(Nat) /\ Len(main) \in Nat /\ DOMAIN main = 1..Len(main)  BY <1>0 DEF Operations
<1>3. Len(main[i].ins) = 1  BY <1>1 DEF OpOK, Arity
<1>4. DOMAIN main[i].ins = 1..1  BY <1>2, <1>3
<1>5. 1 \in DOMAIN main[i].ins /\ DOMAIN main[i].ins = {1}  BY <1>4
<1>6. Lhs(i) \in 1..(i - 1) /\ main[Lhs(i)].kind \notin NoResult \cup {"erased"}
  BY <1>1, <1>5 DEF OpOK, Lhs
<1>7. Lhs(i) \in DOMAIN main  BY <1>2, <1>6
<1>8. QED  BY <1>3, <1>5, <1>6, <1>7 DEF Lhs, Operand

LEMMA TwoOperands ==
  ASSUME WellFormed(main), NEW i \in DOMAIN main,
         main[i].kind \in {"add", "mul", "matmul"}
  PROVE  /\ 1 \in DOMAIN main[i].ins /\ 2 \in DOMAIN main[i].ins
         /\ Lhs(i) \in 1..(i - 1) /\ Lhs(i) \in DOMAIN main
         /\ main[Lhs(i)].kind \notin NoResult \cup {"erased"}
         /\ Rhs(i) \in 1..(i - 1) /\ Rhs(i) \in DOMAIN main
         /\ main[Rhs(i)].kind \notin NoResult \cup {"erased"}
<1>1. main \in Seq(Operations) /\ OpOK(main, i)  BY WellFormedIs
<1>0. Len(main) \in Nat /\ DOMAIN main = 1..Len(main) /\ main[i] \in Operations  BY <1>1
<1>2. main[i].ins \in Seq(Nat) /\ Len(main) \in Nat /\ DOMAIN main = 1..Len(main)  BY <1>0 DEF Operations
<1>3. Len(main[i].ins) = 2  BY <1>1 DEF OpOK, Arity
<1>4. DOMAIN main[i].ins = 1..2  BY <1>2, <1>3
<1>5. 1 \in DOMAIN main[i].ins /\ 2 \in DOMAIN main[i].ins  BY <1>4
<1>6. /\ Lhs(i) \in 1..(i - 1) /\ main[Lhs(i)].kind \notin NoResult \cup {"erased"}
      /\ Rhs(i) \in 1..(i - 1) /\ main[Rhs(i)].kind \notin NoResult \cup {"erased"}
  BY <1>1, <1>5 DEF OpOK, Lhs, Rhs
<1>7. Lhs(i) \in DOMAIN main /\ Rhs(i) \in DOMAIN main  BY <1>2, <1>6
<1>8. QED  BY <1>5, <1>6, <1>7

LEMMA ReverseOfShape ==
  ASSUME NEW dims \in Seq(Nat)
  PROVE  Reverse(dims) \in Seq(Nat)
<1>1. \A k \in 1..Len(dims) : Len(dims) - k + 1 \in 1..Len(dims)  OBVIOUS
<1>2. \A k \in 1..Len(dims) : dims[Len(dims) - k + 1] \in Nat  BY <1>1
<1>3. QED  BY <1>2 DEF Reverse

\* Shape inference gives types of known shape.
LEMMA InferredType ==
  ASSUME WellFormed(main), NEW i \in DOMAIN main,
         main[i].kind \in Inferable, DimsExist(main[i].kind, TypesOf(i))
  PROVE  LET type == InferShapes(main[i].kind, TypesOf(i))
         IN  /\ type \in [ranked : BOOLEAN, dims : Seq(Nat)]
             /\ (\A k \in DOMAIN main[i].ins : TypesOf(i)[k].ranked) => type.ranked
<1>1. main \in Seq(Operations) /\ DOMAIN main = 1..Len(main) /\ Len(main) \in Nat  BY WellFormedIs
<1>0. \A j \in DOMAIN main : main[j] \in Operations  BY <1>1
<1>2. \A j \in DOMAIN main : main[j].type \in [ranked : BOOLEAN, dims : Seq(Nat)]  BY <1>0 DEF Operations
<1>3. CASE main[i].kind \in {"add", "mul", "matmul"}
  <2>1. /\ 1 \in DOMAIN main[i].ins /\ 2 \in DOMAIN main[i].ins
        /\ main[i].ins[1] \in DOMAIN main /\ main[i].ins[2] \in DOMAIN main
    BY <1>3, TwoOperands DEF Lhs, Rhs
  <2>2. /\ TypesOf(i)[1] = main[main[i].ins[1]].type /\ TypesOf(i)[2] = main[main[i].ins[2]].type
    BY <2>1 DEF TypesOf
  <2>3. /\ TypesOf(i)[1] \in [ranked : BOOLEAN, dims : Seq(Nat)]
        /\ TypesOf(i)[2] \in [ranked : BOOLEAN, dims : Seq(Nat)]
    BY <2>1, <2>2, <1>2
  <2>4. CASE main[i].kind \in {"add", "mul"}
    BY <2>1, <2>3, <2>4 DEF InferShapes
  <2>5. CASE main[i].kind = "matmul"
    <3>1. Len(TypesOf(i)[1].dims) >= 1 /\ Len(TypesOf(i)[2].dims) >= 2
      BY <2>5 DEF DimsExist, Rank
    <3>2. TypesOf(i)[1].dims[1] \in Nat /\ TypesOf(i)[2].dims[2] \in Nat  BY <2>3, <3>1
    <3>3. <<TypesOf(i)[1].dims[1], TypesOf(i)[2].dims[2]>> \in Seq(Nat)  BY <3>2
    <3>4. InferShapes(main[i].kind, TypesOf(i)) = Tensor(<<TypesOf(i)[1].dims[1], TypesOf(i)[2].dims[2]>>)
      BY <2>5 DEF InferShapes
    <3>5. QED  BY <3>3, <3>4 DEF Tensor
  <2>6. QED  BY <1>3, <2>4, <2>5
<1>4. CASE main[i].kind \in {"transpose", "cast"}
  <2>1. 1 \in DOMAIN main[i].ins /\ main[i].ins[1] \in DOMAIN main  BY <1>4, OneOperand DEF Lhs
  <2>2. TypesOf(i)[1] = main[main[i].ins[1]].type  BY <2>1 DEF TypesOf
  <2>3. TypesOf(i)[1] \in [ranked : BOOLEAN, dims : Seq(Nat)]  BY <2>1, <2>2, <1>2
  <2>4. CASE main[i].kind = "cast"
    BY <2>1, <2>3, <2>4 DEF InferShapes
  <2>5. CASE main[i].kind = "transpose"
    <3>1. Reverse(TypesOf(i)[1].dims) \in Seq(Nat)  BY <2>3, ReverseOfShape
    <3>2. InferShapes(main[i].kind, TypesOf(i)) = Tensor(Reverse(TypesOf(i)[1].dims))
      BY <2>5 DEF InferShapes
    <3>3. QED  BY <3>1, <3>2 DEF Tensor
  <2>6. QED  BY <1>4, <2>4, <2>5
<1>5. QED  BY <1>3, <1>4 DEF Inferable

LEMMA Offsets ==
  ASSUME NEW n \in Nat, NEW g \in Nat, NEW i \in 1..n
  PROVE  /\ \A k \in 1..(g + 1) : \A x \in 1..(n + g) :
              x = i - 1 + k => ~(x < i) /\ ~(x > i + g) /\ x - i + 1 = k
         /\ \A x \in 1..(n + g) :
              x >= i /\ x <= i + g => x - i + 1 \in 1..(g + 1) /\ x = i - 1 + (x - i + 1)
OBVIOUS

\* Where things are once the operation at i, of n, gave way to g + 1 others.
AtPlaces(body, n, g, i, ops, result, at, new) ==
  /\ DOMAIN new = 1..(n + g) /\ new = [j \in 1..(n + g) |-> new[j]]
  /\ \A j \in 1..(i - 1) : j \in 1..n /\ j \in 1..(n + g) /\ new[j] = body[j] /\ at[j] = j
  /\ \A k \in 1..(g + 1) : i - 1 + k \in 1..(n + g) /\ new[i - 1 + k] = ops[k]
  /\ at[i] = result
  /\ \A j \in 1..n : j > i =>
       j + g \in 1..(n + g) /\ new[j + g] = Renamed(body[j], at) /\ at[j] = j + g
  /\ \A x \in 1..(n + g) :
       \/ x \in 1..(i - 1)
       \/ \E k \in 1..(g + 1) : x = i - 1 + k
       \/ \E j \in 1..n : j > i /\ x = j + g

Shift(n, g, i, result) == [j \in 1..n |-> CASE j < i -> j [] j = i -> result [] OTHER -> j + g]
Spliced(body, n, g, i, ops, at) ==
  [j \in 1..(n + g) |-> CASE j < i -> body[j]
                          [] j > i + g -> Renamed(body[j - g], at)
                          [] OTHER -> ops[j - i + 1]]

LEMMA PlacesAfter ==
  ASSUME NEW n \in Nat, NEW g \in Nat, NEW i \in 1..n, NEW body, NEW ops, NEW result
  PROVE  AtPlaces(body, n, g, i, ops, result, Shift(n, g, i, result),
                  Spliced(body, n, g, i, ops, Shift(n, g, i, result)))
<1> DEFINE at == Shift(n, g, i, result)
           new == Spliced(body, n, g, i, ops, at)
<1>10. at = [j \in 1..n |-> CASE j < i -> j [] j = i -> result [] OTHER -> j + g]
  BY DEF Shift
<1>9. new = [j \in 1..(n + g) |-> CASE j < i -> body[j]
                                    [] j > i + g -> Renamed(body[j - g], at)
                                    [] OTHER -> ops[j - i + 1]]
  BY DEF Spliced
<1> HIDE DEF at, new
<1>1. DOMAIN new = 1..(n + g) /\ new = [j \in 1..(n + g) |-> new[j]]  BY <1>9
<1>2. ASSUME NEW j \in 1..(i - 1)
      PROVE  j \in 1..n /\ j \in 1..(n + g) /\ new[j] = body[j] /\ at[j] = j
  <2>1. j \in Nat /\ j < i /\ j \in 1..n /\ j \in 1..(n + g)  OBVIOUS
  <2>2. new[j] = body[j]  BY <1>9, <2>1
  <2>3. at[j] = j  BY <1>10, <2>1
  <2>4. QED  BY <2>1, <2>2, <2>3
<1>3. ASSUME NEW k \in 1..(g + 1)
      PROVE  i - 1 + k \in 1..(n + g) /\ new[i - 1 + k] = ops[k]
  <2>1. PICK x \in 1..(n + g) : x = i - 1 + k  OBVIOUS
  <2>2. ~(x < i) /\ ~(x > i + g) /\ x - i + 1 = k  BY <2>1, Offsets
  <2>3. new[x] = ops[x - i + 1]  BY <1>9, <2>2
  <2>4. QED  BY <2>1, <2>2, <2>3
<1>4. at[i] = result
  BY <1>10
<1>5. ASSUME NEW j \in 1..n, j > i
      PROVE  j + g \in 1..(n + g) /\ new[j + g] = Renamed(body[j], at) /\ at[j] = j + g
  <2>1. PICK x \in 1..(n + g) : x = j + g  OBVIOUS
  <2>2. ~(x < i) /\ x > i + g /\ x - g = j  BY <2>1, <1>5
  <2>3. new[x] = Renamed(body[x - g], at)  BY <1>9, <2>2
  <2>4. at[j] = j + g  BY <1>10, <1>5
  <2>5. QED  BY <2>1, <2>2, <2>3, <2>4
<1>6. ASSUME NEW x \in 1..(n + g)
      PROVE  \/ x \in 1..(i - 1)
             \/ \E k \in 1..(g + 1) : x = i - 1 + k
             \/ \E j \in 1..n : j > i /\ x = j + g
  <2>1. CASE x < i
    BY <2>1
  <2>2. CASE x >= i /\ x <= i + g
    <3>1. x - i + 1 \in 1..(g + 1) /\ x = i - 1 + (x - i + 1)  BY <2>2, Offsets
    <3>2. QED  BY <3>1
  <2>3. CASE x > i + g
    <3>1. x - g \in 1..n /\ x - g > i /\ x = (x - g) + g  BY <2>3
    <3>2. QED  BY <3>1
  <2>4. QED  BY <2>1, <2>2, <2>3
<1>7. AtPlaces(body, n, g, i, ops, result, at, new)
  BY <1>1, <1>2, <1>3, <1>4, <1>5, <1>6 DEF AtPlaces
<1>8. QED  BY <1>7 DEF at, new

\* The operation at i, of main, gives way to ops: their operands are values in
\* front of i or results of ops themselves.
IsValue(i, ops, x) == /\ x < i => main[x].kind \notin NoResult \cup {"erased"}
                      /\ ~(x < i) => ops[x - i + 1].kind \notin NoResult \cup {"erased"}
Fits(i, ops, result) ==
  /\ IsValue(i, ops, result)
  /\ \A k \in DOMAIN ops :
       /\ \A x \in DOMAIN ops[k].ins : ops[k].ins[x] \in 1..(i + k - 2) /\ IsValue(i, ops, ops[k].ins[x])
       /\ Len(ops[k].ins) \in Arity(ops[k].kind)
       /\ ops[k].kind = "generic_call" => ~ops[k].type.ranked
       /\ ops[k].kind # "return"

LEMMA SplicePlaces ==
  ASSUME NEW n \in Nat, n = Len(main), DOMAIN main = 1..n, NEW g \in Nat, NEW i \in 1..n,
         NEW ops, Len(ops) = g + 1, NEW result
  PROVE  \E at : AtPlaces(main, n, g, i, ops, result, at, Splice(i, ops, result))
<1> DEFINE at == Shift(n, g, i, result)
<1>1. Len(ops) - 1 = g  OBVIOUS
<1>2. Splice(i, ops, result) = Spliced(main, n, g, i, ops, at)
  BY <1>1 DEF Splice, Spliced, Shift
<1>3. AtPlaces(main, n, g, i, ops, result, at, Spliced(main, n, g, i, ops, at))
  BY PlacesAfter
<1> HIDE DEF at
<1>4. QED  BY <1>2, <1>3

LEMMA Below ==
  ASSUME NEW i \in Nat, NEW g \in Nat
  PROVE  /\ \A k \in 1..(g + 1) : \A y \in 1..(i + k - 2) : y \in 1..(i + g)
         /\ \A j \in Nat : \A l \in 1..(j - 1) : \A y \in 1..(l + g) : y \in 1..(j + g - 1)
OBVIOUS

LEMMA IsASequence ==
  ASSUME NEW m \in Nat, NEW S, NEW f, f = [j \in 1..m |-> f[j]], \A j \in 1..m : f[j] \in S
  PROVE  f \in Seq(S) /\ Len(f) = m
<1>1. f \in [1..m -> S]  OBVIOUS
<1>2. QED  BY <1>1

LEMMA InFront ==
  ASSUME NEW i \in Nat, NEW m \in Nat, NEW k \in 1..m, NEW l \in 1..(k - 1), NEW y \in 1..(i - 1 + l)
  PROVE  y \in 1..(i + k - 2)
OBVIOUS

LEMMA Behind ==
  ASSUME NEW i \in Nat, NEW k \in Nat, NEW y, y = i - 1 + k
  PROVE  y - 1 = i + k - 2
OBVIOUS

LEMMA SpliceKeeps ==
  ASSUME WellFormed(main), NEW i \in DOMAIN main, main[i].kind # "return",
         NEW g \in Nat, NEW ops \in Seq(Operations), Len(ops) = g + 1,
         NEW result \in 1..(i + g), Fits(i, ops, result)
  PROVE  WellFormed(Splice(i, ops, result))
<1>1. /\ main \in Seq(Operations) /\ Len(main) \in Nat /\ DOMAIN main = 1..Len(main)
      /\ \A j \in DOMAIN main : OpOK(main, j)
      /\ \A j \in DOMAIN main : main[j] \in Operations
  BY WellFormedIs
<1>2. DOMAIN ops = 1..(g + 1) /\ \A k \in 1..(g + 1) : ops[k] \in Operations
  OBVIOUS
<1> DEFINE n == Len(main)
           new == Splice(i, ops, result)
<1>3. n = Len(main) /\ n \in Nat /\ DOMAIN main = 1..n /\ i \in 1..n  BY <1>1
<1> HIDE DEF n, new
<1>4. PICK at : AtPlaces(main, n, g, i, ops, result, at, new)
  BY <1>3, SplicePlaces DEF new
<1>5. OpOK(main, i)  BY <1>1
<1>6. i < n
  <2>1. i # n  BY <1>3, <1>5 DEF OpOK
  <2>2. QED  BY <2>1, <1>3
<1>7. ASSUME NEW j \in 1..n
      PROVE  main[j].kind = "return" <=> j = n
  <2>1. OpOK(main, j)  BY <1>1, <1>3
  <2>2. QED  BY <2>1, <1>3 DEF OpOK
\* operands, and where they are found
<1>8. ASSUME NEW j \in 1..n, NEW x \in DOMAIN main[j].ins
      PROVE  /\ main[j].ins[x] \in 1..(j - 1) /\ main[j].ins[x] \in 1..n
             /\ main[main[j].ins[x]].kind \notin NoResult \cup {"erased"}
  <2>1. OpOK(main, j)  BY <1>1, <1>3
  <2>2. main[j].ins[x] \in 1..(j - 1) /\ main[main[j].ins[x]].kind \notin NoResult \cup {"erased"}
    BY <2>1 DEF OpOK
  <2>3. QED  BY <2>2, <1>3
<1>9. ASSUME NEW y \in 1..(i + g), IsValue(i, ops, y)
      PROVE  y \in 1..(n + g) /\ new[y].kind \notin NoResult \cup {"erased"}
  <2>1. y \in 1..(n + g)  BY <1>3, <1>6
  <2>2. CASE y < i
    <3>1. y \in 1..(i - 1)  BY <2>2, <1>3
    <3>2. new[y] = main[y]  BY <3>1, <1>4 DEF AtPlaces
    <3>3. QED  BY <2>1, <2>2, <3>2, <1>9 DEF IsValue
  <2>3. CASE ~(y < i)
    <3>1. y - i + 1 \in 1..(g + 1) /\ i - 1 + (y - i + 1) = y
      <4>1. y >= i /\ y <= i + g  BY <2>3, <1>3
      <4>2. QED  BY <4>1, <2>1, <1>3, Offsets
    <3>2. new[i - 1 + (y - i + 1)] = ops[y - i + 1]  BY <3>1, <1>4 DEF AtPlaces
    <3>3. new[y] = ops[y - i + 1]  BY <3>1, <3>2
    <3>4. QED  BY <2>1, <2>3, <3>3, <1>9 DEF IsValue
  <2>4. QED  BY <2>2, <2>3
<1>10. ASSUME NEW j \in 1..n
       PROVE  at[j] \in Nat /\ at[j] \in 1..(j + g)
  <2>1. CASE j < i
    <3>1. j \in 1..(i - 1)  BY <2>1, <1>3
    <3>2. at[j] = j  BY <3>1, <1>4 DEF AtPlaces
    <3>3. QED  BY <3>2, <1>3
  <2>2. CASE j = i
    <3>1. at[j] = result  BY <2>2, <1>4 DEF AtPlaces
    <3>2. QED  BY <3>1, <2>2, <1>3
  <2>3. CASE j > i
    <3>1. at[j] = j + g  BY <2>3, <1>4 DEF AtPlaces
    <3>2. QED  BY <3>1, <1>3
  <2>4. QED  BY <2>1, <2>2, <2>3, <1>3
<1>11. ASSUME NEW j \in 1..n, j > i
       PROVE  /\ j + g \in 1..(n + g) /\ new[j + g] \in Operations
              /\ new[j + g].kind = main[j].kind /\ new[j + g].type = main[j].type
              /\ DOMAIN new[j + g].ins = DOMAIN main[j].ins
              /\ Len(new[j + g].ins) = Len(main[j].ins)
              /\ \A x \in DOMAIN main[j].ins : new[j + g].ins[x] = at[main[j].ins[x]]
  <2>1. j + g \in 1..(n + g) /\ new[j + g] = Renamed(main[j], at)  BY <1>4, <1>11 DEF AtPlaces
  <2>2. \A x \in DOMAIN main[j].ins : at[main[j].ins[x]] \in Nat  BY <1>8, <1>10
  <2>3. main[j] \in Operations  BY <1>1, <1>3
  <2>4. QED  BY <2>1, <2>2, <2>3, RenamedOperation
<1>12. ASSUME NEW j \in 1..n, main[j].kind \notin NoResult \cup {"erased"}
       PROVE  new[at[j]].kind \notin NoResult \cup {"erased"}
  <2>1. CASE j < i
    <3>1. j \in 1..(i - 1)  BY <2>1, <1>3
    <3>2. at[j] = j /\ new[j] = main[j]  BY <3>1, <1>4 DEF AtPlaces
    <3>3. QED  BY <3>2, <1>12
  <2>2. CASE j = i
    <3>1. at[j] = result  BY <2>2, <1>4 DEF AtPlaces
    <3>2. IsValue(i, ops, result)  BY DEF Fits
    <3>3. QED  BY <3>1, <3>2, <1>9
  <2>3. CASE j > i
    <3>1. at[j] = j + g  BY <2>3, <1>4 DEF AtPlaces
    <3>2. QED  BY <3>1, <2>3, <1>11, <1>12
  <2>4. QED  BY <2>1, <2>2, <2>3, <1>3
\* the three parts are well formed
<1>13. n + g \in Nat /\ DOMAIN new = 1..(n + g)
  BY <1>3, <1>4 DEF AtPlaces
<1>14. ASSUME NEW j \in 1..(i - 1)
       PROVE  new[j] \in Operations /\ (Len(new) = n + g => OpOK(new, j))
  <2>1. j \in 1..n /\ new[j] = main[j] /\ j # n /\ j # n + g
    <3>1. j \in 1..n /\ new[j] = main[j]  BY <1>4 DEF AtPlaces
    <3>2. j # n /\ j # n + g  BY <1>3, <1>6
    <3>3. QED  BY <3>1, <3>2
  <2>2. OpOK(main, j) /\ main[j] \in Operations  BY <2>1, <1>1, <1>3
  <2>3. ASSUME NEW x \in DOMAIN main[j].ins
        PROVE  new[main[j].ins[x]] = main[main[j].ins[x]]
    <3>1. main[j].ins[x] \in 1..(i - 1)  BY <2>1, <1>3, <1>8
    <3>2. QED  BY <3>1, <1>4 DEF AtPlaces
  <2>4. main[j].kind # "return"  BY <2>1, <1>7
  <2>5. \A x \in DOMAIN new[j].ins : /\ new[j].ins[x] \in 1..(j - 1)
                                     /\ new[new[j].ins[x]].kind \notin NoResult \cup {"erased"}
    BY <2>1, <2>3, <1>8
  <2>6. QED  BY <2>1, <2>2, <2>4, <2>5 DEF OpOK
<1>15. ASSUME NEW k \in 1..(g + 1)
       PROVE  new[i - 1 + k] \in Operations /\ (Len(new) = n + g => OpOK(new, i - 1 + k))
  <2>1. new[i - 1 + k] = ops[k]  BY <1>4 DEF AtPlaces
  <2>2. i - 1 + k # n + g  BY <1>3, <1>6
  <2>3. /\ \A x \in DOMAIN ops[k].ins : ops[k].ins[x] \in 1..(i + k - 2) /\ IsValue(i, ops, ops[k].ins[x])
        /\ Len(ops[k].ins) \in Arity(ops[k].kind)
        /\ ops[k].kind = "generic_call" => ~ops[k].type.ranked
        /\ ops[k].kind # "return"
    BY <1>2 DEF Fits
  <2>4. PICK y \in Nat : y = i - 1 + k
    <3>1. i - 1 + k \in Nat  BY <1>3
    <3>2. QED  BY <3>1
  <2>5. ASSUME NEW x \in DOMAIN ops[k].ins
        PROVE  ops[k].ins[x] \in 1..(y - 1) /\ new[ops[k].ins[x]].kind \notin NoResult \cup {"erased"}
    <3>1. ops[k].ins[x] \in 1..(i + k - 2) /\ IsValue(i, ops, ops[k].ins[x])  BY <2>3
    <3>2. ops[k].ins[x] \in 1..(i + g)  BY <3>1, <1>3, Below
    <3>3. ops[k].ins[x] \in 1..(y - 1)
      <4>1. y - 1 = i + k - 2
        <5>1. i \in Nat /\ k \in Nat  BY <1>3
        <5>2. QED  BY <5>1, <2>4, Behind
      <4>2. QED  BY <3>1, <4>1
    <3>4. new[ops[k].ins[x]].kind \notin NoResult \cup {"erased"}  BY <3>1, <3>2, <1>9
    <3>5. QED  BY <3>3, <3>4
  <2>6. ops[k] \in Operations  BY <1>2
  <2>7. new[y] = ops[k] /\ y # n + g  BY <2>1, <2>2, <2>4
  <2>8. Len(new) = n + g => OpOK(new, y)  BY <2>3, <2>5, <2>7 DEF OpOK
  <2>9. QED  BY <2>4, <2>6, <2>7, <2>8
<1>16. ASSUME NEW j \in 1..n, j > i
       PROVE  new[j + g] \in Operations /\ (Len(new) = n + g => OpOK(new, j + g))
  <2>1. OpOK(main, j) /\ (j = Len(main) <=> j + g = n + g)
    <3>1. j = n <=> j + g = n + g  BY <1>3
    <3>2. QED  BY <3>1, <1>1, <1>3 DEF n
  <2>2. ASSUME NEW x \in DOMAIN main[j].ins
        PROVE  /\ at[main[j].ins[x]] \in 1..(j + g - 1)
               /\ new[at[main[j].ins[x]]].kind \notin NoResult \cup {"erased"}
    <3>1. /\ main[j].ins[x] \in 1..(j - 1) /\ main[j].ins[x] \in 1..n
          /\ main[main[j].ins[x]].kind \notin NoResult \cup {"erased"}
      BY <1>8
    <3>2. at[main[j].ins[x]] \in 1..(main[j].ins[x] + g)  BY <3>1, <1>10
    <3>3. at[main[j].ins[x]] \in 1..(j + g - 1)
      <4>1. j \in Nat /\ i \in Nat  BY <1>3
      <4>2. QED  BY <4>1, <3>1, <3>2, Below
    <3>4. QED  BY <3>1, <3>3, <1>12
  <2>3. PICK y : y = j + g  OBVIOUS
  <2>4. /\ new[y] \in Operations /\ new[y].kind = main[j].kind /\ new[y].type = main[j].type
        /\ DOMAIN new[y].ins = DOMAIN main[j].ins /\ Len(new[y].ins) = Len(main[j].ins)
        /\ \A x \in DOMAIN main[j].ins : new[y].ins[x] = at[main[j].ins[x]]
    BY <2>3, <1>11, <1>16
  <2>5. ASSUME NEW x \in DOMAIN new[y].ins
        PROVE  new[y].ins[x] \in 1..(y - 1) /\ new[new[y].ins[x]].kind \notin NoResult \cup {"erased"}
    <3>1. x \in DOMAIN main[j].ins /\ new[y].ins[x] = at[main[j].ins[x]]  BY <2>4
    <3>2. at[main[j].ins[x]] \in 1..(y - 1)  BY <3>1, <2>2, <2>3
    <3>3. QED  BY <3>1, <3>2, <2>2
  <2>6. /\ Len(main[j].ins) \in Arity(main[j].kind)
        /\ main[j].kind = "generic_call" => ~main[j].type.ranked
        /\ main[j].kind = "return" <=> y = n + g
    BY <2>1, <2>3 DEF OpOK
  <2>7. Len(new) = n + g => OpOK(new, y)  BY <2>4, <2>5, <2>6 DEF OpOK
  <2>8. QED  BY <2>3, <2>4, <2>7
<1>17. ASSUME NEW x \in DOMAIN new
       PROVE  new[x] \in Operations /\ (Len(new) = n + g => OpOK(new, x))
  <2>1. \/ x \in 1..(i - 1)
        \/ \E k \in 1..(g + 1) : x = i - 1 + k
        \/ \E j \in 1..n : j > i /\ x = j + g
    BY <1>4, <1>13 DEF AtPlaces
  <2>2. QED  BY <2>1, <1>14, <1>15, <1>16
<1>18. new \in Seq(Operations) /\ Len(new) = n + g
  <2>1. new = [j \in 1..(n + g) |-> new[j]]  BY <1>4 DEF AtPlaces
  <2>2. \A j \in 1..(n + g) : new[j] \in Operations  BY <1>13, <1>17
  <2>3. n + g \in Nat  BY <1>13
  <2>4. QED  BY <2>1, <2>2, <2>3, IsASequence
<1>19. WellFormed(new)  BY <1>17, <1>18, WellFormedIs
<1>20. QED  BY <1>19 DEF new

\* What a call puts in: a cast or nothing for a parameter, and the operations
\* of the body with their operands renamed.
LEMMA PlacesAre ==
  ASSUME NEW i, NEW k \in DOMAIN Called(i)
  PROVE  /\ k \in DOMAIN main[i].ins /\ ~KnownArg(i, k) => PlaceOf(i)[k] = main[i].ins[k]
         /\ ~(k \in DOMAIN main[i].ins /\ ~KnownArg(i, k)) => PlaceOf(i)[k] = i - 1 + k
BY DEF PlaceOf

LEMMA InlinedAre ==
  ASSUME NEW i, NEW m, m = Len(Called(i)) - 1
  PROVE  /\ Inlined(i) = [k \in 1..m |-> Inlined(i)[k]]
         /\ \A k \in 1..m :
              /\ k \notin DOMAIN main[i].ins => Inlined(i)[k] = Renamed(Called(i)[k], PlaceOf(i))
              /\ KnownArg(i, k) => Inlined(i)[k] = CastOf(main[i].ins[k])
              /\ k \in DOMAIN main[i].ins /\ ~KnownArg(i, k) => Inlined(i)[k] = Erased
<1>1. Inlined(i) = [k \in 1..m |-> CASE k \notin DOMAIN main[i].ins -> Renamed(Called(i)[k], PlaceOf(i))
                                     [] KnownArg(i, k) -> CastOf(main[i].ins[k])
                                     [] OTHER -> Erased]
  BY DEF Inlined
<1>2. Inlined(i) = [k \in 1..m |-> Inlined(i)[k]]
  BY <1>1
<1>3. ASSUME NEW k \in 1..m
      PROVE  /\ k \notin DOMAIN main[i].ins => Inlined(i)[k] = Renamed(Called(i)[k], PlaceOf(i))
             /\ KnownArg(i, k) => Inlined(i)[k] = CastOf(main[i].ins[k])
             /\ k \in DOMAIN main[i].ins /\ ~KnownArg(i, k) => Inlined(i)[k] = Erased
  BY <1>1 DEF KnownArg
<1>4. QED  BY <1>2, <1>3

LEMMA InlinedFits ==
  ASSUME WellFormed(main), NEW i \in DOMAIN main,
         WellFormed(Called(i)), NEW m \in Nat, Len(Called(i)) = m + 1, m >= 1,
         NEW r \in 1..m, Called(i)[r].kind \notin NoResult \cup {"erased"}
  PROVE  /\ Inlined(i) \in Seq(Operations) /\ Len(Inlined(i)) = m
         /\ PlaceOf(i)[r] \in 1..(i - 1 + m) /\ Fits(i, Inlined(i), PlaceOf(i)[r])
<1> DEFINE args == main[i].ins
           body == Called(i)
           at == PlaceOf(i)
           ops == Inlined(i)
<1>1. /\ main \in Seq(Operations) /\ Len(main) \in Nat /\ DOMAIN main = 1..Len(main) /\ OpOK(main, i)
      /\ i \in Nat /\ i >= 1
  BY WellFormedIs
<1>2. ASSUME NEW k \in DOMAIN args
      PROVE  args[k] \in 1..(i - 1) /\ args[k] \in Nat /\ main[args[k]].kind \notin NoResult \cup {"erased"}
  <2>1. args[k] \in 1..(i - 1) /\ main[args[k]].kind \notin NoResult \cup {"erased"}  BY <1>1 DEF OpOK
  <2>2. QED  BY <2>1, <1>1
<1>3. /\ body \in Seq(Operations) /\ DOMAIN body = 1..(m + 1) /\ Len(body) = m + 1
      /\ \A j \in DOMAIN body : OpOK(body, j)
      /\ \A j \in DOMAIN body : body[j] \in Operations
  <2>1. body \in Seq(Operations) /\ \A j \in DOMAIN body : OpOK(body, j)  BY WellFormedIs
  <2> HIDE DEF body
  <2>2. Len(body) = m + 1  BY DEF body
  <2>3. QED  BY <2>1, <2>2
<1>4. ASSUME NEW k \in 1..(m + 1)
      PROVE  /\ k \in DOMAIN args /\ ~KnownArg(i, k) => at[k] = args[k]
             /\ ~(k \in DOMAIN args /\ ~KnownArg(i, k)) => at[k] = i - 1 + k
  BY <1>3, PlacesAre
<1>5. /\ ops = [k \in 1..m |-> ops[k]]
      /\ \A k \in 1..m : /\ k \notin DOMAIN args => ops[k] = Renamed(body[k], at)
                         /\ KnownArg(i, k) => ops[k] = CastOf(args[k])
                         /\ k \in DOMAIN args /\ ~KnownArg(i, k) => ops[k] = Erased
  <2>1. m = Len(Called(i)) - 1  OBVIOUS
  <2>2. QED  BY <2>1, InlinedAre
<1>6. \A k : KnownArg(i, k) => k \in DOMAIN args
  BY DEF KnownArg
<1> HIDE DEF args, body, at, ops
<1>7. ASSUME NEW k \in 1..m
      PROVE  /\ body[k] \in Operations /\ OpOK(body, k) /\ body[k].kind # "return"
             /\ \A x \in DOMAIN body[k].ins :
                  /\ body[k].ins[x] \in 1..(k - 1) /\ body[k].ins[x] \in 1..m
                  /\ body[body[k].ins[x]].kind \notin NoResult \cup {"erased"}
  <2>1. k \in DOMAIN body /\ k # Len(body)  BY <1>3
  <2>2. body[k] \in Operations /\ OpOK(body, k)  BY <2>1, <1>3
  <2>3. body[k].kind # "return"  BY <2>1, <2>2 DEF OpOK
  <2>4. \A x \in DOMAIN body[k].ins : /\ body[k].ins[x] \in 1..(k - 1)
                                      /\ body[body[k].ins[x]].kind \notin NoResult \cup {"erased"}
    BY <2>2 DEF OpOK
  <2>5. QED  BY <2>2, <2>3, <2>4
<1>8. ASSUME NEW k \in 1..m
      PROVE  at[k] \in Nat /\ at[k] \in 1..(i - 1 + k)
  <2>1. CASE k \in DOMAIN args /\ ~KnownArg(i, k)
    <3>1. at[k] = args[k]  BY <2>1, <1>4
    <3>2. args[k] \in 1..(i - 1)  BY <2>1, <1>2
    <3>3. QED  BY <3>1, <3>2, <1>1
  <2>2. CASE ~(k \in DOMAIN args /\ ~KnownArg(i, k))
    <3>1. at[k] = i - 1 + k  BY <2>2, <1>4
    <3>2. QED  BY <3>1, <1>1
  <2>3. QED  BY <2>1, <2>2
\* what stands at the place of an operation of the body
<1>9. ASSUME NEW k \in 1..m
      PROVE  /\ ops[k] \in Operations
             /\ k \notin DOMAIN args =>
                  /\ ops[k].kind = body[k].kind /\ ops[k].type = body[k].type
                  /\ DOMAIN ops[k].ins = DOMAIN body[k].ins /\ Len(ops[k].ins) = Len(body[k].ins)
                  /\ \A x \in DOMAIN body[k].ins : ops[k].ins[x] = at[body[k].ins[x]]
             /\ KnownArg(i, k) => ops[k].kind = "cast" /\ ops[k].ins = <<args[k]>>
             /\ k \in DOMAIN args /\ ~KnownArg(i, k) => ops[k] = Erased
  <2>1. CASE k \notin DOMAIN args
    <3>1. ops[k] = Renamed(body[k], at)  BY <2>1, <1>5
    <3>2. \A x \in DOMAIN body[k].ins : at[body[k].ins[x]] \in Nat  BY <1>7, <1>8
    <3>3. body[k] \in Operations  BY <1>7
    <3>4. ~KnownArg(i, k)  BY <2>1, <1>6
    <3>5. QED  BY <2>1, <3>1, <3>2, <3>3, <3>4, RenamedOperation
  <2>2. CASE KnownArg(i, k)
    <3>1. ops[k] = CastOf(args[k]) /\ k \in DOMAIN args  BY <2>2, <1>5, <1>6
    <3>2. args[k] \in Nat  BY <3>1, <1>2
    <3>3. QED  BY <2>2, <3>1, <3>2, CastIsOperation
  <2>3. CASE k \in DOMAIN args /\ ~KnownArg(i, k)
    <3>1. ops[k] = Erased  BY <2>3, <1>5
    <3>2. QED  BY <2>3, <3>1, ErasedIsOperation
  <2>4. QED  BY <2>1, <2>2, <2>3
\* a value of the body is a value where it went
<1>10. ASSUME NEW k \in 1..m, body[k].kind \notin NoResult \cup {"erased"}
       PROVE  IsValue(i, ops, at[k])
  <2>1. CASE k \in DOMAIN args /\ ~KnownArg(i, k)
    <3>1. at[k] = args[k]  BY <2>1, <1>4
    <3>2. args[k] \in 1..(i - 1) /\ main[args[k]].kind \notin NoResult \cup {"erased"}  BY <2>1, <1>2
    <3>3. args[k] < i  BY <3>2, <1>1
    <3>4. QED  BY <3>1, <3>2, <3>3 DEF IsValue
  <2>2. CASE ~(k \in DOMAIN args /\ ~KnownArg(i, k))
    <3>1. at[k] = i - 1 + k  BY <2>2, <1>4
    <3>2. ops[k].kind \notin NoResult \cup {"erased"}
      <4>1. CASE KnownArg(i, k)
        BY <4>1, <1>9 DEF NoResult
      <4>2. CASE k \notin DOMAIN args
        BY <4>2, <1>9, <1>10
      <4>3. QED  BY <4>1, <4>2, <2>2
    <3>3. ~(at[k] < i) /\ at[k] - i + 1 = k
      <4>1. k \in Nat /\ k >= 1  OBVIOUS
      <4>2. QED  BY <4>1, <3>1, <1>1
    <3>4. QED  BY <3>2, <3>3 DEF IsValue
  <2>3. QED  BY <2>1, <2>2
<1>11. ops \in Seq(Operations) /\ Len(ops) = m /\ DOMAIN ops = 1..m
  <2>1. ops = [k \in 1..m |-> ops[k]]  BY <1>5
  <2>2. \A k \in 1..m : ops[k] \in Operations  BY <1>9
  <2>3. ops \in Seq(Operations) /\ Len(ops) = m  BY <2>1, <2>2, IsASequence
  <2>4. QED  BY <2>3
<1>12. body[r].kind \notin NoResult \cup {"erased"}  BY DEF body
<1>13. at[r] \in 1..(i - 1 + m) /\ IsValue(i, ops, at[r])
  <2>1. at[r] \in 1..(i - 1 + r)  BY <1>8
  <2>2. at[r] \in 1..(i - 1 + m)  BY <2>1, <1>1
  <2>3. QED  BY <2>2, <1>10, <1>12
<1>14. ASSUME NEW k \in 1..m
       PROVE  /\ \A x \in DOMAIN ops[k].ins : ops[k].ins[x] \in 1..(i + k - 2) /\ IsValue(i, ops, ops[k].ins[x])
              /\ Len(ops[k].ins) \in Arity(ops[k].kind)
              /\ ops[k].kind = "generic_call" => ~ops[k].type.ranked
              /\ ops[k].kind # "return"
  <2>1. CASE k \notin DOMAIN args
    <3>1. ASSUME NEW x \in DOMAIN ops[k].ins
          PROVE  ops[k].ins[x] \in 1..(i + k - 2) /\ IsValue(i, ops, ops[k].ins[x])
      <4>1. x \in DOMAIN body[k].ins /\ ops[k].ins[x] = at[body[k].ins[x]]  BY <2>1, <1>9
      <4>2. /\ body[k].ins[x] \in 1..(k - 1) /\ body[k].ins[x] \in 1..m
            /\ body[body[k].ins[x]].kind \notin NoResult \cup {"erased"}
        BY <4>1, <1>7
      <4>3. at[body[k].ins[x]] \in 1..(i - 1 + body[k].ins[x])  BY <4>2, <1>8
      <4>4. at[body[k].ins[x]] \in 1..(i + k - 2)  BY <4>2, <4>3, <1>1, InFront
      <4>5. QED  BY <4>1, <4>2, <4>4, <1>10
    <3>2. OpOK(body, k) /\ body[k].kind # "return"  BY <1>7
    <3>3. QED  BY <2>1, <3>1, <3>2, <1>9 DEF OpOK
  <2>2. CASE KnownArg(i, k)
    <3>1. ops[k].kind = "cast" /\ ops[k].ins = <<args[k]>> /\ k \in DOMAIN args  BY <2>2, <1>6, <1>9
    <3>2. DOMAIN ops[k].ins = {1} /\ ops[k].ins[1] = args[k] /\ Len(ops[k].ins) = 1  BY <3>1
    <3>3. args[k] \in 1..(i - 1) /\ main[args[k]].kind \notin NoResult \cup {"erased"}  BY <3>1, <1>2
    <3>4. args[k] < i /\ args[k] \in 1..(i + k - 2)  BY <3>3, <1>1
    <3>5. IsValue(i, ops, args[k])  BY <3>3, <3>4 DEF IsValue
    <3>6. 1 \in Arity("cast")  BY DEF Arity
    <3>7. \A x \in DOMAIN ops[k].ins : ops[k].ins[x] \in 1..(i + k - 2) /\ IsValue(i, ops, ops[k].ins[x])
      BY <3>2, <3>4, <3>5
    <3>8. QED  BY <3>1, <3>2, <3>6, <3>7
  <2>3. CASE k \in DOMAIN args /\ ~KnownArg(i, k)
    <3>1. Erased.ins = <<>> /\ Erased.kind = "erased"  BY DEF Erased
    <3>2. ops[k] = Erased  BY <2>3, <1>9
    <3>3. ops[k].kind = "erased" /\ Len(ops[k].ins) = 0 /\ DOMAIN ops[k].ins = {}  BY <3>1, <3>2
    <3>4. 0 \in Arity("erased")  BY DEF Arity
    <3>5. QED  BY <3>3, <3>4
  <2>4. QED  BY <2>1, <2>2, <2>3
<1>15. Fits(i, ops, at[r])  BY <1>11, <1>13, <1>14 DEF Fits
<1>16. QED  BY <1>11, <1>13, <1>15 DEF ops, at

\* A call is replaced by the body of the function it calls.
LEMMA InlineKeeps ==
  ASSUME input \in Inputs, WellFormed(main), NEW i \in DOMAIN main, InlineCall(i)
  PROVE  WellFormed(main')
<1> DEFINE body == Called(i)
<1>1. /\ main[i].kind = "generic_call" /\ main[i].callee \in DOMAIN input.functions
      /\ Len(input.functions[main[i].callee][Len(input.functions[main[i].callee])].ins) = 1
  <2>1. Inlinable(main[i])  BY DEF InlineCall
  <2>2. QED  BY <2>1 DEF Inlinable
<1>2. body = input.functions[main[i].callee]  BY DEF Called
<1>3. main' = Splice(i, Inlined(i), PlaceOf(i)[body[Len(body)].ins[1]])
  BY DEF InlineCall, Rewrite
<1> HIDE DEF body
<1>4. WellFormed(body) /\ body # <<>> /\ Len(body[Len(body)].ins) = 1
  BY <1>1, <1>2, InputsAssumption
<1>5. /\ body \in Seq(Operations) /\ Len(body) \in Nat /\ DOMAIN body = 1..Len(body) /\ Len(body) >= 1
      /\ \A j \in DOMAIN body : OpOK(body, j)
      /\ \A j \in DOMAIN body : body[j] \in Operations
  BY <1>4, WellFormedIs
<1>6. PICK m \in Nat : m = Len(body) - 1
  <2>1. Len(body) - 1 \in Nat  BY <1>5
  <2>2. QED  BY <2>1
<1>7. Len(body) = m + 1
  BY <1>5, <1>6
<1>8. PICK r : r = body[m + 1].ins[1]  OBVIOUS
<1>9. r \in 1..m /\ body[r].kind \notin NoResult \cup {"erased"} /\ m >= 1
  <2>1. m + 1 \in DOMAIN body  BY <1>5, <1>7
  <2>2. body[m + 1] \in Operations /\ OpOK(body, m + 1)  BY <2>1, <1>5
  <2>3. DOMAIN body[m + 1].ins = 1..1  BY <2>2, <1>4, <1>7, FieldsOf
  <2>4. 1 \in DOMAIN body[m + 1].ins  BY <2>3
  <2>5. r \in 1..(m + 1 - 1) /\ body[r].kind \notin NoResult \cup {"erased"}  BY <2>2, <2>4, <1>8 DEF OpOK
  <2>6. QED  BY <2>5
<1>10. /\ Inlined(i) \in Seq(Operations) /\ Len(Inlined(i)) = m
       /\ PlaceOf(i)[r] \in 1..(i - 1 + m) /\ Fits(i, Inlined(i), PlaceOf(i)[r])
  BY <1>4, <1>7, <1>9, InlinedFits DEF body
<1>11. PICK g \in Nat : m = g + 1
  <2>1. m - 1 \in Nat /\ m = (m - 1) + 1  BY <1>9
  <2>2. QED  BY <2>1
<1>12. PlaceOf(i)[r] \in 1..(i + g)
  <2>1. i \in Nat  BY WellFormedIs
  <2>2. i - 1 + m = i + g  BY <2>1, <1>11
  <2>3. QED  BY <2>2, <1>10
<1>13. main[i].kind # "return"  BY <1>1
<1>14. WellFormed(Splice(i, Inlined(i), PlaceOf(i)[r]))
  BY <1>10, <1>11, <1>12, <1>13, SpliceKeeps
<1>15. QED  BY <1>3, <1>7, <1>8, <1>14

-----------------------------------------------------------------------------
(* The other passes on main                                                *)

LEMMA InferKeeps ==
  ASSUME WellFormed(main), NEW i \in DOMAIN main, Dynamic(main[i]), main[i].kind \in Inferable,
         DimsExist(main[i].kind, TypesOf(i))
  PROVE  WellFormed([main EXCEPT ![i] = [main[i] EXCEPT !.type = InferShapes(main[i].kind, TypesOf(i))]])
<1> DEFINE type == InferShapes(main[i].kind, TypesOf(i))
           op == [main[i] EXCEPT !.type = type]
<1>1. main[i] \in Operations /\ OpOK(main, i)  BY WellFormedIs
<1>2. type \in [ranked : BOOLEAN, dims : Seq(Nat)]  BY InferredType
<1> HIDE DEF type
<1>3. op \in Operations /\ op.kind = main[i].kind /\ op.ins = main[i].ins /\ op.type = type
  BY <1>1, <1>2, WithType
<1> HIDE DEF op
<1>4. main[i].kind \notin NoResult \cup {"erased", "generic_call"}  BY DEF Inferable, NoResult
<1>5. main[i].kind # "return"  BY <1>4 DEF NoResult
<1>6. /\ \A k \in DOMAIN op.ins : op.ins[k] \in 1..(i - 1) /\ main[op.ins[k]].kind \notin NoResult \cup {"erased"}
      /\ Len(op.ins) \in Arity(op.kind)
  BY <1>1, <1>3 DEF OpOK
<1>7. WellFormed([main EXCEPT ![i] = op])
  BY <1>3, <1>4, <1>5, <1>6, ChangeKeeps
<1>8. QED  BY <1>7 DEF op, type

\* What canonicalisation and the merging of equal operations make of main: it
\* stays well formed, and an operation is gone or has the kind of an operation
\* that computes and a type that some operation had.
Tidied(m) ==
  /\ WellFormed(m) /\ DOMAIN m = DOMAIN main
  /\ \A j \in DOMAIN main : \/ m[j] = Erased
                            \/ m[j].kind = main[j].kind /\ m[j].type = main[j].type
                            \/ main[j].kind = "reshape" /\ m[j].kind = "constant" /\ m[j].type = main[j].type

LEMMA ReplacedIsTidied ==
  ASSUME WellFormed(main), NEW i \in DOMAIN main, main[i].kind # "return",
         NEW v \in 1..(i - 1), main[v].kind \notin NoResult \cup {"erased"}
  PROVE  Tidied(ReplaceOp(i, v))
BY ReplaceOpKeeps DEF Tidied

LEMMA ChangedIsTidied ==
  ASSUME WellFormed(main), NEW i \in DOMAIN main, main[i].kind # "return",
         NEW op \in Operations, op.kind # "return",
         \A k \in DOMAIN op.ins : /\ op.ins[k] \in 1..(i - 1)
                                  /\ main[op.ins[k]].kind \notin NoResult \cup {"erased"},
         Len(op.ins) \in Arity(op.kind),
         op.kind = "generic_call" => ~op.type.ranked,
         op.kind \in NoResult \cup {"erased"} => ~Used(i),
         \/ op = Erased
         \/ op.kind = main[i].kind /\ op.type = main[i].type
         \/ main[i].kind = "reshape" /\ op.kind = "constant" /\ op.type = main[i].type
  PROVE  Tidied([main EXCEPT ![i] = op])
<1>1. /\ WellFormed([main EXCEPT ![i] = op])
      /\ [main EXCEPT ![i] = op][i] = op
      /\ DOMAIN [main EXCEPT ![i] = op] = DOMAIN main
      /\ \A j \in DOMAIN main : j # i => [main EXCEPT ![i] = op][j] = main[j]
  BY ChangeKeeps
<1>2. QED  BY <1>1 DEF Tidied

LEMMA CanonicalizeTidies ==
  ASSUME WellFormed(main), NEW i \in DOMAIN main, Canonicalize(i),
         UNCHANGED <<options, stage, passes, block, code, output>>
  PROVE  Tidied(main')
<1>1. main \in Seq(Operations) /\ DOMAIN main = 1..Len(main) /\ Len(main) \in Nat
      /\ \A j \in DOMAIN main : main[j] \in Operations /\ OpOK(main, j)
  BY WellFormedIs
<1>2. ASSUME main[i].kind \in {"transpose", "cast", "reshape"}
      PROVE  /\ main[i].kind # "return" /\ Lhs(i) \in 1..(i - 1) /\ Lhs(i) \in DOMAIN main
             /\ main[Lhs(i)].kind \notin NoResult \cup {"erased"} /\ Operand(i) = main[Lhs(i)]
             /\ Lhs(i) = main[i].ins[1]
  BY <1>2, OneOperand DEF Lhs
<1>3. ASSUME main[i].kind \in {"transpose", "reshape"}, Operand(i).kind = main[i].kind
      PROVE  /\ Operand(i).ins[1] \in 1..(i - 1) /\ main[Operand(i).ins[1]].kind \notin NoResult \cup {"erased"}
             /\ DOMAIN Operand(i).ins = {1} /\ Operand(i).ins \in Seq(Nat) /\ Len(Operand(i).ins) = 1
  <2>1. Lhs(i) \in 1..(i - 1) /\ Lhs(i) \in DOMAIN main /\ Operand(i) = main[Lhs(i)]  BY <1>2, <1>3
  <2>2. main[Lhs(i)].kind \in {"transpose", "cast", "reshape", "print"}  BY <2>1, <1>3
  <2>3. /\ DOMAIN main[Lhs(i)].ins = {1} /\ Len(main[Lhs(i)].ins) = 1
        /\ main[Lhs(i)].ins[1] \in 1..(Lhs(i) - 1)
        /\ main[main[Lhs(i)].ins[1]].kind \notin NoResult \cup {"erased"}
    BY <2>1, <2>2, OneOperand DEF Lhs
  <2>4. main[Lhs(i)].ins[1] \in 1..(i - 1)  BY <2>1, <2>3, <1>1
  <2>5. main[Lhs(i)] \in Operations  BY <2>1, <1>1
  <2>6. main[Lhs(i)].ins \in Seq(Nat)  BY <2>5, FieldsOf
  <2>7. QED  BY <2>1, <2>3, <2>4, <2>6
<1>4. CASE TransposeTranspose(i)
  <2>1. Is(i, "transpose") /\ Operand(i).kind = "transpose" /\ main' = ReplaceOp(i, Operand(i).ins[1])
    BY <1>4 DEF TransposeTranspose, Rewrite
  <2>2. QED  BY <2>1, <1>2, <1>3, ReplacedIsTidied DEF Is
<1>5. CASE ReshapeReshape(i)
  <2> DEFINE op == [main[i] EXCEPT !.ins = Operand(i).ins]
  <2>1. main[i].kind = "reshape" /\ Operand(i).kind = "reshape" /\ main' = [main EXCEPT ![i] = op]
    BY <1>5 DEF ReshapeReshape, Rewrite, Is
  <2>2. op \in Operations /\ op.kind = main[i].kind /\ op.type = main[i].type /\ op.ins = Operand(i).ins
    BY <2>1, <1>1, <1>3, WithOperands
  <2> HIDE DEF op
  <2>3. \A k \in DOMAIN op.ins : op.ins[k] \in 1..(i - 1) /\ main[op.ins[k]].kind \notin NoResult \cup {"erased"}
    BY <2>1, <2>2, <1>3
  <2>4. Len(op.ins) \in Arity(op.kind)  BY <2>1, <2>2, <1>3 DEF Arity
  <2>5. op.kind \notin NoResult \cup {"erased", "generic_call"} /\ op.kind # "return" /\ main[i].kind # "return"
    BY <2>1, <2>2 DEF NoResult
  <2>6. Tidied([main EXCEPT ![i] = op])
    BY <2>2, <2>3, <2>4, <2>5, ChangedIsTidied
  <2>7. QED  BY <2>1, <2>6
<1>6. CASE RedundantReshape(i) \/ FoldCast(i)
  <2>1. main[i].kind \in {"reshape", "cast"} /\ main' = ReplaceOp(i, main[i].ins[1])
    BY <1>6 DEF RedundantReshape, FoldCast, Rewrite, Is
  <2>2. QED  BY <2>1, <1>2, ReplacedIsTidied
<1>7. CASE FoldConstantReshape(i)
  <2> DEFINE op == [Operand(i) EXCEPT !.type = main[i].type]
  <2>1. main[i].kind = "reshape" /\ Operand(i).kind = "constant"
    BY <1>7 DEF FoldConstantReshape, Is
  <2>2. CASE main' = [main EXCEPT ![i] = op]
    <3>1. main[i].type \in [ranked : BOOLEAN, dims : Seq(Nat)]  BY <1>1, FieldsOf
    <3>2. Operand(i) \in Operations /\ OpOK(main, Lhs(i)) /\ Operand(i) = main[Lhs(i)]  BY <2>1, <1>1, <1>2
    <3>3. op \in Operations /\ op.kind = "constant" /\ op.ins = Operand(i).ins /\ op.type = main[i].type
      BY <2>1, <3>1, <3>2, WithType
    <3> HIDE DEF op
    <3>4. Len(op.ins) = 0 /\ Len(op.ins) \in Arity(op.kind)
      BY <2>1, <3>2, <3>3 DEF OpOK, Arity
    <3>5. DOMAIN op.ins = 1..0  BY <3>3, <3>4, FieldsOf
    <3>6. op.kind \notin NoResult \cup {"erased", "generic_call"} /\ op.kind # "return" /\ main[i].kind # "return"
      BY <2>1, <3>3 DEF NoResult
    <3>7. \A k \in DOMAIN op.ins : op.ins[k] \in 1..(i - 1) /\ main[op.ins[k]].kind \notin NoResult \cup {"erased"}
      BY <3>5
    <3>8. Tidied([main EXCEPT ![i] = op])
      BY <2>1, <3>3, <3>4, <3>6, <3>7, ChangedIsTidied
    <3>9. QED  BY <2>2, <3>8
  <2>3. CASE Exit(Abort)
    <3>1. code' = Abort /\ code' = code /\ stage' = "done" /\ stage' = stage /\ Running("canonicalize")
      BY <2>3 DEF Exit, Canonicalize
    <3>2. QED  BY <3>1 DEF Running
  <2>4. QED  BY <2>2, <2>3, <1>7 DEF FoldConstantReshape, Rewrite
<1>8. CASE EraseDead(i)
  <2>1. /\ main[i].kind \in Inferable \cup {"constant", "reshape"} /\ ~Used(i)
        /\ main' = [main EXCEPT ![i] = Erased]
    BY <1>8 DEF EraseDead, Rewrite
  <2>2. Erased.ins = <<>> /\ Erased.kind = "erased"  BY DEF Erased
  <2>3. Len(Erased.ins) = 0 /\ DOMAIN Erased.ins = {}  BY <2>2
  <2>4. Len(Erased.ins) \in Arity(Erased.kind)  BY <2>2, <2>3 DEF Arity
  <2>5. main[i].kind # "return"  BY <2>1 DEF Inferable
  <2>6. \A k \in DOMAIN Erased.ins : /\ Erased.ins[k] \in 1..(i - 1)
                                     /\ main[Erased.ins[k]].kind \notin NoResult \cup {"erased"}
    BY <2>3
  <2>7. Tidied([main EXCEPT ![i] = Erased])
    BY <2>1, <2>2, <2>4, <2>5, <2>6, ErasedIsOperation, ChangedIsTidied
  <2>8. QED  BY <2>1, <2>7
<1>9. QED  BY <1>4, <1>5, <1>6, <1>7, <1>8 DEF Canonicalize

LEMMA MergeTidies ==
  ASSUME WellFormed(main), NEW i \in DOMAIN main, NEW j \in DOMAIN main, MergeEqual(i, j)
  PROVE  Tidied(main')
<1>1. i < j /\ main[i] = main[j] /\ main[i].kind \in Inferable \cup {"constant", "reshape"}
      /\ main' = ReplaceOp(j, i)
  BY DEF MergeEqual, Same, Rewrite
<1>2. DOMAIN main = 1..Len(main) /\ Len(main) \in Nat  BY WellFormedIs
<1>3. i \in 1..(j - 1)  BY <1>1, <1>2
<1>4. main[i].kind \notin NoResult \cup {"erased"} /\ main[j].kind # "return"
  BY <1>1 DEF Inferable, NoResult
<1>5. QED  BY <1>1, <1>3, <1>4, ReplacedIsTidied

-----------------------------------------------------------------------------
(* The pipeline                                                            *)

In(pass, list) == \E k \in DOMAIN list : list[k] = pass

\* All passes in order, how far a level of output goes, and what may be left.
All == <<"inline", "infer", "canonicalize", "cse", "affine", "llvm">>
PassNames == {"inline", "infer", "canonicalize", "cse", "affine", "llvm"}
Level(emit) == IF emit >= DumpMLIRLLVM THEN 6 ELSE IF emit >= DumpMLIRAffine THEN 5 ELSE 4
Left(emit, k) == [j \in 1..(Level(emit) + 1 - k) |-> All[k - 1 + j]]

LEMMA AllIs == /\ All[1] = "inline" /\ All[2] = "infer" /\ All[3] = "canonicalize"
               /\ All[4] = "cse" /\ All[5] = "affine" /\ All[6] = "llvm"
BY DEF All

LEMMA LevelIs ==
  ASSUME NEW emit \in None..RunJIT
  PROVE  /\ Level(emit) \in {4, 5, 6}
         /\ emit >= DumpMLIRAffine <=> Level(emit) >= 5
         /\ emit >= DumpMLIRLLVM <=> Level(emit) >= 6
BY DEF Level, None, RunJIT, DumpMLIRAffine, DumpMLIRLLVM

LEMMA TailIs ==
  ASSUME NEW S, NEW list \in Seq(S), list # <<>>
  PROVE  /\ DOMAIN Tail(list) = 1..(Len(list) - 1)
         /\ Tail(list) = [x \in DOMAIN Tail(list) |-> Tail(list)[x]]
         /\ \A x \in 1..(Len(list) - 1) : Tail(list)[x] = list[x + 1]
<1>1. /\ Tail(list) \in Seq(S) /\ Len(Tail(list)) = Len(list) - 1
      /\ \A x \in 1..Len(Tail(list)) : Tail(list)[x] = list[x + 1]
  BY HeadTailProperties
<1>2. DOMAIN Tail(list) = 1..Len(Tail(list)) /\ Tail(list) \in [1..Len(Tail(list)) -> S]
  BY <1>1, LenProperties
<1>3. QED  BY <1>1, <1>2

LEMMA LeftIs ==
  ASSUME NEW emit \in None..RunJIT, NEW k \in 1..(Level(emit) + 1)
  PROVE  /\ Left(emit, k) \in Seq(PassNames)
         /\ Len(Left(emit, k)) = Level(emit) + 1 - k
         /\ \A pass : In(pass, Left(emit, k)) <=> \E j \in k..Level(emit) : All[j] = pass
         /\ Left(emit, k) = <<>> <=> k = Level(emit) + 1
         /\ k <= Level(emit) => /\ Head(Left(emit, k)) = All[k]
                                /\ Tail(Left(emit, k)) = Left(emit, k + 1)
<1> DEFINE c == Level(emit)
<1>1. c \in {4, 5, 6}  BY LevelIs
<1>2. Left(emit, k) = [j \in 1..(c + 1 - k) |-> All[k - 1 + j]]  BY DEF Left
<1>3. Left(emit, k + 1) = [j \in 1..(c + 1 - (k + 1)) |-> All[(k + 1) - 1 + j]]  BY DEF Left
<1>4. k \in Nat /\ k >= 1 /\ k <= c + 1  BY <1>1
<1> HIDE DEF c
<1>5. \A j \in 1..(c + 1 - k) : All[k - 1 + j] \in {"inline", "infer", "canonicalize", "cse", "affine", "llvm"}
  <2>1. ASSUME NEW j \in 1..(c + 1 - k)
        PROVE  k - 1 + j \in 1..6
    BY <1>1, <1>4
  <2>2. \A x \in 1..6 : All[x] \in {"inline", "infer", "canonicalize", "cse", "affine", "llvm"}
    BY AllIs
  <2>3. QED  BY <2>1, <2>2
<1>6. /\ Left(emit, k) \in Seq(PassNames)
      /\ Len(Left(emit, k)) = c + 1 - k
  <2>1. c + 1 - k \in Nat  BY <1>1, <1>4
  <2>2. QED  BY <1>2, <1>5, <2>1, IsASequence DEF PassNames
<1>7. ASSUME NEW pass
      PROVE  In(pass, Left(emit, k)) <=> \E j \in k..c : All[j] = pass
  <2>1. DOMAIN Left(emit, k) = 1..(c + 1 - k)  BY <1>2
  <2>2. ASSUME NEW x \in DOMAIN Left(emit, k), Left(emit, k)[x] = pass
        PROVE  \E j \in k..c : All[j] = pass
    <3>1. k - 1 + x \in k..c  BY <2>1, <1>1, <1>4
    <3>2. All[k - 1 + x] = pass  BY <2>1, <2>2, <1>2
    <3>3. QED  BY <3>1, <3>2
  <2>3. ASSUME NEW j \in k..c, All[j] = pass
        PROVE  \E x \in DOMAIN Left(emit, k) : Left(emit, k)[x] = pass
    <3>1. j - k + 1 \in 1..(c + 1 - k) /\ k - 1 + (j - k + 1) = j  BY <1>1, <1>4
    <3>2. Left(emit, k)[j - k + 1] = All[k - 1 + (j - k + 1)]  BY <3>1, <1>2
    <3>3. Left(emit, k)[j - k + 1] = pass  BY <3>1, <3>2, <2>3
    <3>4. QED  BY <3>1, <3>3, <2>1
  <2>4. QED  BY <2>2, <2>3 DEF In
<1>8. Left(emit, k) = <<>> <=> k = c + 1
  BY <1>1, <1>4, <1>6
<1>9. ASSUME k <= c
      PROVE  Head(Left(emit, k)) = All[k] /\ Tail(Left(emit, k)) = Left(emit, k + 1)
  <2>1. Left(emit, k)[1] = All[k]
    <3>1. 1 \in 1..(c + 1 - k) /\ k - 1 + 1 = k  BY <1>1, <1>4, <1>9
    <3>2. QED  BY <3>1, <1>2
  <2>2. Left(emit, k) # <<>>  BY <1>1, <1>4, <1>8, <1>9
  <2>3. Head(Left(emit, k)) = All[k]  BY <1>6, <2>1, <2>2
  <2>4. /\ DOMAIN Tail(Left(emit, k)) = 1..(c + 1 - k - 1)
        /\ Tail(Left(emit, k)) = [x \in DOMAIN Tail(Left(emit, k)) |-> Tail(Left(emit, k))[x]]
        /\ \A x \in 1..(c + 1 - k - 1) : Tail(Left(emit, k))[x] = Left(emit, k)[x + 1]
    <3> DEFINE list == Left(emit, k)
    <3>1. list \in Seq(PassNames) /\ list # <<>> /\ Len(list) = c + 1 - k  BY <1>6, <2>2
    <3> HIDE DEF list
    <3>2. /\ DOMAIN Tail(list) = 1..(Len(list) - 1)
          /\ Tail(list) = [x \in DOMAIN Tail(list) |-> Tail(list)[x]]
          /\ \A x \in 1..(Len(list) - 1) : Tail(list)[x] = list[x + 1]
      BY ONLY <3>1, TailIs
    <3>3. Len(list) - 1 = c + 1 - k - 1  BY <3>1, <1>1, <1>4
    <3>4. QED  BY <3>2, <3>3, Zenon DEF list
  <2>5. c + 1 - k - 1 = c + 1 - (k + 1) /\ c + 1 - k - 1 \in Nat  BY <1>1, <1>4, <1>9
  <2>6. ASSUME NEW x \in 1..(c + 1 - (k + 1))
        PROVE  Tail(Left(emit, k))[x] = All[(k + 1) - 1 + x]
    <3>1. x + 1 \in 1..(c + 1 - k) /\ k - 1 + (x + 1) = (k + 1) - 1 + x  BY <1>1, <1>4, <1>9
    <3>2. Left(emit, k)[x + 1] = All[k - 1 + (x + 1)]  BY <3>1, <1>2
    <3>3. QED  BY <3>1, <3>2, <2>4, <2>5
  <2>7. Tail(Left(emit, k)) = Left(emit, k + 1)
    BY <2>4, <2>5, <2>6, <1>3
  <2>8. QED  BY <2>3, <2>7
<1>10. QED  BY <1>6, <1>7, <1>8, <1>9 DEF c

\* Passes are done in order, each once.
LEMMA PassesInOrder ==
  ASSUME NEW emit \in None..RunJIT, NEW list, NEW k \in 1..(Level(emit) + 1), list = Left(emit, k), list # <<>>
  PROVE  /\ k + 1 \in 1..(Level(emit) + 1) /\ Tail(list) = Left(emit, k + 1)
         /\ \A pass : In(pass, Tail(list)) => In(pass, list)
         /\ \A pass : In(pass, list) /\ pass # Head(list) => In(pass, Tail(list))
         /\ ~In(Head(list), Tail(list))
         /\ Head(list) \in {"inline", "infer", "canonicalize", "cse", "affine", "llvm"}
         /\ Head(list) = "inline" => In("infer", list)
         /\ Head(list) \in {"inline", "infer", "canonicalize", "cse"} => In("cse", list)
         /\ Head(list) \in {"inline", "infer", "canonicalize", "cse"} /\ emit >= DumpMLIRAffine => In("affine", list)
         /\ Head(list) # "llvm" /\ emit >= DumpMLIRLLVM => In("llvm", list)
         /\ Head(list) \in {"canonicalize", "cse", "affine", "llvm"} => ~In("infer", list)
         /\ Head(list) \in {"affine", "llvm"} => ~In("cse", list)
         /\ Head(list) = "llvm" => ~In("affine", list)
<1> DEFINE c == Level(emit)
<1>1. c \in {4, 5, 6} /\ (emit >= DumpMLIRAffine <=> c >= 5) /\ (emit >= DumpMLIRLLVM <=> c >= 6)
  BY LevelIs
<1> HIDE DEF c
<1>2. k \in 1..c  BY <1>1, LeftIs DEF c
<1>3. k + 1 \in 1..(c + 1)  BY <1>1, <1>2
<1>4. Head(list) = All[k] /\ Tail(list) = Left(emit, k + 1)  BY <1>1, <1>2, LeftIs DEF c
<1>5. \A pass : In(pass, list) <=> \E j \in k..c : All[j] = pass  BY LeftIs DEF c
<1>6. \A pass : In(pass, Tail(list)) <=> \E j \in (k + 1)..c : All[j] = pass
  <2>1. k + 1 \in 1..(Level(emit) + 1)  BY <1>3 DEF c
  <2>2. \A pass : In(pass, Left(emit, k + 1)) <=> \E j \in (k + 1)..Level(emit) : All[j] = pass
    BY ONLY <2>1, LeftIs, emit \in None..RunJIT
  <2>3. QED  BY <2>2, <1>4 DEF c
<1>7. \A j \in 1..6 : /\ All[j] = "inline" <=> j = 1
                      /\ All[j] = "infer" <=> j = 2
                      /\ All[j] = "canonicalize" <=> j = 3
                      /\ All[j] = "cse" <=> j = 4
                      /\ All[j] = "affine" <=> j = 5
                      /\ All[j] = "llvm" <=> j = 6
                      /\ All[j] \in {"inline", "infer", "canonicalize", "cse", "affine", "llvm"}
  BY AllIs
<1>8. k \in 1..6 /\ (k + 1)..c \subseteq 1..6 /\ k..c \subseteq 1..6  BY <1>1, <1>2
<1>9. \A pass : In(pass, Tail(list)) => In(pass, list)
  BY <1>1, <1>2, <1>5, <1>6
<1>10. ASSUME NEW pass, In(pass, list), pass # Head(list)
       PROVE  In(pass, Tail(list))
  <2>1. PICK j \in k..c : All[j] = pass  BY <1>5, <1>10
  <2>2. j # k  BY <2>1, <1>4, <1>10
  <2>3. j \in (k + 1)..c  BY <2>2, <1>1, <1>2
  <2>4. QED  BY <2>1, <2>3, <1>6
<1>11. ~In(Head(list), Tail(list))
  <2>1. ASSUME NEW j \in (k + 1)..c, All[j] = All[k]
        PROVE  FALSE
    <3>1. j \in 1..6 /\ j # k  BY <1>8, <1>2, <1>1
    <3>2. QED  BY <2>1, <3>1, <1>7, <1>8
  <2>2. QED  BY <2>1, <1>4, <1>6
<1>12. /\ Head(list) \in {"inline", "infer", "canonicalize", "cse", "affine", "llvm"}
       /\ Head(list) = "inline" <=> k = 1
       /\ Head(list) = "infer" <=> k = 2
       /\ Head(list) = "canonicalize" <=> k = 3
       /\ Head(list) = "cse" <=> k = 4
       /\ Head(list) = "affine" <=> k = 5
       /\ Head(list) = "llvm" <=> k = 6
  BY <1>4, <1>7, <1>8
<1>13. /\ In("infer", list) <=> 2 \in k..c
       /\ In("cse", list) <=> 4 \in k..c
       /\ In("affine", list) <=> 5 \in k..c
       /\ In("llvm", list) <=> 6 \in k..c
  BY <1>5, <1>7, <1>8
<1>14. /\ Head(list) = "inline" => In("infer", list)
       /\ Head(list) \in {"inline", "infer", "canonicalize", "cse"} => In("cse", list)
       /\ Head(list) \in {"inline", "infer", "canonicalize", "cse"} /\ emit >= DumpMLIRAffine => In("affine", list)
       /\ Head(list) # "llvm" /\ emit >= DumpMLIRLLVM => In("llvm", list)
       /\ Head(list) \in {"canonicalize", "cse", "affine", "llvm"} => ~In("infer", list)
       /\ Head(list) \in {"affine", "llvm"} => ~In("cse", list)
       /\ Head(list) = "llvm" => ~In("affine", list)
  BY <1>1, <1>2, <1>12, <1>13
<1>15. QED  BY <1>3, <1>4, <1>9, <1>10, <1>11, <1>12, <1>14 DEF c

LEMMA Lengthened ==
  ASSUME NEW S, NEW s \in Seq(S), NEW t \in Seq(S), NEW u \in Seq(S), Len(t) = 1, Len(u) = Len(s) + 1,
         u[Len(u)] = t[1], \A i \in 1..Len(s) : u[i] = s[i]
  PROVE  s \o t = u
<1>1. Len(s) \in Nat /\ s \o t \in Seq(S) /\ Len(s \o t) = Len(s) + 1  BY ConcatProperties
<1>2. ASSUME NEW i \in 1..Len(u)
      PROVE  (s \o t)[i] = u[i]
  <2>1. (s \o t)[i] = IF i <= Len(s) THEN s[i] ELSE t[i - Len(s)]
    BY <1>1, ConcatProperties
  <2>2. CASE i \in 1..Len(s)  BY <1>1, <2>1, <2>2
  <2>3. CASE i = Len(u)
    <3>1. ~(i <= Len(s)) /\ i - Len(s) = 1  BY <1>1, <2>3
    <3>2. QED  BY <2>1, <2>3, <3>1
  <2>4. QED  BY <1>1, <2>2, <2>3
<1>3. QED  BY <1>1, <1>2, SeqEqual

LEMMA TuplesJoined ==
  ASSUME NEW a, NEW b, NEW c, NEW d, NEW e, NEW f
  PROVE  /\ <<>> \o <<>> \o <<>> = <<>>
         /\ <<a, b, c, d>> \o <<>> \o <<>> = <<a, b, c, d>>
         /\ <<a, b, c, d>> \o <<e>> \o <<>> = <<a, b, c, d, e>>
         /\ <<a, b, c, d>> \o <<e>> \o <<f>> = <<a, b, c, d, e, f>>
<1>1. <<>> \o <<>> = <<>>  OBVIOUS
<1>2. <<a, b, c, d>> \o <<>> = <<a, b, c, d>>  OBVIOUS
<1>3. <<a, b, c, d>> \o <<e>> = <<a, b, c, d, e>>
  <2> DEFINE S == {a, b, c, d, e, f}
             s == <<a, b, c, d>>
             t == <<e>>
             u == <<a, b, c, d, e>>
  <2>1. s \in Seq(S) /\ t \in Seq(S) /\ u \in Seq(S) /\ Len(s) = 4 /\ Len(t) = 1 /\ Len(u) = Len(s) + 1  OBVIOUS
  <2>2. u[Len(u)] = t[1] /\ \A i \in 1..Len(s) : u[i] = s[i]  OBVIOUS
  <2> HIDE DEF S, s, t, u
  <2>3. s \o t = u  BY <2>1, <2>2, Lengthened
  <2>4. QED  BY <2>3 DEF s, t, u
<1>4. <<a, b, c, d, e>> \o <<>> = <<a, b, c, d, e>>  OBVIOUS
<1>5. <<a, b, c, d, e>> \o <<f>> = <<a, b, c, d, e, f>>
  <2> DEFINE S == {a, b, c, d, e, f}
             s == <<a, b, c, d, e>>
             t == <<f>>
             u == <<a, b, c, d, e, f>>
  <2>1. s \in Seq(S) /\ t \in Seq(S) /\ u \in Seq(S) /\ Len(s) = 5 /\ Len(t) = 1 /\ Len(u) = Len(s) + 1  OBVIOUS
  <2>2. u[Len(u)] = t[1] /\ \A i \in 1..Len(s) : u[i] = s[i]  OBVIOUS
  <2> HIDE DEF S, s, t, u
  <2>3. s \o t = u  BY <2>1, <2>2, Lengthened
  <2>4. QED  BY <2>3 DEF s, t, u
<1>6. QED  BY <1>1, <1>2, <1>3, <1>4, <1>5

LEMMA PipelineIs ==
  ASSUME NEW emit \in None..RunJIT, NEW opt \in BOOLEAN
  PROVE  /\ \E k \in 1..(Level(emit) + 1) : Pipeline(emit, opt) = Left(emit, k)
         /\ opt \/ emit >= DumpMLIRAffine => In("infer", Pipeline(emit, opt))
         /\ emit >= DumpMLIRAffine => In("affine", Pipeline(emit, opt))
         /\ emit >= DumpMLIRLLVM => In("llvm", Pipeline(emit, opt))
<1> USE DEF None, DumpMLIRAffine, DumpMLIRLLVM, RunJIT
<1>1. CASE emit >= DumpMLIRLLVM
  <2>0. Pipeline(emit, opt) = <<"inline", "infer", "canonicalize", "cse">> \o <<"affine">> \o <<"llvm">>
    BY <1>1 DEF Pipeline
  <2>1. Pipeline(emit, opt) = <<"inline", "infer", "canonicalize", "cse", "affine", "llvm">>
    BY <2>0, TuplesJoined
  <2>2. Level(emit) = 6 /\ 1 \in 1..(Level(emit) + 1)  BY <1>1 DEF Level
  <2>3. Left(emit, 1) = [j \in 1..6 |-> All[j]]  BY <2>2 DEF Left
  <2>4. Pipeline(emit, opt) = Left(emit, 1)  BY <2>1, <2>3 DEF All
  <2>5. QED  BY <2>1, <2>2, <2>4 DEF In
<1>2. CASE emit >= DumpMLIRAffine /\ ~(emit >= DumpMLIRLLVM)
  <2>0. Pipeline(emit, opt) = <<"inline", "infer", "canonicalize", "cse">> \o <<"affine">> \o <<>>
    BY <1>2 DEF Pipeline
  <2>1. Pipeline(emit, opt) = <<"inline", "infer", "canonicalize", "cse", "affine">>
    BY <2>0, TuplesJoined
  <2>2. Level(emit) = 5 /\ 1 \in 1..(Level(emit) + 1)  BY <1>2 DEF Level
  <2>3. Left(emit, 1) = [j \in 1..5 |-> All[j]]  BY <2>2 DEF Left
  <2>4. Pipeline(emit, opt) = Left(emit, 1)  BY <2>1, <2>3, AllIs
  <2>5. QED  BY <2>1, <2>2, <2>4, <1>2 DEF In
<1>3. CASE ~(emit >= DumpMLIRAffine) /\ opt
  <2>a. ~(emit >= DumpMLIRLLVM)  BY <1>3
  <2>0. Pipeline(emit, opt) = <<"inline", "infer", "canonicalize", "cse">> \o <<>> \o <<>>
    BY <1>3, <2>a, Zenon DEF Pipeline
  <2>1. Pipeline(emit, opt) = <<"inline", "infer", "canonicalize", "cse">>
    BY <2>0, TuplesJoined
  <2>2. Level(emit) = 4 /\ 1 \in 1..(Level(emit) + 1)  BY <1>3 DEF Level
  <2>3. Left(emit, 1) = [j \in 1..4 |-> All[j]]  BY <2>2 DEF Left
  <2>4. Pipeline(emit, opt) = Left(emit, 1)  BY <2>1, <2>3, AllIs
  <2>5. 2 \in DOMAIN Pipeline(emit, opt) /\ Pipeline(emit, opt)[2] = "infer"  BY <2>1
  <2>6. In("infer", Pipeline(emit, opt))  BY <2>5 DEF In
  <2>7. ~(emit >= DumpMLIRLLVM)  BY <1>3
  <2>8. QED  BY <2>6, <2>7, <2>2, <2>4, <1>3
<1>4. CASE ~(emit >= DumpMLIRAffine) /\ ~opt
  <2>0. Pipeline(emit, opt) = <<>> \o <<>> \o <<>>
    BY <1>4 DEF Pipeline
  <2>1. Pipeline(emit, opt) = <<>>
    BY <2>0, TuplesJoined
  <2>2. Level(emit) = 4 /\ 5 \in 1..(Level(emit) + 1)  BY <1>4 DEF Level
  <2>3. Left(emit, 5) = <<>>  BY <2>2, LeftIs
  <2>4. QED  BY <2>1, <2>2, <2>3, <1>4
<1>5. QED  BY <1>1, <1>2, <1>3, <1>4

-----------------------------------------------------------------------------
(* The invariant                                                           *)

\* Every operation that is left has a type of known shape, and no call is left.
Typed(m) == \A i \in DOMAIN m : m[i].kind = "erased" \/ (~Dynamic(m[i]) /\ m[i].kind # "generic_call")

\* The block while toyc.cpp converts it: a sequence in which
\* every use of a buffer stands between an allocation and a deallocation of it,
Starts(o, x) == o.do = "alloc" /\ o.buf = x
Ends(o, x) == o.do = "dealloc" /\ o.buf = x
Between(b, p, x) ==
  /\ \E a \in DOMAIN b : a <= p /\ Starts(b[a], x)
  /\ \E d \in DOMAIN b : p <= d /\ Ends(b[d], x)
UsesBetween(b) == \A p \in DOMAIN b : \A x \in Names(b[p]) : Between(b, p, x)
\* of which there is one each,
Once(b) ==
  \A p, q \in DOMAIN b :
    b[p].do = b[q].do /\ b[p].do \in {"alloc", "dealloc"} /\ b[p].buf = b[q].buf => p = q
\* the operations that are not converted are in the order of main, with the
\* return at the end, and none of them has a buffer yet,
ToysInOrder(b) ==
  \A p \in DOMAIN b : b[p].do = "toy" =>
    /\ b[p].id \in DOMAIN main
    /\ b[p].id = Len(main) <=> p = Len(b)
    /\ \A q \in DOMAIN b : /\ b[q].do = "toy" /\ p < q => b[p].id < b[q].id
                           /\ b[q].do \in {"alloc", "dealloc"} => b[q].buf # b[p].id
\* and a value is not converted, or its buffer is allocated before and freed
\* after everything that is not, up to the return.
IsToy(b, y) == \E p \in DOMAIN b : b[p].do = "toy" /\ b[p].id = y
HasBuffer(b, y) ==
  /\ \E a \in DOMAIN b : Starts(b[a], y) /\ \A q \in DOMAIN b : b[q].do = "toy" => a < q
  /\ \E d \in DOMAIN b : Ends(b[d], y) /\ \A q \in DOMAIN b : b[q].do = "toy" /\ q # Len(b) => q < d
ValuesReady(b) ==
  \A y \in DOMAIN main : main[y].kind \notin NoResult \cup {"erased"} => IsToy(b, y) \/ HasBuffer(b, y)
IsSequence(b) == b \in Seq({b[p] : p \in DOMAIN b})
BlockInv(b) ==
  IsSequence(b) /\ UsesBetween(b) /\ Once(b) /\ ToysInOrder(b) /\ ValuesReady(b) /\ Parameters(main) = {}

OptionsOK == input \in Inputs /\ emitAction \in None..RunJIT /\ enableOpt \in BOOLEAN
PassesOK ==
  /\ stage \in {"start", "passes", "done"}
  /\ stage = "start" => main = <<>> /\ block = <<>>
  /\ stage = "passes" => \E k \in 1..(Level(emitAction) + 1) : passes = Left(emitAction, k)
  /\ stage = "passes" /\ In("cse", passes) => block = <<>>
\* What a pass has achieved stays.
Achieved ==
  stage = "passes" =>
    /\ (enableOpt \/ emitAction >= DumpMLIRAffine) /\ ~In("infer", passes) => Typed(main)
    /\ emitAction >= DumpMLIRAffine /\ ~In("affine", passes) => ~Has("toy") /\ (block = <<>> => main = <<>>)
    /\ emitAction >= DumpMLIRLLVM /\ ~In("llvm", passes) => ~Has("print")
CompilerInv ==
  OptionsOK /\ WellFormed(main) /\ PassesOK /\ Achieved /\ DialectOfOutput /\ (block # <<>> => BlockInv(block))

-----------------------------------------------------------------------------
(* The passes                                                              *)

LEMMA EmptyIsWellFormed == WellFormed(<<>>)
<1>1. <<>> \in Seq(Operations) /\ DOMAIN <<>> = {}  OBVIOUS
<1>2. QED  BY <1>1 DEF WellFormed

LEMMA TidiedStaysTyped ==
  ASSUME NEW m, Tidied(m), Typed(main)
  PROVE  Typed(m)
<1> SUFFICES ASSUME NEW j \in DOMAIN m
             PROVE  m[j].kind = "erased" \/ (~Dynamic(m[j]) /\ m[j].kind # "generic_call")
  BY DEF Typed
<1>1. j \in DOMAIN main  BY DEF Tidied
<1>2. main[j].kind = "erased" \/ (~Dynamic(main[j]) /\ main[j].kind # "generic_call")
  BY <1>1 DEF Typed
<1>0. Erased.kind = "erased"  BY DEF Erased
<1>3. CASE m[j] = Erased  BY <1>0, <1>3
<1>4. CASE m[j].kind = main[j].kind /\ m[j].type = main[j].type  BY <1>2, <1>4 DEF Dynamic
<1>5. CASE main[j].kind = "reshape" /\ m[j].kind = "constant" /\ m[j].type = main[j].type
  BY <1>2, <1>5 DEF Dynamic, NoResult
<1>6. QED  BY <1>1, <1>3, <1>4, <1>5 DEF Tidied

\* Where a pass runs, and what is left when it ends.
LEMMA WhileRunning ==
  ASSUME CompilerInv, NEW pass, Running(pass)
  PROVE  /\ stage = "passes" /\ passes # <<>> /\ Head(passes) = pass
         /\ pass \in PassNames
         /\ \E k \in 1..(Level(emitAction) + 1) : Tail(passes) = Left(emitAction, k)
         /\ \A other : In(other, Tail(passes)) => In(other, passes)
         /\ \A other : In(other, passes) /\ other # pass => In(other, Tail(passes))
         /\ pass = "inline" => In("infer", passes)
         /\ In(pass, passes)
         /\ pass \in {"inline", "infer", "canonicalize", "cse"} => In("cse", passes) /\ block = <<>>
         /\ pass \in {"inline", "infer", "canonicalize", "cse"} /\ emitAction >= DumpMLIRAffine => In("affine", passes)
         /\ pass # "llvm" /\ emitAction >= DumpMLIRLLVM => In("llvm", passes)
         /\ pass \in {"affine", "llvm"} => ~In("cse", passes)
<1>1. stage = "passes" /\ passes # <<>> /\ Head(passes) = pass  BY DEF Running
<1>2. emitAction \in None..RunJIT  BY DEF CompilerInv, OptionsOK
<1>3. PICK k \in 1..(Level(emitAction) + 1) : passes = Left(emitAction, k)
  BY <1>1 DEF CompilerInv, PassesOK
<1>4. /\ k + 1 \in 1..(Level(emitAction) + 1) /\ Tail(passes) = Left(emitAction, k + 1)
      /\ \A other : In(other, Tail(passes)) => In(other, passes)
      /\ \A other : In(other, passes) /\ other # pass => In(other, Tail(passes))
      /\ pass \in PassNames
      /\ pass = "inline" => In("infer", passes)
      /\ pass \in {"inline", "infer", "canonicalize", "cse"} => In("cse", passes)
      /\ pass \in {"inline", "infer", "canonicalize", "cse"} /\ emitAction >= DumpMLIRAffine => In("affine", passes)
      /\ pass # "llvm" /\ emitAction >= DumpMLIRLLVM => In("llvm", passes)
      /\ pass \in {"affine", "llvm"} => ~In("cse", passes)
  BY <1>1, <1>2, <1>3, PassesInOrder DEF PassNames
<1>5. In(pass, passes)
  <2>1. passes \in Seq(PassNames)  BY <1>2, <1>3, LeftIs
  <2>2. 1 \in DOMAIN passes /\ passes[1] = Head(passes)  BY <1>1, <2>1
  <2>3. QED  BY <1>1, <2>2 DEF In
<1>6. pass \in {"inline", "infer", "canonicalize", "cse"} => block = <<>>
  BY <1>1, <1>4 DEF CompilerInv, PassesOK
<1>7. QED  BY <1>1, <1>4, <1>5, <1>6

\* The steps of the compiler, by what they do to the invariant.
LEMMA ExitKeeps ==
  ASSUME CompilerInv, NEW c \in Int, c # 0, Exit(c)
  PROVE  CompilerInv'
<1>1. stage' = "done" /\ code' = c /\ UNCHANGED <<options, passes, main, block, output>>  BY DEF Exit
<1>2. emitAction' = emitAction /\ enableOpt' = enableOpt /\ input' = input /\ main' = main /\ block' = block
  BY <1>1 DEF options
<1>3. OptionsOK' /\ WellFormed(main)'  BY <1>2 DEF CompilerInv, OptionsOK
<1>4. PassesOK' /\ Achieved' /\ DialectOfOutput'  BY <1>1 DEF PassesOK, Achieved, DialectOfOutput
<1>5. block' # <<>> => BlockInv(block)'
  BY <1>2 DEF CompilerInv, BlockInv, IsSequence, UsesBetween, Between, Once, ToysInOrder, ValuesReady, IsToy, HasBuffer,
              Parameters
<1>6. QED  BY <1>3, <1>4, <1>5 DEF CompilerInv

LEMMA FinishKeeps ==
  ASSUME CompilerInv, NEW o, Finish(o), emitAction = DumpAST \/ Compiled
  PROVE  CompilerInv'
<1>1. stage' = "done" /\ UNCHANGED <<options, passes, main, block, code>>  BY DEF Finish
<1>2. emitAction' = emitAction /\ enableOpt' = enableOpt /\ input' = input /\ main' = main /\ block' = block
  BY <1>1 DEF options
<1>3. OptionsOK' /\ WellFormed(main)'  BY <1>2 DEF CompilerInv, OptionsOK
<1>4. PassesOK' /\ Achieved'  BY <1>1 DEF PassesOK, Achieved
<1>5. block' # <<>> => BlockInv(block)'
  BY <1>2 DEF CompilerInv, BlockInv, IsSequence, UsesBetween, Between, Once, ToysInOrder, ValuesReady, IsToy, HasBuffer,
              Parameters
<1>6. DialectOfOutput'
  <2>1. CASE emitAction = DumpAST  BY <1>2, <2>1 DEF DialectOfOutput
  <2>2. CASE Compiled
    <3>1. \A pass : ~In(pass, passes)  BY <2>2 DEF Compiled, In
    <3>2. stage = "passes"  BY <2>2 DEF Compiled
    <3>3. /\ enableOpt \/ emitAction >= DumpMLIRAffine => Typed(main)
          /\ emitAction >= DumpMLIRAffine => ~Has("toy") /\ (block = <<>> => main = <<>>)
          /\ emitAction >= DumpMLIRLLVM => ~Has("print")
      BY <3>1, <3>2 DEF CompilerInv, Achieved
    <3>4. /\ enableOpt' \/ emitAction' >= DumpMLIRAffine => Typed(main')
          /\ emitAction' >= DumpMLIRAffine => ~Has("toy")' /\ (block' = <<>> => main' = <<>>)
          /\ emitAction' >= DumpMLIRLLVM => ~Has("print")'
      BY <1>2, <3>3 DEF Has
    <3>5. Typed(main') => \A i \in DOMAIN main' : Is(i, "erased")' \/ (~Dynamic(main[i])' /\ ~Is(i, "generic_call")')
      BY DEF Typed, Is, Dynamic
    <3>6. QED  BY <3>4, <3>5 DEF DialectOfOutput
  <2>3. QED  BY <2>1, <2>2
<1>7. QED  BY <1>3, <1>4, <1>5, <1>6 DEF CompilerInv

LEMMA LoadKeeps ==
  ASSUME CompilerInv, LoadMLIR
  PROVE  CompilerInv'
<1>1. /\ stage = "start" /\ stage' = "passes" /\ passes' = Pipeline(emitAction, enableOpt) /\ main' = input.main
      /\ UNCHANGED <<options, block, code, output>>
  BY DEF LoadMLIR
<1>2. emitAction' = emitAction /\ enableOpt' = enableOpt /\ input' = input /\ block' = block
  BY <1>1 DEF options
<1>3. OptionsOK /\ OptionsOK'  BY <1>2 DEF CompilerInv, OptionsOK
<1>4. WellFormed(main)'
  <2>1. WellFormed(input.main)  BY <1>3, InputsAssumption DEF OptionsOK
  <2>2. QED  BY <1>1, <2>1 DEF WellFormed
<1>5. block' = <<>>  BY <1>1, <1>2 DEF CompilerInv, PassesOK
<1>6. /\ \E k \in 1..(Level(emitAction) + 1) : passes' = Left(emitAction, k)
      /\ enableOpt \/ emitAction >= DumpMLIRAffine => In("infer", passes')
      /\ emitAction >= DumpMLIRAffine => In("affine", passes')
      /\ emitAction >= DumpMLIRLLVM => In("llvm", passes')
  BY <1>1, <1>3, PipelineIs DEF OptionsOK
<1>7. PassesOK'  BY <1>1, <1>2, <1>5, <1>6 DEF PassesOK
<1>8. Achieved'  BY <1>1, <1>2, <1>6 DEF Achieved
<1>9. DialectOfOutput'  BY <1>1 DEF DialectOfOutput
<1>10. QED  BY <1>3, <1>4, <1>5, <1>7, <1>8, <1>9 DEF CompilerInv

LEMMA EndPassKeeps ==
  ASSUME CompilerInv, NEW pass, Running(pass), EndPass,
         pass = "infer" => Typed(main),
         pass = "affine" => ~Has("toy") /\ (block = <<>> => main = <<>>),
         pass = "llvm" => ~Has("print")
  PROVE  CompilerInv'
<1>1. passes' = Tail(passes) /\ UNCHANGED <<options, stage, main, block, code, output>>  BY DEF EndPass
<1>2. /\ emitAction' = emitAction /\ enableOpt' = enableOpt /\ input' = input /\ main' = main /\ block' = block
      /\ stage' = stage
  BY <1>1 DEF options
<1>3. /\ stage = "passes"
      /\ \E k \in 1..(Level(emitAction) + 1) : Tail(passes) = Left(emitAction, k)
      /\ \A other : In(other, Tail(passes)) => In(other, passes)
      /\ \A other : In(other, passes) /\ other # pass => In(other, Tail(passes))
  BY WhileRunning
<1>4. OptionsOK' /\ WellFormed(main)'  BY <1>2 DEF CompilerInv, OptionsOK
<1>5. PassesOK'
  <2>1. In("cse", passes') => block' = <<>>  BY <1>1, <1>2, <1>3 DEF CompilerInv, PassesOK
  <2>2. QED  BY <1>1, <1>2, <1>3, <2>1 DEF PassesOK
<1>6. Achieved'
  <2>1. ~In("infer", passes') => pass = "infer" \/ ~In("infer", passes)  BY <1>1, <1>3
  <2>2. ~In("affine", passes') => pass = "affine" \/ ~In("affine", passes)  BY <1>1, <1>3
  <2>3. ~In("llvm", passes') => pass = "llvm" \/ ~In("llvm", passes)  BY <1>1, <1>3
  <2>4. (enableOpt \/ emitAction >= DumpMLIRAffine) /\ ~In("infer", passes') => Typed(main)
    BY <1>3, <2>1 DEF CompilerInv, Achieved
  <2>5. emitAction >= DumpMLIRAffine /\ ~In("affine", passes') => ~Has("toy") /\ (block = <<>> => main = <<>>)
    BY <1>3, <2>2 DEF CompilerInv, Achieved
  <2>6. emitAction >= DumpMLIRLLVM /\ ~In("llvm", passes') => ~Has("print")
    BY <1>3, <2>3 DEF CompilerInv, Achieved
  <2>7. QED  BY <1>2, <2>4, <2>5, <2>6 DEF Achieved, Has
<1>7. DialectOfOutput'  BY <1>2, <1>3 DEF DialectOfOutput
<1>8. block' # <<>> => BlockInv(block)'
  BY <1>2 DEF CompilerInv, BlockInv, IsSequence, UsesBetween, Between, Once, ToysInOrder, ValuesReady, IsToy, HasBuffer,
              Parameters
<1>9. QED  BY <1>4, <1>5, <1>6, <1>7, <1>8 DEF CompilerInv

LEMMA RewriteKeeps ==
  ASSUME CompilerInv, NEW pass \in {"inline", "infer", "canonicalize", "cse"}, Running(pass), NEW m, Rewrite(m),
         WellFormed(m), pass \in {"canonicalize", "cse"} => Tidied(m)
  PROVE  CompilerInv'
<1>1. main' = m /\ UNCHANGED <<options, stage, passes, block, code, output>>  BY DEF Rewrite
<1>2. /\ emitAction' = emitAction /\ enableOpt' = enableOpt /\ input' = input /\ passes' = passes /\ block' = block
      /\ stage' = stage
  BY <1>1 DEF options
<1>3. /\ stage = "passes" /\ block = <<>>
      /\ pass \in {"inline", "infer"} => In("infer", passes)
      /\ emitAction >= DumpMLIRAffine => In("affine", passes)
      /\ emitAction >= DumpMLIRLLVM => In("llvm", passes)
  BY WhileRunning
<1>4. OptionsOK'  BY <1>2 DEF CompilerInv, OptionsOK
<1>5. WellFormed(main)'  BY <1>1 DEF WellFormed
<1>6. PassesOK'  BY <1>2, <1>3 DEF CompilerInv, PassesOK
<1>7. Achieved'
  <2>1. Typed(main) /\ pass \in {"canonicalize", "cse"} => Typed(m)  BY TidiedStaysTyped
  <2>2. (enableOpt \/ emitAction >= DumpMLIRAffine) /\ ~In("infer", passes) => Typed(m)
    BY <1>3, <2>1 DEF CompilerInv, Achieved
  <2>3. QED  BY <1>1, <1>2, <1>3, <2>2 DEF Achieved
<1>8. DialectOfOutput'  BY <1>2, <1>3 DEF DialectOfOutput
<1>9. QED  BY <1>2, <1>3, <1>4, <1>5, <1>6, <1>7, <1>8 DEF CompilerInv

LEMMA ToBlockKeeps ==
  ASSUME CompilerInv, NEW pass \in {"affine", "llvm"}, Running(pass), NEW b, ToBlock(b), BlockInv(b),
         pass = "llvm" => b # <<>> /\ ((\E p \in DOMAIN b : b[p].do = "toy") => Has("toy"))
  PROVE  CompilerInv'
<1>1. block' = b /\ UNCHANGED <<options, stage, passes, main, code, output>>  BY DEF ToBlock
<1>2. /\ emitAction' = emitAction /\ enableOpt' = enableOpt /\ input' = input /\ passes' = passes /\ main' = main
      /\ stage' = stage
  BY <1>1 DEF options
<1>3. /\ stage = "passes" /\ ~In("cse", passes) /\ In(pass, passes)
      /\ pass # "llvm" /\ emitAction >= DumpMLIRLLVM => In("llvm", passes)
  BY WhileRunning
<1>4. OptionsOK' /\ WellFormed(main)'  BY <1>2 DEF CompilerInv, OptionsOK
<1>5. PassesOK'  BY <1>2, <1>3 DEF CompilerInv, PassesOK
<1>6. Achieved'
  <2>1. emitAction >= DumpMLIRAffine /\ ~In("affine", passes) =>
          (~\E p \in DOMAIN b : b[p].do = "toy") /\ (b = <<>> => main = <<>>)
    BY <1>3 DEF CompilerInv, Achieved
  <2>2. emitAction >= DumpMLIRLLVM => In("llvm", passes)  BY <1>3
  <2>3. Has("toy")' <=> \E p \in DOMAIN b : b[p].do = "toy"  BY <1>1 DEF Has
  <2>4. (enableOpt \/ emitAction >= DumpMLIRAffine) /\ ~In("infer", passes) => Typed(main)
    BY <1>3 DEF CompilerInv, Achieved
  <2>5. QED  BY <1>1, <1>2, <2>1, <2>2, <2>3, <2>4 DEF Achieved
<1>7. DialectOfOutput'  BY <1>2, <1>3 DEF DialectOfOutput
<1>8. BlockInv(block)'
  BY <1>1, <1>2 DEF BlockInv, IsSequence, UsesBetween, Between, Once, ToysInOrder, ValuesReady, IsToy, HasBuffer,
              Parameters
<1>9. QED  BY <1>4, <1>5, <1>6, <1>7, <1>8 DEF CompilerInv

-----------------------------------------------------------------------------
(* The block with an operation converted                                   *)

Concatenation(s, t, u) ==
  /\ Len(u) = Len(s) + Len(t)
  /\ \A j \in 1..Len(s) : u[j] = s[j]
  /\ \A j \in 1..Len(t) : u[Len(s) + j] = t[j]

LEMMA Joined ==
  ASSUME NEW S, NEW s \in Seq(S), NEW t \in Seq(S)
  PROVE  s \o t \in Seq(S) /\ Concatenation(s, t, s \o t)
<1>1. s \o t \in Seq(S) /\ Len(s \o t) = Len(s) + Len(t) /\ Len(s) \in Nat /\ Len(t) \in Nat
  BY ConcatProperties
<1>2. \A i \in 1..(Len(s) + Len(t)) : (s \o t)[i] = IF i <= Len(s) THEN s[i] ELSE t[i - Len(s)]
  BY ConcatProperties
<1>3. ASSUME NEW j \in 1..Len(s)
      PROVE  (s \o t)[j] = s[j]
  <2>1. j \in 1..(Len(s) + Len(t)) /\ j <= Len(s)  BY <1>1
  <2>2. QED  BY <1>2, <2>1
<1>4. ASSUME NEW j \in 1..Len(t)
      PROVE  (s \o t)[Len(s) + j] = t[j]
  <2>1. Len(s) + j \in 1..(Len(s) + Len(t)) /\ ~(Len(s) + j <= Len(s)) /\ (Len(s) + j) - Len(s) = j  BY <1>1
  <2>2. QED  BY <1>2, <2>1
<1>5. QED  BY <1>1, <1>3, <1>4 DEF Concatenation

LEMMA PartOf ==
  ASSUME NEW S, NEW b \in Seq(S), NEW l \in Nat \ {0}, NEW r \in Nat, r <= Len(b), l <= r + 1
  PROVE  /\ SubSeq(b, l, r) \in Seq(S) /\ Len(SubSeq(b, l, r)) = r + 1 - l
         /\ \A j \in 1..(r + 1 - l) : SubSeq(b, l, r)[j] = b[l - 1 + j]
<1>1. CASE l <= r
  <2>1. l \in 1..Len(b) /\ r \in l..Len(b)  BY <1>1
  <2>2. /\ SubSeq(b, l, r) \in Seq(S) /\ Len(SubSeq(b, l, r)) = r - l + 1
        /\ \A j \in 1..(r - l + 1) : SubSeq(b, l, r)[j] = b[l + j - 1]
    BY <2>1, SubSeqProperties
  <2>3. r - l + 1 = r + 1 - l /\ \A j \in 1..(r - l + 1) : l + j - 1 = l - 1 + j  OBVIOUS
  <2>4. QED  BY <2>2, <2>3
<1>2. CASE l = r + 1
  <2>1. SubSeq(b, l, r) = <<>>  BY <1>2, SubSeqEmpty
  <2>2. r + 1 - l = 0 /\ <<>> \in Seq(S) /\ Len(<<>>) = 0  BY <1>2
  <2>3. 1..(r + 1 - l) = {}  BY <2>2
  <2>4. QED  BY <2>1, <2>2, <2>3
<1>3. QED  BY <1>1, <1>2

\* What Insert makes of a block of n operations when m operations replace the
\* one at p, and where it moves the others.
Inserted(b, p, ops, a, d) ==
  <<a>> \o SubSeq(b, 1, p - 1) \o ops \o SubSeq(b, p + 1, Len(b) - 1) \o <<d, Last(b)>>
Moved(n, m, p, q) == IF q < p THEN q + 1 ELSE IF q < n THEN q + m ELSE q + m + 1

InsertedShape(new, n, m, p, b, ops, a, d) ==
  /\ Len(new) = n + m + 1
  /\ new[1] = a /\ new[n + m] = d
  /\ \A k \in 1..m : new[p + k] = ops[k]
  /\ \A q \in 1..n : q # p => new[Moved(n, m, p, q)] = b[q]

LEMMA InsertedIs ==
  ASSUME NEW S, NEW b \in Seq(S), NEW n \in Nat, Len(b) = n, NEW p \in 1..(n - 1),
         NEW ops \in Seq(S), NEW m \in Nat, Len(ops) = m, NEW a \in S, NEW d \in S
  PROVE  /\ Inserted(b, p, ops, a, d) \in Seq(S)
         /\ InsertedShape(Inserted(b, p, ops, a, d), n, m, p, b, ops, a, d)
<1> DEFINE s1 == <<a>>
           s2 == SubSeq(b, 1, p - 1)
           s4 == SubSeq(b, p + 1, n - 1)
           s5 == <<d, b[n]>>
           t2 == s1 \o s2
           t3 == t2 \o ops
           t4 == t3 \o s4
           t5 == t4 \o s5
<1>1. Inserted(b, p, ops, a, d) = t5  BY DEF Inserted, Last
<1>2. s1 \in Seq(S) /\ Len(s1) = 1 /\ s1[1] = a  OBVIOUS
<1>3. s2 \in Seq(S) /\ Len(s2) = p - 1 /\ \A j \in 1..(p - 1) : s2[j] = b[j]
  <2>1. /\ SubSeq(b, 1, p - 1) \in Seq(S) /\ Len(SubSeq(b, 1, p - 1)) = (p - 1) + 1 - 1
        /\ \A j \in 1..((p - 1) + 1 - 1) : SubSeq(b, 1, p - 1)[j] = b[1 - 1 + j]
    <3>1. 1 \in Nat \ {0} /\ p - 1 \in Nat /\ p - 1 <= Len(b) /\ 1 <= (p - 1) + 1  OBVIOUS
    <3>2. QED  BY <3>1, PartOf
  <2>2. (p - 1) + 1 - 1 = p - 1 /\ \A j \in 1..(p - 1) : 1 - 1 + j = j  OBVIOUS
  <2>3. QED  BY <2>1, <2>2
<1>4. s4 \in Seq(S) /\ Len(s4) = n - 1 - p /\ \A j \in 1..(n - 1 - p) : s4[j] = b[p + j]
  <2>1. /\ SubSeq(b, p + 1, n - 1) \in Seq(S) /\ Len(SubSeq(b, p + 1, n - 1)) = (n - 1) + 1 - (p + 1)
        /\ \A j \in 1..((n - 1) + 1 - (p + 1)) : SubSeq(b, p + 1, n - 1)[j] = b[(p + 1) - 1 + j]
    <3>1. p + 1 \in Nat \ {0} /\ n - 1 \in Nat /\ n - 1 <= Len(b) /\ p + 1 <= (n - 1) + 1  OBVIOUS
    <3>2. QED  BY <3>1, PartOf
  <2>2. (n - 1) + 1 - (p + 1) = n - 1 - p /\ \A j \in 1..(n - 1 - p) : (p + 1) - 1 + j = p + j  OBVIOUS
  <2>3. QED  BY <2>1, <2>2
<1>5. s5 \in Seq(S) /\ Len(s5) = 2 /\ s5[1] = d /\ s5[2] = b[n]
  <2>1. b[n] \in S  OBVIOUS
  <2>2. QED  BY <2>1
<1> HIDE DEF s1, s2, s4, s5
<1>6. /\ t2 \in Seq(S) /\ Len(t2) = 1 + (p - 1)
      /\ \A j \in 1..1 : t2[j] = s1[j]
      /\ \A j \in 1..(p - 1) : t2[1 + j] = s2[j]
  <2>1. s1 \in Seq(S) /\ s2 \in Seq(S) /\ p - 1 \in Nat /\ 1 \in Nat /\ Len(s1) = 1 /\ Len(s2) = p - 1  BY <1>2, <1>3
  <2>2. t2 \in Seq(S) /\ Concatenation(s1, s2, t2)  BY <2>1, Joined
  <2> HIDE DEF t2
  <2>3. QED  BY <2>1, <2>2 DEF Concatenation
<1> HIDE DEF t2
<1>7. /\ t3 \in Seq(S) /\ Len(t3) = p + m
      /\ \A j \in 1..p : t3[j] = t2[j]
      /\ \A j \in 1..m : t3[p + j] = ops[j]
  <2>1. t2 \in Seq(S) /\ ops \in Seq(S) /\ p \in Nat /\ m \in Nat /\ Len(t2) = p /\ Len(ops) = m  BY <1>6
  <2>2. t3 \in Seq(S) /\ Concatenation(t2, ops, t3)  BY <2>1, Joined
  <2> HIDE DEF t3
  <2>3. QED  BY <2>1, <2>2 DEF Concatenation
<1> HIDE DEF t3
<1>8. /\ t4 \in Seq(S) /\ Len(t4) = (p + m) + (n - 1 - p)
      /\ \A j \in 1..(p + m) : t4[j] = t3[j]
      /\ \A j \in 1..(n - 1 - p) : t4[(p + m) + j] = s4[j]
  <2>1. /\ t3 \in Seq(S) /\ s4 \in Seq(S) /\ p + m \in Nat /\ n - 1 - p \in Nat
        /\ Len(t3) = p + m /\ Len(s4) = n - 1 - p
    BY <1>4, <1>7
  <2>2. t4 \in Seq(S) /\ Concatenation(t3, s4, t4)  BY <2>1, Joined
  <2> HIDE DEF t4
  <2>3. QED  BY <2>1, <2>2 DEF Concatenation
<1> HIDE DEF t4
<1>9. /\ t5 \in Seq(S) /\ Len(t5) = (n - 1 + m) + 2
      /\ \A j \in 1..(n - 1 + m) : t5[j] = t4[j]
      /\ \A j \in 1..2 : t5[(n - 1 + m) + j] = s5[j]
  <2>1. /\ t4 \in Seq(S) /\ s5 \in Seq(S) /\ n - 1 + m \in Nat /\ 2 \in Nat
        /\ Len(t4) = n - 1 + m /\ Len(s5) = 2
    BY <1>5, <1>8
  <2>2. t5 \in Seq(S) /\ Concatenation(t4, s5, t5)  BY <2>1, Joined
  <2> HIDE DEF t5
  <2>3. QED  BY <2>1, <2>2 DEF Concatenation
<1> HIDE DEF t5
<1>10. \A j \in 1..(p + m) : t5[j] = t3[j]
  <2>1. ASSUME NEW j \in 1..(p + m)
        PROVE  j \in 1..(n - 1 + m)
    OBVIOUS
  <2>2. QED  BY <2>1, <1>8, <1>9
<1>11. t5[1] = a
  <2>1. 1 \in 1..(p + m) /\ 1 \in 1..p /\ 1 \in 1..1  OBVIOUS
  <2>2. QED  BY <2>1, <1>2, <1>6, <1>7, <1>10
<1>12. t5[n + m] = d
  <2>1. n + m = (n - 1 + m) + 1 /\ 1 \in 1..2  OBVIOUS
  <2>2. QED  BY <2>1, <1>5, <1>9
<1>13. ASSUME NEW k \in 1..m
       PROVE  t5[p + k] = ops[k]
  <2>1. p + k \in 1..(p + m)  OBVIOUS
  <2>2. QED  BY <2>1, <1>7, <1>10
<1>14. ASSUME NEW q \in 1..n, q # p
       PROVE  t5[Moved(n, m, p, q)] = b[q]
  <2>1. CASE q < p
    <3>1. Moved(n, m, p, q) = 1 + q /\ 1 + q \in 1..p /\ 1 + q \in 1..(p + m) /\ q \in 1..(p - 1)
      BY <2>1 DEF Moved
    <3>2. QED  BY <3>1, <1>3, <1>6, <1>7, <1>10
  <2>2. CASE q > p /\ q < n
    <3>1. PICK j \in 1..(n - 1 - p) : q = p + j
      <4>1. q - p \in 1..(n - 1 - p) /\ q = p + (q - p)  BY <2>2
      <4>2. QED  BY <4>1
    <3>2. Moved(n, m, p, q) = (p + m) + j /\ (p + m) + j \in 1..(n - 1 + m)
      BY <2>2, <3>1 DEF Moved
    <3>3. t5[(p + m) + j] = t4[(p + m) + j]  BY <3>2, <1>9
    <3>4. t4[(p + m) + j] = s4[j] /\ s4[j] = b[p + j]  BY <1>4, <1>8
    <3>5. QED  BY <3>1, <3>2, <3>3, <3>4
  <2>3. CASE q = n
    <3>1. Moved(n, m, p, q) = (n - 1 + m) + 2 /\ 2 \in 1..2  BY <2>3 DEF Moved
    <3>2. QED  BY <2>3, <3>1, <1>5, <1>9
  <2>4. QED  BY <1>14, <2>1, <2>2, <2>3
<1>15. Len(t5) = n + m + 1  BY <1>9
<1>16. InsertedShape(t5, n, m, p, b, ops, a, d)
  BY <1>11, <1>12, <1>13, <1>14, <1>15 DEF InsertedShape
<1>17. QED  BY <1>1, <1>9, <1>16

\* Everything in the new block is new or was moved, in order.
LEMMA MovedInOrder ==
  ASSUME NEW n \in Nat, NEW m \in Nat, NEW p \in 1..(n - 1)
  PROVE  /\ \A r \in 1..(n + m + 1) : \/ r = 1 \/ r = n + m \/ (\E k \in 1..m : r = p + k)
                                      \/ \E q \in 1..n : q # p /\ r = Moved(n, m, p, q)
         /\ \A q \in 1..n : q # p =>
              /\ Moved(n, m, p, q) \in 2..(n + m + 1) /\ Moved(n, m, p, q) # n + m
              /\ Moved(n, m, p, q) = n + m + 1 <=> q = n
              /\ q < p => Moved(n, m, p, q) <= p
              /\ q > p => p + m < Moved(n, m, p, q)
              /\ q # n => Moved(n, m, p, q) < n + m
         /\ \A q, r \in 1..n : q # p /\ r # p /\ q < r => Moved(n, m, p, q) < Moved(n, m, p, r)
<1>1. ASSUME NEW r \in 1..(n + m + 1), r # 1, r # n + m, ~\E k \in 1..m : r = p + k
      PROVE  \E q \in 1..n : q # p /\ r = Moved(n, m, p, q)
  <2>1. CASE r <= p
    <3>1. r - 1 \in 1..n /\ r - 1 # p /\ r - 1 < p /\ r = (r - 1) + 1  BY <1>1, <2>1
    <3>2. QED  BY <3>1 DEF Moved
  <2>2. CASE r > p /\ r <= p + m
    <3>1. r - p \in 1..m /\ r = p + (r - p)  BY <2>2
    <3>2. QED  BY <3>1, <1>1
  <2>3. CASE r > p + m /\ r < n + m
    <3>1. r - m \in 1..n /\ r - m # p /\ ~(r - m < p) /\ r - m < n /\ r = (r - m) + m  BY <2>3
    <3>2. QED  BY <3>1 DEF Moved
  <2>4. CASE r = n + m + 1
    <3>1. n \in 1..n /\ n # p /\ ~(n < p) /\ ~(n < n)  OBVIOUS
    <3>2. QED  BY <3>1, <2>4 DEF Moved
  <2>5. QED  BY <1>1, <2>1, <2>2, <2>3, <2>4
<1>2. ASSUME NEW q \in 1..n, q # p
      PROVE  /\ Moved(n, m, p, q) \in 2..(n + m + 1) /\ Moved(n, m, p, q) # n + m
             /\ Moved(n, m, p, q) = n + m + 1 <=> q = n
             /\ q < p => Moved(n, m, p, q) <= p
             /\ q > p => p + m < Moved(n, m, p, q)
             /\ q # n => Moved(n, m, p, q) < n + m
  BY <1>2 DEF Moved
<1>3. ASSUME NEW q \in 1..n, NEW r \in 1..n, q # p, r # p, q < r
      PROVE  Moved(n, m, p, q) < Moved(n, m, p, r)
  BY <1>3 DEF Moved
<1>4. QED  BY <1>1, <1>2, <1>3

-----------------------------------------------------------------------------
(* The conversions keep the invariant of the block                         *)

LEMMA IsSequenceIf ==
  ASSUME NEW S, NEW b \in Seq(S)
  PROVE  IsSequence(b)
<1>1. Len(b) \in Nat /\ DOMAIN b = 1..Len(b) /\ b = [j \in 1..Len(b) |-> b[j]]  OBVIOUS
<1>2. \A j \in 1..Len(b) : b[j] \in {b[p] : p \in DOMAIN b}  BY <1>1
<1>3. QED  BY <1>1, <1>2, IsASequence DEF IsSequence

LEMMA SequenceIs ==
  ASSUME NEW b, IsSequence(b)
  PROVE  Len(b) \in Nat /\ DOMAIN b = 1..Len(b)
BY DEF IsSequence

\* The first operation that is not converted has its operands in buffers.
LEMMA OperandsBuffered ==
  ASSUME WellFormed(main), BlockInv(block), NEW p \in DOMAIN block, block[p].do = "toy", p # Len(block),
         \A q \in 1..(p - 1) : block[q].do # "toy",
         NEW j \in DOMAIN main[block[p].id].ins
  PROVE  /\ \E a \in DOMAIN block : a < p /\ Starts(block[a], main[block[p].id].ins[j])
         /\ \E d \in DOMAIN block : p < d /\ Ends(block[d], main[block[p].id].ins[j])
<1> DEFINE i == block[p].id
           y == main[i].ins[j]
<1>1. Len(block) \in Nat /\ DOMAIN block = 1..Len(block)  BY SequenceIs DEF BlockInv
<1>2. i \in DOMAIN main  BY DEF BlockInv, ToysInOrder
<1>3. DOMAIN main = 1..Len(main) /\ Len(main) \in Nat  BY WellFormedIs
<1>4. y \in 1..(i - 1) /\ main[y].kind \notin NoResult \cup {"erased"}
  <2>1. OpOK(main, i)  BY <1>2, WellFormedIs
  <2>2. QED  BY <2>1 DEF OpOK
<1> HIDE DEF i, y
<1>5. y \in DOMAIN main  BY <1>2, <1>3, <1>4
<1>6. ~IsToy(block, y)
  <2> SUFFICES ASSUME NEW q \in DOMAIN block, block[q].do = "toy", block[q].id = y
               PROVE  FALSE
    BY DEF IsToy
  <2>1. ~(q < p)  BY <1>1
  <2>2. q # p  BY <1>2, <1>3, <1>4 DEF i
  <2>3. p < q  BY <1>1, <2>1, <2>2
  <2>4. i < y  BY <2>3 DEF BlockInv, ToysInOrder, i
  <2>5. QED  BY <2>4, <1>2, <1>3, <1>4
<1>7. HasBuffer(block, y)  BY <1>4, <1>5, <1>6 DEF BlockInv, ValuesReady
<1>8. QED  BY <1>7 DEF HasBuffer, i, y

LEMMA RecordsAre ==
  ASSUME NEW i, NEW dims
  PROVE  /\ Alloc(i, dims).do = "alloc" /\ Alloc(i, dims).buf = i /\ Names(Alloc(i, dims)) = {i}
         /\ Dealloc(i).do = "dealloc" /\ Dealloc(i).buf = i /\ Names(Dealloc(i)) = {i}
<1>1. /\ Alloc(i, dims).do = "alloc" /\ Alloc(i, dims).buf = i
      /\ Dealloc(i).do = "dealloc" /\ Dealloc(i).buf = i
  BY DEF Alloc, Dealloc
<1>2. QED  BY <1>1 DEF Names

LEMMA InsertKeeps ==
  ASSUME WellFormed(main), BlockInv(block), NEW p \in DOMAIN block, block[p].do = "toy",
         \A q \in 1..(p - 1) : block[q].do # "toy",
         NEW i, i = block[p].id, main[i].kind # "return",
         NEW dims, NEW S, NEW ops \in Seq(S),
         \A k \in DOMAIN ops : /\ ops[k].do \in {"store", "loops"}
                               /\ Names(ops[k]) \subseteq {i} \cup {main[i].ins[j] : j \in DOMAIN main[i].ins}
  PROVE  BlockInv(Inserted(block, p, ops, Alloc(i, dims), Dealloc(i)))
<1> DEFINE n == Len(block)
           m == Len(ops)
           new == Inserted(block, p, ops, Alloc(i, dims), Dealloc(i))
           At(q) == Moved(n, m, p, q)
           T == S \cup {block[q] : q \in DOMAIN block} \cup {Alloc(i, dims), Dealloc(i)}
<1>1. n \in Nat /\ DOMAIN block = 1..n  BY SequenceIs DEF BlockInv
<1>2. m \in Nat /\ DOMAIN ops = 1..m  OBVIOUS
<1>3. i \in DOMAIN main /\ (i = Len(main) <=> p = n)  BY DEF BlockInv, ToysInOrder
<1>4. p \in 1..(n - 1)
  <2>1. i # Len(main)
    <3>1. OpOK(main, i)  BY <1>3, WellFormedIs
    <3>2. QED  BY <3>1 DEF OpOK
  <2>2. QED  BY <1>1, <1>3, <2>1
<1>5. /\ new \in Seq(T) /\ Len(new) = n + m + 1
      /\ new[1] = Alloc(i, dims) /\ new[n + m] = Dealloc(i)
      /\ \A k \in 1..m : new[p + k] = ops[k]
      /\ \A q \in 1..n : q # p => new[At(q)] = block[q]
  <2>1. block \in Seq(T) /\ ops \in Seq(T)
    <3>1. block \in Seq({block[q] : q \in DOMAIN block})  BY DEF BlockInv, IsSequence
    <3>2. QED  BY <3>1
  <2>2. Alloc(i, dims) \in T /\ Dealloc(i) \in T  OBVIOUS
  <2> HIDE DEF T, n, m
  <2>3. Len(block) = n /\ Len(ops) = m  BY DEF n, m
  <2>4. /\ new \in Seq(T)
        /\ InsertedShape(new, n, m, p, block, ops, Alloc(i, dims), Dealloc(i))
    BY <1>1, <1>2, <1>4, <2>1, <2>2, <2>3, InsertedIs
  <2> HIDE DEF new
  <2>5. QED  BY <2>4 DEF InsertedShape
<1>6. /\ \A r \in 1..(n + m + 1) : \/ r = 1 \/ r = n + m \/ (\E k \in 1..m : r = p + k)
                                   \/ \E q \in 1..n : q # p /\ r = At(q)
      /\ \A q \in 1..n : q # p =>
           /\ At(q) \in 2..(n + m + 1) /\ At(q) # n + m
           /\ At(q) = n + m + 1 <=> q = n
           /\ q < p => At(q) <= p
           /\ q > p => p + m < At(q)
           /\ q # n => At(q) < n + m
      /\ \A q, r \in 1..n : q # p /\ r # p /\ q < r => At(q) < At(r)
  BY <1>1, <1>2, <1>4, MovedInOrder
<1> HIDE DEF n, m, new, At, T
<1>7. IsSequence(new) /\ DOMAIN new = 1..(n + m + 1)
  BY <1>5, IsSequenceIf, SequenceIs
<1>8. /\ new[1].do = "alloc" /\ new[1].buf = i /\ Names(new[1]) = {i}
      /\ new[n + m].do = "dealloc" /\ new[n + m].buf = i /\ Names(new[n + m]) = {i}
  BY <1>5, RecordsAre
<1>9. ASSUME NEW r \in DOMAIN new, r # 1, r # n + m
      PROVE  \/ \E k \in 1..m : r = p + k /\ new[r] = ops[k]
             \/ \E q \in 1..n : q # p /\ r = At(q) /\ new[r] = block[q]
  <2>1. r \in 1..(n + m + 1)  BY <1>7
  <2>2. (\E k \in 1..m : r = p + k) \/ \E q \in 1..n : q # p /\ r = At(q)  BY <2>1, <1>6, <1>9
  <2>3. ASSUME NEW k \in 1..m, r = p + k
        PROVE  r = p + k /\ new[r] = ops[k]
    BY <2>3, <1>5
  <2>4. ASSUME NEW q \in 1..n, q # p, r = At(q)
        PROVE  q # p /\ r = At(q) /\ new[r] = block[q]
    BY <2>4, <1>5
  <2>5. QED  BY <2>2, <2>3, <2>4
\* what has to do with no buffer of i was there before
<1>10. \A q \in 1..n : q # p => /\ block[q].do \in {"alloc", "dealloc"} => block[q].buf # i
                                /\ block[q].do = "toy" => p < q /\ block[q].id # i
  <2>1. ASSUME NEW q \in 1..n, q # p, block[q].do \in {"alloc", "dealloc"}
        PROVE  block[q].buf # i
    BY <1>1, <2>1 DEF BlockInv, ToysInOrder
  <2>2. ASSUME NEW q \in 1..n, q # p, block[q].do = "toy"
        PROVE  p < q /\ block[q].id # i
    <3>1. ~(q \in 1..(p - 1))  BY <2>2
    <3>2. p < q  BY <3>1, <2>2, <1>1, <1>4
    <3>3. i < block[q].id /\ block[q].id \in DOMAIN main  BY <3>2, <2>2, <1>1 DEF BlockInv, ToysInOrder
    <3>4. DOMAIN main = 1..Len(main) /\ Len(main) \in Nat  BY WellFormedIs
    <3>5. QED  BY <3>2, <3>3, <3>4, <1>3
  <2>3. QED  BY <2>1, <2>2
<1>11. ASSUME NEW r \in DOMAIN new, new[r].do \in {"alloc", "dealloc", "toy"}, r # 1, r # n + m
       PROVE  \E q \in 1..n : q # p /\ r = At(q) /\ new[r] = block[q]
  <2>1. \A k \in 1..m : ops[k].do \notin {"alloc", "dealloc", "toy"}  BY <1>2
  <2>2. QED  BY <2>1, <1>9, <1>11
<1>12. UsesBetween(new)
  <2> SUFFICES ASSUME NEW r \in DOMAIN new, NEW x \in Names(new[r])
               PROVE  Between(new, r, x)
    BY DEF UsesBetween
  <2>1. 1 \in DOMAIN new /\ n + m \in DOMAIN new /\ r >= 1 /\ r \in Nat  BY <1>1, <1>2, <1>4, <1>7
  <2>2. CASE x = i /\ r <= n + m
    <3>1. Starts(new[1], x) /\ Ends(new[n + m], x)  BY <2>2, <1>8 DEF Starts, Ends
    <3>2. QED  BY <2>1, <2>2, <3>1 DEF Between
  <2>3. CASE \E k \in 1..m : r = p + k /\ new[r] = ops[k]
    <3>1. PICK k \in 1..m : r = p + k /\ new[r] = ops[k]  BY <2>3
    <3>2. r <= n + m  BY <3>1, <1>1, <1>2, <1>4
    <3>3. x = i \/ \E j \in DOMAIN main[i].ins : x = main[i].ins[j]
      <4>1. Names(ops[k]) \subseteq {i} \cup {main[i].ins[j] : j \in DOMAIN main[i].ins}  BY <3>1, <1>2
      <4>2. QED  BY <4>1, <3>1
    <3>4. ASSUME NEW j \in DOMAIN main[i].ins, x = main[i].ins[j]
          PROVE  Between(new, r, x)
      <4>1. p # Len(block)  BY <1>1, <1>4 DEF n
      <4>2. PICK a \in DOMAIN block, d \in DOMAIN block : a < p /\ Starts(block[a], x) /\ p < d /\ Ends(block[d], x)
        BY <4>1, <3>4, OperandsBuffered
      <4>3. a \in 1..n /\ d \in 1..n /\ a # p /\ d # p  BY <4>2, <1>1, <1>4
      <4>4. At(a) <= p /\ p + m < At(d) /\ At(a) \in DOMAIN new /\ At(d) \in DOMAIN new
        BY <4>2, <4>3, <1>1, <1>2, <1>4, <1>6, <1>7
      <4>5. new[At(a)] = block[a] /\ new[At(d)] = block[d]  BY <4>3, <1>5
      <4>6. At(a) <= r /\ r <= At(d)  BY <4>4, <3>1, <1>1, <1>2, <1>4, <1>7
      <4>7. QED  BY <4>2, <4>4, <4>5, <4>6 DEF Between
    <3>5. QED  BY <2>2, <3>2, <3>3, <3>4
  <2>4. CASE \E q \in 1..n : q # p /\ r = At(q) /\ new[r] = block[q]
    <3>1. PICK q \in 1..n : q # p /\ r = At(q) /\ new[r] = block[q]  BY <2>4
    <3>2. x \in Names(block[q])  BY <3>1
    <3>3. PICK a \in DOMAIN block, d \in DOMAIN block : a <= q /\ Starts(block[a], x) /\ q <= d /\ Ends(block[d], x)
      BY <3>2, <1>1 DEF BlockInv, UsesBetween, Between
    <3>4. a \in 1..n /\ d \in 1..n /\ a # p /\ d # p  BY <3>3, <1>1 DEF Starts, Ends
    <3>5. At(a) <= At(q) /\ At(q) <= At(d) /\ At(a) \in DOMAIN new /\ At(d) \in DOMAIN new
      <4>1. a = q \/ At(a) < At(q)  BY <3>1, <3>3, <3>4, <1>1, <1>6
      <4>2. d = q \/ At(q) < At(d)  BY <3>1, <3>3, <3>4, <1>1, <1>6
      <4>3. At(a) \in 1..(n + m + 1) /\ At(d) \in 1..(n + m + 1) /\ At(q) \in 1..(n + m + 1)
        BY <3>1, <3>4, <1>1, <1>2, <1>6
      <4>4. QED  BY <4>1, <4>2, <4>3, <1>1, <1>2, <1>7
    <3>6. new[At(a)] = block[a] /\ new[At(d)] = block[d]  BY <3>4, <1>5
    <3>7. QED  BY <3>1, <3>3, <3>5, <3>6 DEF Between
  <2>5. CASE r = 1 \/ r = n + m
    <3>1. x = i /\ r <= n + m  BY <2>5, <1>8, <1>1, <1>2, <1>4
    <3>2. QED  BY <3>1, <2>2
  <2>6. QED  BY <2>3, <2>4, <2>5, <1>9
<1>13. Once(new)
  <2> SUFFICES ASSUME NEW r1 \in DOMAIN new, NEW r2 \in DOMAIN new, new[r1].do = new[r2].do,
                      new[r1].do \in {"alloc", "dealloc"}, new[r1].buf = new[r2].buf
               PROVE  r1 = r2
    BY DEF Once
  <2>1. ASSUME NEW r \in DOMAIN new, new[r].do \in {"alloc", "dealloc"}, r # 1, r # n + m
        PROVE  new[r].buf # i
    <3>1. PICK q \in 1..n : q # p /\ r = At(q) /\ new[r] = block[q]  BY <2>1, <1>11
    <3>2. QED  BY <3>1, <2>1, <1>10
  <2>2. CASE new[r1].buf = i
    <3>1. (r1 = 1 \/ r1 = n + m) /\ (r2 = 1 \/ r2 = n + m)  BY <2>1, <2>2
    <3>2. QED  BY <3>1, <1>8
  <2>3. CASE new[r1].buf # i
    <3>1. r1 # 1 /\ r1 # n + m /\ r2 # 1 /\ r2 # n + m  BY <2>3, <1>8
    <3>2. PICK q1 \in 1..n : q1 # p /\ r1 = At(q1) /\ new[r1] = block[q1]  BY <3>1, <1>11
    <3>3. PICK q2 \in 1..n : q2 # p /\ r2 = At(q2) /\ new[r2] = block[q2]  BY <3>1, <1>11
    <3>4. q1 = q2  BY <3>2, <3>3, <1>1 DEF BlockInv, Once
    <3>5. QED  BY <3>2, <3>3, <3>4
  <2>4. QED  BY <2>2, <2>3
<1>14. \A r \in DOMAIN new : new[r].do = "toy" =>
         \E q \in 1..n : q # p /\ r = At(q) /\ new[r] = block[q] /\ block[q].do = "toy"
  <2> SUFFICES ASSUME NEW r \in DOMAIN new, new[r].do = "toy"
               PROVE  \E q \in 1..n : q # p /\ r = At(q) /\ new[r] = block[q] /\ block[q].do = "toy"
    OBVIOUS
  <2>1. r # 1 /\ r # n + m  BY <1>8
  <2>2. QED  BY <2>1, <1>11
<1>15. ToysInOrder(new)
  <2> SUFFICES ASSUME NEW r \in DOMAIN new, new[r].do = "toy"
               PROVE  /\ new[r].id \in DOMAIN main
                      /\ new[r].id = Len(main) <=> r = Len(new)
                      /\ \A s \in DOMAIN new : /\ new[s].do = "toy" /\ r < s => new[r].id < new[s].id
                                               /\ new[s].do \in {"alloc", "dealloc"} => new[s].buf # new[r].id
    BY DEF ToysInOrder
  <2>1. PICK q \in 1..n : q # p /\ r = At(q) /\ new[r] = block[q] /\ block[q].do = "toy"  BY <1>14
  <2>2. /\ block[q].id \in DOMAIN main
        /\ block[q].id = Len(main) <=> q = n
        /\ \A s \in 1..n : /\ block[s].do = "toy" /\ q < s => block[q].id < block[s].id
                           /\ block[s].do \in {"alloc", "dealloc"} => block[s].buf # block[q].id
    BY <2>1, <1>1 DEF BlockInv, ToysInOrder, n
  <2>3. new[r].id = Len(main) <=> r = Len(new)  BY <2>1, <2>2, <1>5, <1>6
  <2>4. ASSUME NEW s \in DOMAIN new, new[s].do = "toy", r < s
        PROVE  new[r].id < new[s].id
    <3>1. PICK t \in 1..n : t # p /\ s = At(t) /\ new[s] = block[t] /\ block[t].do = "toy"  BY <2>4, <1>14
    <3>2. t # q /\ ~(t < q)
      <4>1. At(q) \in 1..(n + m + 1) /\ At(t) \in 1..(n + m + 1)  BY <2>1, <3>1, <1>7
      <4>2. t < q => At(t) < At(q)  BY <2>1, <3>1, <1>6
      <4>3. QED  BY <4>1, <4>2, <2>1, <2>4, <3>1, <1>1, <1>2
    <3>3. q < t  BY <3>2, <1>1
    <3>4. QED  BY <3>1, <3>3, <2>1, <2>2
  <2>5. ASSUME NEW s \in DOMAIN new, new[s].do \in {"alloc", "dealloc"}
        PROVE  new[s].buf # new[r].id
    <3>1. CASE s = 1 \/ s = n + m
      <4>1. new[s].buf = i  BY <3>1, <1>8
      <4>2. new[r].id # i  BY <2>1, <1>10
      <4>3. QED  BY <4>1, <4>2
    <3>2. CASE s # 1 /\ s # n + m
      <4>1. PICK t \in 1..n : t # p /\ s = At(t) /\ new[s] = block[t]  BY <2>5, <3>2, <1>11
      <4>2. QED  BY <4>1, <2>1, <2>2, <2>5
    <3>3. QED  BY <3>1, <3>2
  <2>6. QED  BY <2>1, <2>2, <2>3, <2>4, <2>5
<1>16. ValuesReady(new)
  <2> SUFFICES ASSUME NEW y \in DOMAIN main, main[y].kind \notin NoResult \cup {"erased"}
               PROVE  IsToy(new, y) \/ HasBuffer(new, y)
    BY DEF ValuesReady
  <2>1. CASE y = i
    <3>1. 1 \in DOMAIN new /\ n + m \in DOMAIN new  BY <1>1, <1>2, <1>4, <1>7
    <3>2. Starts(new[1], y) /\ Ends(new[n + m], y)  BY <2>1, <1>8 DEF Starts, Ends
    <3>3. \A r \in DOMAIN new : new[r].do = "toy" => 1 < r /\ (r # Len(new) => r < n + m)
      <4> SUFFICES ASSUME NEW r \in DOMAIN new, new[r].do = "toy"
                   PROVE  1 < r /\ (r # Len(new) => r < n + m)
        OBVIOUS
      <4>1. PICK q \in 1..n : q # p /\ r = At(q)  BY <1>14
      <4>2. At(q) \in 2..(n + m + 1) /\ (At(q) = n + m + 1 <=> q = n) /\ (q # n => At(q) < n + m)  BY <4>1, <1>6
      <4>3. QED  BY <4>1, <4>2, <1>1, <1>2, <1>5
    <3>4. HasBuffer(new, y)  BY <3>1, <3>2, <3>3 DEF HasBuffer
    <3>5. QED  BY <3>4
  <2>2. CASE y # i /\ IsToy(block, y)
    <3>1. PICK q \in 1..n : block[q].do = "toy" /\ block[q].id = y  BY <2>2, <1>1 DEF IsToy
    <3>2. q # p  BY <3>1, <2>2
    <3>3. At(q) \in DOMAIN new /\ new[At(q)] = block[q]
      <4>1. At(q) \in 2..(n + m + 1) /\ new[At(q)] = block[q]  BY <3>2, <1>5, <1>6
      <4>2. QED  BY <4>1, <1>1, <1>2, <1>7
    <3>4. QED  BY <3>1, <3>3 DEF IsToy
  <2>3. CASE HasBuffer(block, y)
    <3>1. PICK a \in DOMAIN block, d \in DOMAIN block :
            /\ Starts(block[a], y) /\ \A q \in DOMAIN block : block[q].do = "toy" => a < q
            /\ Ends(block[d], y) /\ \A q \in DOMAIN block : block[q].do = "toy" /\ q # Len(block) => q < d
      BY <2>3 DEF HasBuffer
    <3>2. a \in 1..n /\ d \in 1..n /\ a # p /\ d # p  BY <3>1, <1>1 DEF Starts, Ends
    <3>3. /\ At(a) \in DOMAIN new /\ new[At(a)] = block[a]
          /\ At(d) \in DOMAIN new /\ new[At(d)] = block[d]
      <4>1. /\ At(a) \in 2..(n + m + 1) /\ new[At(a)] = block[a]
            /\ At(d) \in 2..(n + m + 1) /\ new[At(d)] = block[d]
        BY <3>2, <1>5, <1>6
      <4>2. QED  BY <4>1, <1>1, <1>2, <1>7
    <3>4. \A r \in DOMAIN new : new[r].do = "toy" => At(a) < r /\ (r # Len(new) => r < At(d))
      <4> SUFFICES ASSUME NEW r \in DOMAIN new, new[r].do = "toy"
                   PROVE  At(a) < r /\ (r # Len(new) => r < At(d))
        OBVIOUS
      <4>1. PICK q \in 1..n : q # p /\ r = At(q) /\ block[q].do = "toy"  BY <1>14
      <4>2. a < q /\ (q # n => q < d)  BY <4>1, <3>1, <1>1 DEF n
      <4>3. At(a) < At(q)  BY <4>1, <4>2, <3>2, <1>6
      <4>4. r # Len(new) => q # n  BY <4>1, <1>5, <1>6
      <4>5. q # n => At(q) < At(d)  BY <4>1, <4>2, <3>2, <1>6
      <4>6. QED  BY <4>1, <4>3, <4>4, <4>5
    <3>5. HasBuffer(new, y)  BY <3>1, <3>3, <3>4 DEF HasBuffer
    <3>6. QED  BY <3>5
  <2>4. QED  BY <2>1, <2>2, <2>3 DEF BlockInv, ValuesReady
<1>17. BlockInv(new)  BY <1>7, <1>12, <1>13, <1>15, <1>16 DEF BlockInv
<1>18. QED  BY <1>17 DEF new

\* An operation that needs no buffer of its own is replaced where it stands.
LEMMA ReplacedKeeps ==
  ASSUME WellFormed(main), BlockInv(block), NEW p \in DOMAIN block,
         block[p].do \notin {"alloc", "dealloc"},
         block[p].do = "toy" => main[block[p].id].kind \in NoResult,
         NEW o, o.do \notin {"toy", "alloc", "dealloc"}, \A x \in Names(o) : Between(block, p, x)
  PROVE  BlockInv([block EXCEPT ![p] = o])
<1> DEFINE new == [block EXCEPT ![p] = o]
<1>1. Len(block) \in Nat /\ DOMAIN block = 1..Len(block)  BY SequenceIs DEF BlockInv
<1>2. DOMAIN new = DOMAIN block /\ new[p] = o /\ \A q \in DOMAIN block : q # p => new[q] = block[q]
  OBVIOUS
<1>3. IsSequence(new) /\ Len(new) = Len(block)
  <2> DEFINE S == {new[q] : q \in 1..Len(block)}
  <2>1. new = [q \in 1..Len(block) |-> new[q]] /\ \A q \in 1..Len(block) : new[q] \in S
    BY <1>1
  <2> HIDE DEF new, S
  <2>2. new \in Seq(S) /\ Len(new) = Len(block)  BY <1>1, <2>1, IsASequence
  <2>3. QED  BY <2>2, IsSequenceIf
<1> HIDE DEF new
<1>4. \A q \in DOMAIN block : /\ new[q].do = "toy" <=> q # p /\ block[q].do = "toy"
                              /\ new[q].do \in {"alloc", "dealloc"} => q # p
                              /\ block[q].do \in {"alloc", "dealloc"} => q # p
  BY <1>2
<1>5. ASSUME NEW q, NEW x, Between(block, q, x)
      PROVE  Between(new, q, x)
  BY <1>2, <1>4, <1>5 DEF Between, Starts, Ends
<1>6. UsesBetween(new)
  <2> SUFFICES ASSUME NEW q \in DOMAIN new, NEW x \in Names(new[q])
               PROVE  Between(new, q, x)
    BY DEF UsesBetween
  <2>1. CASE q = p  BY <2>1, <1>2, <1>5
  <2>2. CASE q # p
    <3>1. x \in Names(block[q])  BY <2>2, <1>2
    <3>2. QED  BY <3>1, <1>2, <1>5 DEF BlockInv, UsesBetween
  <2>3. QED  BY <2>1, <2>2
<1>7. Once(new)  BY <1>2, <1>4 DEF BlockInv, Once
<1>8. ToysInOrder(new)
  <2> SUFFICES ASSUME NEW q \in DOMAIN new, new[q].do = "toy"
               PROVE  /\ new[q].id \in DOMAIN main
                      /\ new[q].id = Len(main) <=> q = Len(new)
                      /\ \A r \in DOMAIN new : /\ new[r].do = "toy" /\ q < r => new[q].id < new[r].id
                                               /\ new[r].do \in {"alloc", "dealloc"} => new[r].buf # new[q].id
    BY DEF ToysInOrder
  <2>1. q # p /\ block[q].do = "toy" /\ new[q] = block[q]  BY <1>2, <1>4
  <2>2. QED  BY <2>1, <1>2, <1>3, <1>4 DEF BlockInv, ToysInOrder
<1>9. ValuesReady(new)
  <2> SUFFICES ASSUME NEW y \in DOMAIN main, main[y].kind \notin NoResult \cup {"erased"}
               PROVE  IsToy(new, y) \/ HasBuffer(new, y)
    BY DEF ValuesReady
  <2>1. CASE IsToy(block, y)
    <3>1. PICK q \in DOMAIN block : block[q].do = "toy" /\ block[q].id = y  BY <2>1 DEF IsToy
    <3>2. q # p  BY <3>1
    <3>3. QED  BY <3>1, <3>2, <1>2 DEF IsToy
  <2>2. CASE HasBuffer(block, y)
    <3>1. PICK a \in DOMAIN block, d \in DOMAIN block :
            /\ Starts(block[a], y) /\ \A q \in DOMAIN block : block[q].do = "toy" => a < q
            /\ Ends(block[d], y) /\ \A q \in DOMAIN block : block[q].do = "toy" /\ q # Len(block) => q < d
      BY <2>2 DEF HasBuffer
    <3>2. new[a] = block[a] /\ new[d] = block[d]  BY <3>1, <1>2, <1>4 DEF Starts, Ends
    <3>3. HasBuffer(new, y)  BY <3>1, <3>2, <1>2, <1>3, <1>4 DEF HasBuffer
    <3>4. QED  BY <3>3
  <2>3. QED  BY <2>1, <2>2 DEF BlockInv, ValuesReady
<1>10. QED  BY <1>3, <1>6, <1>7, <1>8, <1>9 DEF BlockInv, new

\* The block that the conversion starts with.
LEMMA FirstBlock ==
  ASSUME WellFormed(main), Parameters(main) = {}
  PROVE  BlockInv([i \in DOMAIN main |-> IF Is(i, "erased") THEN Nothing ELSE Toy(i)])
<1> DEFINE new == [i \in DOMAIN main |-> IF Is(i, "erased") THEN Nothing ELSE Toy(i)]
           S == {new[q] : q \in 1..Len(main)}
<1>1. Len(main) \in Nat /\ DOMAIN main = 1..Len(main)  BY WellFormedIs
<1>2. new = [q \in 1..Len(main) |-> new[q]] /\ DOMAIN new = DOMAIN main /\ \A q \in 1..Len(main) : new[q] \in S
  BY <1>1
<1>3. \A i \in DOMAIN main : new[i] = IF Is(i, "erased") THEN Nothing ELSE Toy(i)  OBVIOUS
<1> HIDE DEF new, S
<1>4. IsSequence(new) /\ Len(new) = Len(main)
  BY <1>1, <1>2, IsASequence, IsSequenceIf
<1>5. \A i \in DOMAIN main : /\ Names(new[i]) = {} /\ new[i].do \in {"toy", "nothing"}
                             /\ new[i].do = "toy" <=> ~Is(i, "erased")
                             /\ new[i].do = "toy" => new[i].id = i
  <2>1. Nothing.do = "nothing" /\ \A i : Toy(i).do = "toy" /\ Toy(i).id = i  BY DEF Nothing, Toy
  <2>2. Names(Nothing) = {} /\ \A i : Names(Toy(i)) = {}  BY <2>1 DEF Names
  <2>3. QED  BY <1>3, <2>1, <2>2
<1>6. UsesBetween(new)  BY <1>2, <1>5 DEF UsesBetween
<1>7. Once(new)  BY <1>2, <1>5 DEF Once
<1>8. ToysInOrder(new)  BY <1>2, <1>4, <1>5 DEF ToysInOrder
<1>9. ValuesReady(new)
  <2>1. ASSUME NEW y \in DOMAIN main, main[y].kind # "erased"
        PROVE  IsToy(new, y)
    BY <2>1, <1>2, <1>5 DEF IsToy, Is
  <2>2. QED  BY <2>1 DEF ValuesReady
<1>10. QED  BY <1>4, <1>6, <1>7, <1>8, <1>9 DEF BlockInv, new

LEMMA StoresAre ==
  ASSUME NEW b, NEW at, NEW v
  PROVE  Store(b, at, v).do = "store" /\ Names(Store(b, at, v)) = {b}
BY DEF Store, Names

Sources(from) == {from[k].buf : k \in DOMAIN from}

LEMMA LoopsAre ==
  ASSUME NEW bounds, NEW op, NEW from, NEW b, NEW at
  PROVE  Loops(bounds, op, from, b, at).do = "loops"
         /\ Names(Loops(bounds, op, from, b, at)) = {b} \cup Sources(from)
<1>1. LET o == Loops(bounds, op, from, b, at)
      IN  o.do = "loops" /\ o.buf = b /\ o.from = from
  BY DEF Loops
<1>2. QED  BY <1>1 DEF Names, Sources

LEMMA InsertStep ==
  ASSUME CompilerInv, NEW p \in DOMAIN block, NEW kinds, "return" \notin kinds, Converting(p, kinds),
         NEW S, NEW ops \in Seq(S), Insert(p, ops),
         \A k \in DOMAIN ops :
           /\ ops[k].do \in {"store", "loops"}
           /\ Names(ops[k]) \subseteq {block[p].id} \cup {main[block[p].id].ins[j] : j \in DOMAIN main[block[p].id].ins}
  PROVE  CompilerInv'
<1> DEFINE i == block[p].id
<1>1. /\ Running("affine") /\ block[p].do = "toy" /\ \A q \in 1..(p - 1) : block[q].do # "toy"
      /\ main[i].kind # "return"
  BY DEF Converting
<1>2. block # <<>>  OBVIOUS
<1>3. WellFormed(main) /\ BlockInv(block)  BY <1>2 DEF CompilerInv
<1>4. ToBlock(Inserted(block, p, ops, Alloc(i, DimsOf(i)), Dealloc(i)))
  BY DEF Insert, Inserted
<1> HIDE DEF i
<1>5. BlockInv(Inserted(block, p, ops, Alloc(i, DimsOf(i)), Dealloc(i)))
  <2>1. i = block[p].id  BY DEF i
  <2>2. QED  BY <1>1, <1>3, <2>1, InsertKeeps
<1>6. QED  BY <1>1, <1>4, <1>5, ToBlockKeeps

LEMMA OneLoad ==
  ASSUME NEW x, NEW ivs
  PROVE  Sources(<<Load(x, ivs)>>) = {x}
<1>1. Load(x, ivs).buf = x  BY DEF Load
<1>2. QED  BY <1>1 DEF Sources

LEMMA TwoLoads ==
  ASSUME NEW x, NEW y, NEW ivs, NEW jvs
  PROVE  Sources(<<Load(x, ivs), Load(y, jvs)>>) = {x, y}
<1>1. Load(x, ivs).buf = x /\ Load(y, jvs).buf = y  BY DEF Load
<1> DEFINE from == <<Load(x, ivs), Load(y, jvs)>>
<1>2. DOMAIN from = {1, 2} /\ from[1].buf = x /\ from[2].buf = y  BY <1>1
<1> HIDE DEF from
<1>3. Sources(from) = {x, y}  BY <1>2 DEF Sources
<1>4. QED  BY <1>3 DEF from

LEMMA NoLoad == Sources(<<>>) = {}
BY DEF Sources

\* The operation at p, and its operands.
LEMMA ConvertingAt ==
  ASSUME CompilerInv, NEW p \in DOMAIN block, NEW kinds, Converting(p, kinds)
  PROVE  /\ WellFormed(main) /\ BlockInv(block) /\ block[p].id \in DOMAIN main
         /\ Running("affine") /\ block[p].do = "toy" /\ main[block[p].id].kind \in kinds
         /\ \A q \in 1..(p - 1) : block[q].do # "toy"
<1>1. block # <<>>  OBVIOUS
<1>2. WellFormed(main) /\ BlockInv(block)  BY <1>1 DEF CompilerInv
<1>3. QED  BY <1>2 DEF Converting, BlockInv, ToysInOrder

LEMMA LoopsStep ==
  ASSUME CompilerInv, NEW p \in DOMAIN block, NEW kinds, "return" \notin kinds, Converting(p, kinds),
         NEW op, NEW from, LowerOpToLoops(p, op, from),
         Sources(from) \subseteq
           {main[block[p].id].ins[j] : j \in DOMAIN main[block[p].id].ins}
  PROVE  CompilerInv'
<1> DEFINE i == block[p].id
           o == Loops(DimsOf(i), op, from, i, Ivs(DimsOf(i)))
<1>1. Insert(p, <<o>>)  BY DEF LowerOpToLoops
<1>2. o.do = "loops" /\ Names(o) = {i} \cup Sources(from)  BY LoopsAre
<1> HIDE DEF o
<1>3. <<o>> \in Seq({o}) /\ DOMAIN <<o>> = {1} /\ <<o>>[1] = o  OBVIOUS
<1>4. \A k \in DOMAIN <<o>> : /\ <<o>>[k].do \in {"store", "loops"}
                              /\ Names(<<o>>[k]) \subseteq {i} \cup {main[i].ins[j] : j \in DOMAIN main[i].ins}
  BY <1>2, <1>3
<1>5. QED  BY <1>1, <1>3, <1>4, InsertStep

LEMMA ConvertConstantKeeps ==
  ASSUME CompilerInv, NEW p \in DOMAIN block, ConvertConstant(p)
  PROVE  CompilerInv'
<1> DEFINE i == block[p].id
           data == main[i].data
           ops == [k \in DOMAIN data |-> Store(i, Walk(DimsOf(i))[k], data[k])]
<1>1. Converting(p, {"constant"}) /\ Insert(p, ops)  BY DEF ConvertConstant
<1>2. i \in DOMAIN main /\ WellFormed(main)  BY <1>1, ConvertingAt
<1>3. Len(data) \in Nat /\ DOMAIN data = 1..Len(data)
  <2>1. main[i] \in Operations  BY <1>2, WellFormedIs
  <2>2. data \in Seq(Int)  BY <2>1, FieldsOf
  <2>3. QED  BY <2>2
<1>4. DOMAIN ops = DOMAIN data /\ \A k \in DOMAIN ops : ops[k] = Store(i, Walk(DimsOf(i))[k], data[k])
  OBVIOUS
<1>5. ops = [k \in 1..Len(data) |-> ops[k]]  BY <1>3
<1> HIDE DEF ops, data
<1>6. ops \in Seq({ops[k] : k \in 1..Len(data)})  BY <1>3, <1>5, IsASequence
<1>7. \A k \in DOMAIN ops : ops[k].do \in {"store", "loops"} /\ Names(ops[k]) = {i}
  BY <1>4, StoresAre
<1>8. "return" \notin {"constant"}  OBVIOUS
<1>9. QED  BY <1>1, <1>6, <1>7, <1>8, InsertStep

LEMMA ConvertBinaryKeeps ==
  ASSUME CompilerInv, NEW p \in DOMAIN block, ConvertBinary(p)
  PROVE  CompilerInv'
<1> DEFINE i == block[p].id
           from == <<Load(Lhs(i), Ivs(DimsOf(i))), Load(Rhs(i), Ivs(DimsOf(i)))>>
<1>1. Converting(p, {"add", "mul"}) /\ (Exit(Abort) \/ LowerOpToLoops(p, main[i].kind, from))
  BY DEF ConvertBinary
<1>2. i \in DOMAIN main /\ WellFormed(main) /\ main[i].kind \in {"add", "mul"}  BY <1>1, ConvertingAt
<1>3. Sources(from) = {Lhs(i), Rhs(i)}  BY TwoLoads
<1>4. {Lhs(i), Rhs(i)} \subseteq {main[i].ins[j] : j \in DOMAIN main[i].ins}
  <2>1. 1 \in DOMAIN main[i].ins /\ 2 \in DOMAIN main[i].ins  BY <1>2, TwoOperands
  <2>2. QED  BY <2>1 DEF Lhs, Rhs
<1>5. CASE Exit(Abort)
  <2>1. Abort \in Int /\ Abort # 0  BY DEF Abort
  <2>2. QED  BY <1>5, <2>1, ExitKeeps
<1>6. CASE LowerOpToLoops(p, main[i].kind, from)
  <2> HIDE DEF from
  <2>1. "return" \notin {"add", "mul"}  OBVIOUS
  <2>2. QED  BY <1>1, <1>3, <1>4, <1>6, <2>1, LoopsStep
<1>7. QED  BY <1>1, <1>5, <1>6

LEMMA ConvertTransposeKeeps ==
  ASSUME CompilerInv, NEW p \in DOMAIN block, ConvertTranspose(p)
  PROVE  CompilerInv'
<1> DEFINE i == block[p].id
           from == <<Load(Lhs(i), Reverse(Ivs(DimsOf(i))))>>
<1>1. Converting(p, {"transpose"}) /\ LowerOpToLoops(p, "copy", from)  BY DEF ConvertTranspose
<1>2. i \in DOMAIN main /\ WellFormed(main) /\ main[i].kind \in {"transpose"}  BY <1>1, ConvertingAt
<1>3. Sources(from) = {Lhs(i)}  BY OneLoad
<1>4. {Lhs(i)} \subseteq {main[i].ins[j] : j \in DOMAIN main[i].ins}
  <2>1. 1 \in DOMAIN main[i].ins  BY <1>2, OneOperand
  <2>2. QED  BY <2>1 DEF Lhs
<1> HIDE DEF from
<1>5. "return" \notin {"transpose"}  OBVIOUS
<1>6. QED  BY <1>1, <1>3, <1>4, <1>5, LoopsStep

LEMMA ConvertMatMulKeeps ==
  ASSUME CompilerInv, NEW p \in DOMAIN block, ConvertMatMul(p)
  PROVE  CompilerInv'
<1> DEFINE i == block[p].id
           zero == Loops(<<DimsOf(Lhs(i))[1], DimsOf(Rhs(i))[2]>>, "zero", <<>>, i, <<1, 2>>)
<1>1. Converting(p, {"matmul"}) /\ Insert(p, <<zero, Multiply(i)>>)  BY DEF ConvertMatMul
<1>2. i \in DOMAIN main /\ WellFormed(main) /\ main[i].kind \in {"matmul"}  BY <1>1, ConvertingAt
<1>3. {Lhs(i), Rhs(i)} \subseteq {main[i].ins[j] : j \in DOMAIN main[i].ins}
  <2>1. 1 \in DOMAIN main[i].ins /\ 2 \in DOMAIN main[i].ins  BY <1>2, TwoOperands
  <2>2. QED  BY <2>1 DEF Lhs, Rhs
<1>4. zero.do = "loops" /\ Names(zero) = {i}
  BY LoopsAre, NoLoad
<1>5. Multiply(i).do = "loops" /\ Names(Multiply(i)) = {i} \cup {Lhs(i), Rhs(i)}
  <2> DEFINE from == <<Load(Lhs(i), <<1, 3>>), Load(Rhs(i), <<3, 2>>)>>
             bounds == <<DimsOf(Lhs(i))[1], DimsOf(Rhs(i))[2], DimsOf(Lhs(i))[2]>>
             op == "multiply and add"
  <2>1. Multiply(i) = Loops(bounds, op, from, i, <<1, 2>>)  BY DEF Multiply
  <2>2. Sources(from) = {Lhs(i), Rhs(i)}  BY TwoLoads
  <2> HIDE DEF from, bounds, op
  <2>3. QED  BY <2>1, <2>2, LoopsAre
<1> HIDE DEF zero
<1>6. /\ <<zero, Multiply(i)>> \in Seq({zero, Multiply(i)}) /\ DOMAIN <<zero, Multiply(i)>> = {1, 2}
      /\ <<zero, Multiply(i)>>[1] = zero /\ <<zero, Multiply(i)>>[2] = Multiply(i)
  OBVIOUS
<1>7. \A k \in DOMAIN <<zero, Multiply(i)>> :
        /\ <<zero, Multiply(i)>>[k].do \in {"store", "loops"}
        /\ Names(<<zero, Multiply(i)>>[k]) \subseteq {i} \cup {main[i].ins[j] : j \in DOMAIN main[i].ins}
  BY <1>3, <1>4, <1>5, <1>6
<1>8. "return" \notin {"matmul"}  OBVIOUS
<1>9. QED  BY <1>1, <1>6, <1>7, <1>8, InsertStep

LEMMA ConvertPrintKeeps ==
  ASSUME CompilerInv, NEW p \in DOMAIN block, ConvertPrint(p)
  PROVE  CompilerInv'
<1> DEFINE i == block[p].id
           o == PrintOf(Lhs(i))
<1>1. Converting(p, {"print"}) /\ ToBlock([block EXCEPT ![p] = o])  BY DEF ConvertPrint
<1>2. /\ i \in DOMAIN main /\ WellFormed(main) /\ main[i].kind = "print" /\ BlockInv(block)
      /\ Running("affine") /\ block[p].do = "toy" /\ \A q \in 1..(p - 1) : block[q].do # "toy"
  BY <1>1, ConvertingAt
<1>3. 1 \in DOMAIN main[i].ins /\ Lhs(i) = main[i].ins[1]  BY <1>2, OneOperand DEF Lhs
<1>4. p # Len(block)
  <2>1. i # Len(main)
    <3>1. OpOK(main, i)  BY <1>2, WellFormedIs
    <3>2. QED  BY <3>1, <1>2 DEF OpOK
  <2>2. QED  BY <2>1, <1>2 DEF BlockInv, ToysInOrder
<1>5. Between(block, p, Lhs(i))
  <2>1. PICK a \in DOMAIN block, d \in DOMAIN block :
          a < p /\ Starts(block[a], Lhs(i)) /\ p < d /\ Ends(block[d], Lhs(i))
    BY <1>2, <1>3, <1>4, OperandsBuffered
  <2>2. Len(block) \in Nat /\ DOMAIN block = 1..Len(block)  BY <1>2, SequenceIs DEF BlockInv
  <2>3. a <= p /\ p <= d  BY <2>1, <2>2
  <2>4. QED  BY <2>1, <2>3 DEF Between
<1>6. o.do = "print" /\ Names(o) = {Lhs(i)}
  <2>1. o.do = "print" /\ o.buf = Lhs(i)  BY DEF PrintOf
  <2>2. QED  BY <2>1 DEF Names
<1>7. main[i].kind \in NoResult  BY <1>2 DEF NoResult
<1> HIDE DEF o
<1>8. BlockInv([block EXCEPT ![p] = o])  BY <1>2, <1>5, <1>6, <1>7, ReplacedKeeps
<1>9. QED  BY <1>1, <1>2, <1>8, ToBlockKeeps

LEMMA ConvertReturnKeeps ==
  ASSUME CompilerInv, NEW p \in DOMAIN block, ConvertReturn(p)
  PROVE  CompilerInv'
<1>1. Converting(p, {"return"}) /\ ToBlock([block EXCEPT ![p] = Return])  BY DEF ConvertReturn
<1>2. /\ WellFormed(main) /\ main[block[p].id].kind = "return" /\ BlockInv(block)
      /\ Running("affine") /\ block[p].do = "toy"
  BY <1>1, ConvertingAt
<1>3. Return.do = "return" /\ Names(Return) = {}
  <2>1. Return.do = "return"  BY DEF Return
  <2>2. QED  BY <2>1 DEF Names
<1>4. main[block[p].id].kind \in NoResult  BY <1>2 DEF NoResult
<1>5. BlockInv([block EXCEPT ![p] = Return])  BY <1>2, <1>3, <1>4, ReplacedKeeps
<1>6. QED  BY <1>1, <1>2, <1>5, ToBlockKeeps

LEMMA LowerPrintKeeps ==
  ASSUME CompilerInv, NEW p \in DOMAIN block, LowerPrint(p)
  PROVE  CompilerInv'
<1> DEFINE x == block[p].buf
           o == [do |-> "print loops", bounds |-> DimsOf(x), buf |-> x,
                 newline |-> {k \in DOMAIN DimsOf(x) : k # Len(DimsOf(x))}]
           new == [block EXCEPT ![p] = o]
<1>1. Running("llvm") /\ block[p].do = "print" /\ ToBlock(new)  BY DEF LowerPrint
<1>2. block # <<>>  OBVIOUS
<1>3. WellFormed(main) /\ BlockInv(block)  BY <1>2 DEF CompilerInv
<1>4. o.do = "print loops" /\ o.buf = x  OBVIOUS
<1> HIDE DEF o
<1>5. Names(o) = {x} /\ Names(block[p]) = {x}  BY <1>1, <1>4 DEF Names
<1>6. Between(block, p, x)  BY <1>3, <1>5 DEF BlockInv, UsesBetween
<1>7. BlockInv(new)  BY <1>1, <1>3, <1>4, <1>5, <1>6, ReplacedKeeps
<1>8. DOMAIN new = DOMAIN block /\ new[p] = o /\ \A q \in DOMAIN block : q # p => new[q] = block[q]
  OBVIOUS
<1> HIDE DEF new
<1>9. new # <<>>  BY <1>8
<1>10. (\E q \in DOMAIN new : new[q].do = "toy") => Has("toy")
  BY <1>4, <1>8 DEF Has
<1>11. QED  BY <1>1, <1>7, <1>9, <1>10, ToBlockKeeps

-----------------------------------------------------------------------------
(* Every step keeps the invariant                                          *)

LEMMA InitInv == Init => CompilerInv
<1> SUFFICES ASSUME Init  PROVE CompilerInv
  OBVIOUS
<1>1. OptionsOK /\ PassesOK /\ Achieved /\ DialectOfOutput
  BY DEF Init, OptionsOK, PassesOK, Achieved, DialectOfOutput
<1>2. WellFormed(main)
  <2>1. main = <<>>  BY DEF Init
  <2>2. QED  BY <2>1, EmptyIsWellFormed
<1>3. QED  BY <1>1, <1>2 DEF Init, CompilerInv

LEMMA StutterInv == CompilerInv /\ UNCHANGED vars => CompilerInv'
<1> SUFFICES ASSUME CompilerInv, UNCHANGED vars  PROVE CompilerInv'
  OBVIOUS
<1>1. /\ emitAction' = emitAction /\ enableOpt' = enableOpt /\ input' = input /\ stage' = stage /\ passes' = passes
      /\ main' = main /\ block' = block /\ code' = code
  BY DEF vars
<1>2. OptionsOK' /\ WellFormed(main)' /\ PassesOK'  BY <1>1 DEF CompilerInv, OptionsOK, PassesOK
<1>3. Achieved'  BY <1>1 DEF CompilerInv, Achieved, Has
<1>4. DialectOfOutput'  BY <1>1 DEF CompilerInv, DialectOfOutput, Has, Is, Dynamic
<1>5. (block # <<>> => BlockInv(block))'
  BY <1>1 DEF CompilerInv, BlockInv, IsSequence, UsesBetween, Between, Once, ToysInOrder, ValuesReady, IsToy, HasBuffer,
              Parameters
<1>6. QED  BY <1>2, <1>3, <1>4, <1>5 DEF CompilerInv

LEMMA NextInv == CompilerInv /\ Next => CompilerInv'
<1> SUFFICES ASSUME CompilerInv, Next  PROVE CompilerInv'
  OBVIOUS
<1>1. WellFormed(main) /\ input \in Inputs  BY DEF CompilerInv, OptionsOK
<1>2. Abort \in Int /\ Abort # 0  BY DEF Abort
<1>3. ASSUME PassFails  PROVE CompilerInv'
  BY <1>3, ExitKeeps DEF PassFails
<1>4. CASE PrintAST
  <2>1. emitAction = DumpAST /\ (Exit(5) \/ Exit(1) \/ Finish("ast"))  BY <1>4 DEF PrintAST
  <2>2. QED  BY <2>1, ExitKeeps, FinishKeeps
<1>5. CASE LoadError
  <2>1. Exit(6) \/ Exit(1) \/ Exit(-1) \/ Exit(3)  BY <1>5 DEF LoadError
  <2>2. QED  BY <2>1, ExitKeeps
<1>6. CASE LoadMLIR  BY <1>6, LoadKeeps
<1>7. ASSUME NEW i \in DOMAIN main, InlineCall(i)  PROVE CompilerInv'
  <2> DEFINE m == Splice(i, Inlined(i), PlaceOf(i)[Called(i)[Len(Called(i))].ins[1]])
  <2>1. Running("inline") /\ Rewrite(m)  BY <1>7 DEF InlineCall
  <2>2. WellFormed(main')  BY <1>1, <1>7, InlineKeeps
  <2>3. main' = m  BY <2>1 DEF Rewrite
  <2> HIDE DEF m
  <2>4. WellFormed(m)  BY <2>2, <2>3
  <2>5. QED  BY <2>1, <2>4, RewriteKeeps
<1>8. ASSUME NEW i \in DOMAIN main, InferOp(i)  PROVE CompilerInv'
  <2> DEFINE m == [main EXCEPT ![i] = [main[i] EXCEPT !.type = InferShapes(main[i].kind, TypesOf(i))]]
  <2>1. /\ Running("infer") /\ Dynamic(main[i])
        /\ \/ PassFails \/ Exit(Abort)
           \/ main[i].kind \in Inferable /\ DimsExist(main[i].kind, TypesOf(i)) /\ Rewrite(m)
    BY <1>8 DEF InferOp, ReadyOp
  <2>2. CASE main[i].kind \in Inferable /\ DimsExist(main[i].kind, TypesOf(i)) /\ Rewrite(m)
    <3>1. WellFormed(m)  BY <1>1, <2>1, <2>2, InferKeeps
    <3> HIDE DEF m
    <3>2. QED  BY <2>1, <2>2, <3>1, RewriteKeeps
  <2>3. QED  BY <1>2, <1>3, <2>1, <2>2, ExitKeeps
<1>9. ASSUME NEW i \in DOMAIN main, Canonicalize(i)  PROVE CompilerInv'
  <2>1. Running("canonicalize") /\ (Exit(Abort) \/ Rewrite(main'))
    BY <1>9 DEF Canonicalize, TransposeTranspose, ReshapeReshape, RedundantReshape, FoldConstantReshape, FoldCast,
                EraseDead, Rewrite
  <2>2. CASE Rewrite(main')
    <3>1. UNCHANGED <<options, stage, passes, block, code, output>>  BY <2>2 DEF Rewrite
    <3>2. Tidied(main')  BY <1>1, <1>9, <3>1, CanonicalizeTidies
    <3>3. WellFormed(main')  BY <3>2 DEF Tidied
    <3>4. QED  BY <2>1, <2>2, <3>2, <3>3, RewriteKeeps
  <2>3. QED  BY <1>2, <2>1, <2>2, ExitKeeps
<1>10. ASSUME NEW i \in DOMAIN main, NEW j \in DOMAIN main, MergeEqual(i, j)  PROVE CompilerInv'
  <2>1. Running("cse") /\ Rewrite(main')  BY <1>10 DEF MergeEqual, Rewrite
  <2>2. Tidied(main')  BY <1>1, <1>10, MergeTidies
  <2>3. WellFormed(main')  BY <2>2 DEF Tidied
  <2>4. QED  BY <2>1, <2>2, <2>3, RewriteKeeps
<1>11. CASE InlinerDone  BY <1>11, EndPassKeeps DEF InlinerDone
<1>12. CASE InferenceDone
  <2>1. /\ Running("infer")
        /\ PassFails \/ (EndPass /\ \A i \in DOMAIN main : ~Dynamic(main[i]))
    BY <1>12 DEF InferenceDone
  <2>2. CASE EndPass /\ \A i \in DOMAIN main : ~Dynamic(main[i])
    <3>1. Typed(main)
      <4> SUFFICES ASSUME NEW i \in DOMAIN main  PROVE ~Dynamic(main[i]) /\ main[i].kind # "generic_call"
        BY DEF Typed
      <4>1. OpOK(main, i) /\ ~Dynamic(main[i])  BY <1>1, <2>2, WellFormedIs
      <4>2. main[i].kind = "generic_call" => Dynamic(main[i])  BY <4>1 DEF OpOK, Dynamic, NoResult
      <4>3. QED  BY <4>1, <4>2
    <3>2. QED  BY <2>1, <2>2, <3>1, EndPassKeeps
  <2>3. QED  BY <1>3, <2>1, <2>2
<1>13. CASE CanonicalizerDone  BY <1>13, EndPassKeeps DEF CanonicalizerDone
<1>14. CASE CSEDone  BY <1>14, EndPassKeeps DEF CSEDone
<1>15. CASE ConvertFunction
  <2> DEFINE b == [i \in DOMAIN main |-> IF Is(i, "erased") THEN Nothing ELSE Toy(i)]
  <2>1. Running("affine") /\ (PassFails \/ (Parameters(main) = {} /\ ToBlock(b)))
    BY <1>15 DEF ConvertFunction
  <2>2. CASE Parameters(main) = {} /\ ToBlock(b)
    <3>1. BlockInv(b)  BY <1>1, <2>2, FirstBlock
    <3> HIDE DEF b
    <3>2. QED  BY <2>1, <2>2, <3>1, ToBlockKeeps
  <2>3. QED  BY <1>3, <2>1, <2>2
<1>16. ASSUME NEW p \in DOMAIN block, Convert(p)  PROVE CompilerInv'
  <2>1. NoPattern(p) => PassFails  BY DEF NoPattern
  <2>2. QED
    BY <1>3, <1>16, <2>1, ConvertConstantKeeps, ConvertBinaryKeeps, ConvertTransposeKeeps, ConvertMatMulKeeps,
       ConvertPrintKeeps, ConvertReturnKeeps DEF Convert
<1>17. ASSUME NEW p \in DOMAIN block, LowerPrint(p)  PROVE CompilerInv'
  BY <1>17, LowerPrintKeeps
<1>18. CASE ConversionDone
  <2>1. Running("affine") /\ EndPass /\ ~Has("toy") /\ (block = <<>> => main = <<>>)
    BY <1>18 DEF ConversionDone
  <2>2. QED  BY <2>1, EndPassKeeps
<1>19. CASE LoweringDone
  <2>1. Running("llvm") /\ EndPass /\ ~Has("print")  BY <1>19 DEF LoweringDone
  <2>2. QED  BY <2>1, EndPassKeeps
<1>20. CASE OutputMLIR \/ OutputLLVMIR \/ RunJit
  <2>1. Compiled /\ (Exit(-1) \/ Finish("module") \/ Finish("llvm") \/ Finish("ran"))
    BY <1>20 DEF OutputMLIR, OutputLLVMIR, RunJit
  <2>2. QED  BY <2>1, ExitKeeps, FinishKeeps
<1>21. QED
  BY <1>4, <1>5, <1>6, <1>7, <1>8, <1>9, <1>10, <1>11, <1>12, <1>13, <1>14, <1>15, <1>16, <1>17, <1>18, <1>19, <1>20
     DEF Next

LEMMA InvIsInvariant == Spec => []CompilerInv
<1>1. CompilerInv /\ [Next]_vars => CompilerInv'  BY NextInv, StutterInv
<1>2. QED  BY InitInv, <1>1, PTL DEF Spec

\* A buffer stands between its one allocation and its one deallocation.
LEMMA BlockBuffers ==
  ASSUME CompilerInv
  PROVE  BuffersLive
<1> SUFFICES ASSUME NEW q \in DOMAIN block, NEW b \in Names(block[q]),
                    NEW p \in DOMAIN block, b \in Names(block[p])
             PROVE  /\ block[p].do = "alloc" <=> \A r \in DOMAIN block : b \in Names(block[r]) => p <= r
                    /\ block[p].do = "dealloc" <=> \A r \in DOMAIN block : b \in Names(block[r]) => r <= p
  BY DEF BuffersLive
<1>1. block # <<>>  OBVIOUS
<1>2. BlockInv(block)  BY <1>1 DEF CompilerInv
<1>3. Len(block) \in Nat /\ DOMAIN block = 1..Len(block)  BY <1>2, SequenceIs DEF BlockInv
<1>4. \A o : o.do \in {"alloc", "dealloc"} => Names(o) = {o.buf}  BY DEF Names
<1>5. ASSUME NEW r \in DOMAIN block, b \in Names(block[r])
      PROVE  Between(block, r, b)
  BY <1>2, <1>5 DEF BlockInv, UsesBetween
<1>6. ASSUME NEW x \in DOMAIN block, NEW y \in DOMAIN block, block[x].do = block[y].do,
             block[x].do \in {"alloc", "dealloc"}, block[x].buf = b, block[y].buf = b
      PROVE  x = y
  BY <1>2, <1>6 DEF BlockInv, Once
<1>7. PICK a \in DOMAIN block, d \in DOMAIN block :
        a <= p /\ Starts(block[a], b) /\ p <= d /\ Ends(block[d], b)
  BY <1>5 DEF Between
<1>8. b \in Names(block[a]) /\ b \in Names(block[d])  BY <1>4, <1>7 DEF Starts, Ends
<1>9. ASSUME block[p].do = "alloc", NEW r \in DOMAIN block, b \in Names(block[r])
      PROVE  p <= r
  <2>1. PICK c \in DOMAIN block : c <= r /\ Starts(block[c], b)  BY <1>5, <1>9 DEF Between
  <2>2. block[p].buf = b  BY <1>4, <1>9
  <2>3. c = p  BY <1>6, <1>9, <2>1, <2>2 DEF Starts
  <2>4. QED  BY <2>1, <2>3
<1>10. ASSUME block[p].do = "dealloc", NEW r \in DOMAIN block, b \in Names(block[r])
       PROVE  r <= p
  <2>1. PICK c \in DOMAIN block : r <= c /\ Ends(block[c], b)  BY <1>5, <1>10 DEF Between
  <2>2. block[p].buf = b  BY <1>4, <1>10
  <2>3. c = p  BY <1>6, <1>10, <2>1, <2>2 DEF Ends
  <2>4. QED  BY <2>1, <2>3
<1>11. ASSUME \A r \in DOMAIN block : b \in Names(block[r]) => p <= r
       PROVE  block[p].do = "alloc"
  <2>1. p <= a  BY <1>8, <1>11
  <2>2. p = a  BY <2>1, <1>3, <1>7
  <2>3. QED  BY <2>2, <1>7 DEF Starts
<1>12. ASSUME \A r \in DOMAIN block : b \in Names(block[r]) => r <= p
       PROVE  block[p].do = "dealloc"
  <2>1. d <= p  BY <1>8, <1>12
  <2>2. p = d  BY <2>1, <1>3, <1>7
  <2>3. QED  BY <2>2, <1>7 DEF Ends
<1>13. QED  BY <1>9, <1>10, <1>11, <1>12

\* Whatever the program, at any point of its conversion to loops a buffer is
\* allocated once, before all that names it, and freed once, after it
\* (insertAllocAndDealloc() in LowerToAffineLoops.cpp).
THEOREM BuffersAreLive == Spec => []BuffersLive
<1>1. CompilerInv => BuffersLive  BY BlockBuffers
<1>2. QED  BY InvIsInvariant, <1>1, PTL

\* Whatever the program and the options, what comes out is of the dialect that
\* -emit asked for (toyc.cpp): the passes of the pipeline have each run, in
\* order, and what a pass has removed no later pass brings back.
THEOREM DialectAsAsked == Spec => []DialectOfOutput
<1>1. CompilerInv => DialectOfOutput  BY DEF CompilerInv
<1>2. QED  BY InvIsInvariant, <1>1, PTL

\* The body of main stays well formed through inlining, inference, the rewrites
\* and the conversion: operands in front of what uses them and with a result,
\* as many as the operation takes, one return at the end (ToyOps.td, the
\* verifier of MLIR).
THEOREM StaysWellFormed == Spec => []WellFormed(main)
<1>1. CompilerInv => WellFormed(main)  BY DEF CompilerInv
<1>2. QED  BY InvIsInvariant, <1>1, PTL
================================================================================
