------------------------ MODULE ShapeInferenceProofs ------------------------
(***************************************************************************)
(* Shape inference on every function of every set of programs: types, the  *)
(* equations every inferred shape satisfies, that a closed function never  *)
(* fails, and that the equations have one solution, so that the order in   *)
(* which the worklist is visited cannot matter.                            *)
(***************************************************************************)
EXTENDS ShapeInference, WellFoundedInduction, TLAPS

Values(c) == [DOMAIN c -> Types]

\* What the program text says of one operation.
LEMMA OpShape ==
  ASSUME NEW c \in Programs, NEW i \in DOMAIN c
  PROVE  /\ i \in Nat
         /\ c[i].kind \in Kinds
         /\ c[i].type \in Types
         /\ c[i].ins \in Seq(Nat)
         /\ \A k \in DOMAIN c[i].ins : /\ c[i].ins[k] \in DOMAIN c
                                       /\ c[i].ins[k] < i
                                       /\ c[c[i].ins[k]].kind \notin NoResult
         /\ c[i].kind \in {"constant", "reshape"} => c[i].type.ranked
         /\ c[i].kind \in {"transpose", "cast"} => Len(c[i].ins) = 1
         /\ c[i].kind \in {"add", "mul", "matmul"} => Len(c[i].ins) = 2
<1> DEFINE Ops == [kind : Kinds, ins : Seq(Nat), type : Types]
<1>1. c \in Seq(Ops)
  BY ProgramsAssumption DEF Types
<1>2. i \in 1..Len(c) /\ c[i] \in Ops
  <2> HIDE DEF Ops
  <2> QED
    BY <1>1
<1>3. DOMAIN c = 1..Len(c)
  <2> HIDE DEF Ops
  <2> QED
    BY <1>1
<1>4. \A k \in DOMAIN c[i].ins : c[i].ins[k] \in 1..(i - 1) /\ c[c[i].ins[k]].kind \notin NoResult
  BY ProgramsAssumption
<1>5. i \in Nat /\ Len(c) \in Nat /\ i <= Len(c)
  <2> HIDE DEF Ops
  <2> QED
    BY <1>1, <1>2
<1>6. \A k \in DOMAIN c[i].ins : c[i].ins[k] \in DOMAIN c /\ c[i].ins[k] < i
  BY <1>3, <1>4, <1>5
<1> QED
  BY <1>2, <1>4, <1>5, <1>6, ProgramsAssumption

\* A set of positions that is not empty has a first one.
LEMMA First ==
  ASSUME NEW T, T \subseteq Nat, T # {}
  PROVE  \E x \in T : \A y \in T : ~(y < x)
<1>1. \E x \in T : \A y \in T : ~(<<y, x>> \in OpToRel(<, Nat))
  BY NatLessThanWellFounded, WFMin
<1> QED
  BY <1>1 DEF OpToRel

\* The types an operation sees.
LEMMA OperandTypes ==
  ASSUME NEW c \in Programs, NEW t \in Values(c), NEW i \in DOMAIN c
  PROVE  /\ DOMAIN Operands(c[i], t) = DOMAIN c[i].ins
         /\ \A k \in DOMAIN c[i].ins : Operands(c[i], t)[k] \in Types
BY OpShape DEF Operands, Values

\* inferShapes() of operands that have shapes, and the dimensions it reads,
\* gives a shape.
LEMMA InferredHasShape ==
  ASSUME NEW c \in Programs, NEW t \in Values(c), NEW i \in DOMAIN c,
         c[i].kind \in Inferable,
         \A k \in DOMAIN c[i].ins : t[c[i].ins[k]].ranked,
         DimsExist(c[i].kind, Operands(c[i], t))
  PROVE  /\ InferShapes(c[i].kind, Operands(c[i], t)) \in Types
         /\ InferShapes(c[i].kind, Operands(c[i], t)).ranked
<1> DEFINE ts == Operands(c[i], t)
<1>1. 1 \in DOMAIN c[i].ins /\ (c[i].kind = "matmul" => 2 \in DOMAIN c[i].ins)
  BY OpShape DEF Inferable
<1>2. ts[1] \in Types /\ ts[1].ranked
  BY <1>1, OperandTypes DEF Operands
<1>3. CASE c[i].kind \in {"add", "mul", "cast"}
  BY <1>2, <1>3 DEF InferShapes
<1>4. CASE c[i].kind = "transpose"
  <2>1. ts[1].dims \in Seq(Nat)
    BY <1>2 DEF Types
  <2>2. Reverse(ts[1].dims) \in Seq(Nat)
    <3> DEFINE d == ts[1].dims
    <3> HIDE DEF d
    <3>1. d \in Seq(Nat)
      BY <2>1 DEF d
    <3>2. Reverse(d) = [k \in 1..Len(d) |-> d[(Len(d) - k) + 1]]
      BY DEF Reverse
    <3>3. \A k \in 1..Len(d) : d[(Len(d) - k) + 1] \in Nat
      BY <3>1
    <3> QED
      BY <3>1, <3>2, <3>3 DEF d
  <2>3. InferShapes(c[i].kind, ts) = Tensor(Reverse(ts[1].dims))
    BY <1>4 DEF InferShapes
  <2> HIDE DEF ts
  <2> QED
    BY <2>2, <2>3 DEF Types, Tensor, ts
<1>5. CASE c[i].kind = "matmul"
  <2>1. ts[2] \in Types
    BY <1>1, <1>5, OperandTypes
  <2>2. Len(ts[1].dims) >= 1 /\ Len(ts[2].dims) >= 2
    BY <1>5 DEF DimsExist, Rank
  <2>3. ts[1].dims[1] \in Nat /\ ts[2].dims[2] \in Nat
    <3>1. ts[1].dims \in Seq(Nat) /\ ts[2].dims \in Seq(Nat)
      BY <1>2, <2>1 DEF Types
    <3> HIDE DEF ts
    <3> QED
      BY <3>1, <2>2
  <2>4. InferShapes(c[i].kind, ts) = Tensor(<<ts[1].dims[1], ts[2].dims[2]>>)
    BY <1>5 DEF InferShapes
  <2> HIDE DEF ts
  <2> QED
    BY <2>3, <2>4 DEF Types, Tensor, ts
<1> QED
  BY <1>3, <1>4, <1>5 DEF Inferable
-----------------------------------------------------------------------------
\* A dynamic position has its shape once it has left the worklist; the others
\* keep the type they were built with.
LeftHasShape ==
  \A i \in DOMAIN code :
    IF ReturnsDynamicShape(code[i])
    THEN status \notin {"failed", "crashed"} /\ i \notin worklist => type[i].ranked
    ELSE type[i] = code[i].type

WorklistUnranked == \A i \in worklist : ~type[i].ranked

\* Inference has succeeded only with nothing left.
NothingLeft == status \in {"inferred", "verified", "rejected"} => worklist = {}

\* A shape was inferred by an operation that can, from dimensions that exist.
InferredByInterface ==
  \A i \in DOMAIN code : type[i].ranked /\ ReturnsDynamicShape(code[i]) =>
    code[i].kind \in Inferable /\ DimsExist(code[i].kind, Operands(code[i], type))

IInv == /\ TypeOK /\ SolvesEquations /\ LeftHasShape /\ WorklistUnranked /\ NothingLeft /\ ClosedNeverFails
        /\ InferredByInterface

LEMMA InitInv == Init => IInv
<1> SUFFICES ASSUME Init PROVE IInv
  OBVIOUS
<1> USE DEF Init
<1>1. \A i \in DOMAIN code : code[i].type \in Types
  BY OpShape
<1>2. TypeOK
  BY <1>1 DEF TypeOK
<1>3. SolvesEquations
  BY DEF SolvesEquations, ReturnsDynamicShape
<1>4. LeftHasShape
  BY DEF LeftHasShape
<1>5. WorklistUnranked /\ NothingLeft /\ ClosedNeverFails
  BY DEF WorklistUnranked, ReturnsDynamicShape, NothingLeft, ClosedNeverFails
<1>6. InferredByInterface
  BY DEF InferredByInterface, ReturnsDynamicShape
<1> QED
  BY <1>6, <1>2, <1>3, <1>4, <1>5 DEF IInv

\* One inference changes the type of one position, which no shape that is
\* already there depends on.
LEMMA InferStep ==
  ASSUME IInv, NEW i \in worklist, Infer(i)
  PROVE  IInv'
<1> DEFINE new == InferShapes(code[i].kind, Operands(code[i], type))
<1>1. /\ code \in Programs /\ type \in Values(code) /\ i \in DOMAIN code
      /\ worklist \subseteq DOMAIN code
  BY DEF IInv, TypeOK, Values
<1>2. \A k \in DOMAIN code[i].ins : type[code[i].ins[k]].ranked
  BY DEF Infer, Ready, AllOperandsInferred
<1>3. new \in Types /\ new.ranked
  BY <1>1, <1>2, InferredHasShape DEF Infer
<1> HIDE DEF new
<1>4. type' = [type EXCEPT ![i] = new] /\ code' = code /\ status' = status
      /\ worklist' = worklist \ {i} /\ status = "running"
  BY DEF Infer, new
<1>5. type'[i] = new /\ (\A j \in DOMAIN code \ {i} : type'[j] = type[j])
  BY <1>1, <1>4 DEF Values
<1>6. TypeOK'
  BY <1>3, <1>4 DEF IInv, TypeOK
<1>7. ~type[i].ranked
  BY DEF IInv, WorklistUnranked
<1>8. \A j \in DOMAIN code : (\A k \in DOMAIN code[j].ins : type[code[j].ins[k]].ranked)
        => Operands(code[j], type') = Operands(code[j], type)
  <2> SUFFICES ASSUME NEW j \in DOMAIN code,
                      \A k \in DOMAIN code[j].ins : type[code[j].ins[k]].ranked
               PROVE  Operands(code[j], type') = Operands(code[j], type)
    OBVIOUS
  <2>1. \A k \in DOMAIN code[j].ins : code[j].ins[k] \in DOMAIN code /\ code[j].ins[k] # i
    BY <1>1, <1>7, OpShape
  <2> QED
    BY <2>1, <1>5 DEF Operands
<1>9. SolvesEquations'
  <2> SUFFICES ASSUME NEW j \in DOMAIN code, type'[j].ranked, ReturnsDynamicShape(code[j])
               PROVE  /\ \A k \in DOMAIN code[j].ins : type'[code[j].ins[k]].ranked
                      /\ type'[j] = InferShapes(code[j].kind, Operands(code[j], type'))
    BY <1>4 DEF SolvesEquations, AllOperandsInferred
  <2>1. \A k \in DOMAIN code[j].ins : type[code[j].ins[k]].ranked
    <3>1. CASE j = i
      BY <3>1, <1>2
    <3>2. CASE j # i
      BY <3>2, <1>5 DEF IInv, SolvesEquations, AllOperandsInferred
    <3> QED
      BY <3>1, <3>2
  <2>2. Operands(code[j], type') = Operands(code[j], type)
    BY <2>1, <1>8
  <2>3. type'[j] = InferShapes(code[j].kind, Operands(code[j], type))
    <3>1. CASE j = i
      BY <3>1, <1>5 DEF new
    <3>2. CASE j # i
      BY <3>2, <1>5 DEF IInv, SolvesEquations
    <3> QED
      BY <3>1, <3>2
  <2>4. \A k \in DOMAIN code[j].ins : type'[code[j].ins[k]].ranked
    BY <2>1, <1>1, <1>5, <1>7, OpShape
  <2> QED
    BY <2>2, <2>3, <2>4
<1>10. LeftHasShape'
  <2> SUFFICES ASSUME NEW j \in DOMAIN code
               PROVE  IF ReturnsDynamicShape(code[j])
                      THEN status \notin {"failed", "crashed"} /\ j \notin worklist' => type'[j].ranked
                      ELSE type'[j] = code[j].type
    BY <1>4 DEF LeftHasShape
  <2>1. CASE j = i
    BY <2>1, <1>3, <1>5 DEF IInv, TypeOK
  <2>2. CASE j # i
    BY <2>2, <1>4, <1>5 DEF IInv, LeftHasShape
  <2> QED
    BY <2>1, <2>2
<1>11. WorklistUnranked'
  BY <1>1, <1>4, <1>5 DEF IInv, WorklistUnranked
<1>12. NothingLeft' /\ ClosedNeverFails'
  BY <1>4 DEF NothingLeft, ClosedNeverFails
<1>13. InferredByInterface'
  <2> SUFFICES ASSUME NEW j \in DOMAIN code, type'[j].ranked, ReturnsDynamicShape(code[j])
               PROVE  code[j].kind \in Inferable /\ DimsExist(code[j].kind, Operands(code[j], type'))
    BY <1>4 DEF InferredByInterface
  <2>1. CASE j = i
    BY <2>1, <1>2, <1>8 DEF Infer
  <2>2. CASE j # i
    <3>1. type[j].ranked
      BY <2>2, <1>5
    <3>2. \A k \in DOMAIN code[j].ins : type[code[j].ins[k]].ranked
      BY <3>1 DEF IInv, SolvesEquations, AllOperandsInferred
    <3> QED
      BY <3>1, <3>2, <1>8 DEF IInv, InferredByInterface
  <2> QED
    BY <2>1, <2>2
<1> QED
  BY <1>6, <1>9, <1>10, <1>11, <1>12, <1>13 DEF IInv

\* As long as a closed function has something in the worklist, the first
\* operation of it is ready: its operands stand before it.
LEMMA ClosedIsReady ==
  ASSUME IInv, Closed, status = "running", worklist # {}
  PROVE  Ready # {}
<1>1. code \in Programs /\ worklist \subseteq DOMAIN code
  BY DEF IInv, TypeOK
<1>2. worklist \subseteq Nat
  BY <1>1, OpShape
<1>3. PICK m \in worklist : \A j \in worklist : ~(j < m)
  BY <1>2, First
<1>4. \A k \in DOMAIN code[m].ins : type[code[m].ins[k]].ranked
  <2> SUFFICES ASSUME NEW k \in DOMAIN code[m].ins
               PROVE  type[code[m].ins[k]].ranked
    OBVIOUS
  <2> DEFINE j == code[m].ins[k]
  <2>1. j \in DOMAIN code /\ j < m /\ code[j].kind \notin NoResult
    BY <1>1, OpShape
  <2>2. j \notin worklist /\ code[j].kind # "arg"
    BY <2>1, <1>3 DEF Closed
  <2>3. CASE ReturnsDynamicShape(code[j])
    BY <2>1, <2>2, <2>3 DEF IInv, LeftHasShape
  <2>4. CASE ~ReturnsDynamicShape(code[j])
    BY <2>1, <2>2, <2>4 DEF IInv, LeftHasShape, ReturnsDynamicShape
  <2> QED
    BY <2>3, <2>4
<1> QED
  BY <1>3, <1>4 DEF Ready, AllOperandsInferred

LEMMA NextInv == IInv /\ [Next]_vars => IInv'
<1> SUFFICES ASSUME IInv, [Next]_vars PROVE IInv'
  OBVIOUS
<1> USE DEF IInv
<1>1. ASSUME NEW i \in worklist, Infer(i) PROVE IInv'
  BY <1>1, InferStep
<1>2. ASSUME NEW i \in worklist, ReadMissingDim(i) PROVE IInv'
  <2> USE <1>2 DEF ReadMissingDim
  <2>1. TypeOK' /\ SolvesEquations' /\ InferredByInterface'
    BY DEF TypeOK, SolvesEquations, InferredByInterface, AllOperandsInferred
  <2>2. LeftHasShape' /\ WorklistUnranked' /\ NothingLeft' /\ ClosedNeverFails'
    BY DEF LeftHasShape, WorklistUnranked, NothingLeft, ClosedNeverFails
  <2> QED
    BY <2>1, <2>2
<1>3. ASSUME NEW i \in worklist, NoInterface(i) PROVE IInv'
  <2> USE <1>3 DEF NoInterface
  <2>1. TypeOK' /\ SolvesEquations' /\ InferredByInterface'
    BY DEF TypeOK, SolvesEquations, InferredByInterface, AllOperandsInferred
  <2>2. LeftHasShape' /\ WorklistUnranked' /\ NothingLeft'
    BY DEF LeftHasShape, WorklistUnranked, NothingLeft
  <2>3. ~Closed
    <3>1. code \in Programs /\ i \in DOMAIN code /\ ReturnsDynamicShape(code[i])
      BY DEF TypeOK
    <3>2. code[i].kind \in Kinds /\ (code[i].kind \in {"constant", "reshape"} => code[i].type.ranked)
      BY <3>1, OpShape
    <3>3. code[i].kind = "generic_call"
      BY <3>1, <3>2 DEF ReturnsDynamicShape, Kinds
    <3> QED
      BY <3>1, <3>3 DEF Closed
  <2>4. ClosedNeverFails'
    BY <2>3 DEF ClosedNeverFails, Closed
  <2> QED
    BY <2>1, <2>2, <2>4
<1>4. ASSUME Stop PROVE IInv'
  <2> USE <1>4 DEF Stop
  <2>1. TypeOK' /\ SolvesEquations' /\ InferredByInterface'
    BY DEF TypeOK, SolvesEquations, InferredByInterface, AllOperandsInferred
  <2>2. LeftHasShape' /\ WorklistUnranked' /\ NothingLeft'
    BY DEF LeftHasShape, WorklistUnranked, NothingLeft
  <2>3. ClosedNeverFails'
    BY ClosedIsReady DEF ClosedNeverFails, Closed
  <2> QED
    BY <2>1, <2>2, <2>3
<1>5. ASSUME Verify PROVE IInv'
  <2> USE <1>5 DEF Verify
  <2>1. TypeOK' /\ SolvesEquations' /\ InferredByInterface'
    BY DEF TypeOK, SolvesEquations, InferredByInterface, AllOperandsInferred
  <2>2. LeftHasShape' /\ WorklistUnranked' /\ NothingLeft' /\ ClosedNeverFails'
    BY DEF LeftHasShape, WorklistUnranked, NothingLeft, ClosedNeverFails
  <2> QED
    BY <2>1, <2>2
<1>6. ASSUME UNCHANGED vars PROVE IInv'
  BY <1>6 DEF vars, TypeOK, SolvesEquations, InferredByInterface, AllOperandsInferred, LeftHasShape, WorklistUnranked,
     NothingLeft, ClosedNeverFails, Closed
<1> QED
  BY <1>1, <1>2, <1>3, <1>4, <1>5, <1>6 DEF Next
-----------------------------------------------------------------------------
\* Types, worklist and status stay in their ranges in runOnOperation().
THEOREM InferenceTypeCorrect == Spec => []TypeOK
<1>1. IInv => TypeOK
  BY DEF IInv
<1> QED
  BY <1>1, InitInv, NextInv, PTL DEF Spec

\* Whatever the order of the worklist in runOnOperation(), an inferred shape
\* is what inferShapes() gives for the shapes the operands have now.
THEOREM ShapesSolveEquations == Spec => []SolvesEquations
<1>1. IInv => SolvesEquations
  BY DEF IInv
<1> QED
  BY <1>1, InitInv, NextInv, PTL DEF Spec

\* "Shape inference failed" is never reported for a function without
\* parameters and calls.
THEOREM ClosedFunctionsInferred == Spec => []ClosedNeverFails
<1>1. IInv => ClosedNeverFails
  BY DEF IInv
<1> QED
  BY <1>1, InitInv, NextInv, PTL DEF Spec

\* Types of a whole function that satisfy the equation of each operation.
Solves(c, t) ==
  \A i \in DOMAIN c :
    t[i] = IF ReturnsDynamicShape(c[i]) THEN InferShapes(c[i].kind, Operands(c[i], t))
           ELSE c[i].type

SuccessSolves == status \in {"inferred", "verified", "rejected"} => Solves(code, type)

\* When the pass succeeds, the types it leaves solve all the equations.
THEOREM SuccessIsASolution == Spec => []SuccessSolves
<1>1. IInv => SuccessSolves
  BY DEF IInv, SuccessSolves, Solves, LeftHasShape, NothingLeft, SolvesEquations, TypeOK
<1> QED
  BY <1>1, InitInv, NextInv, PTL DEF Spec

\* And they have only one solution: two runs of the pass that succeed on the
\* same function agree, in whatever order their worklists were visited.
THEOREM OrderDoesNotMatter ==
  ASSUME NEW c \in Programs, NEW s \in Values(c), NEW t \in Values(c),
         Solves(c, s), Solves(c, t)
  PROVE  s = t
<1> DEFINE D == {i \in DOMAIN c : s[i] # t[i]}
<1>1. D \subseteq Nat
  BY OpShape
<1>2. ASSUME D # {} PROVE FALSE
  <2>1. PICK m \in D : \A j \in D : ~(j < m)
    BY <1>1, <1>2, First
  <2>2. m \in DOMAIN c /\ s[m] # t[m]
    BY <2>1
  <2>3. \A k \in DOMAIN c[m].ins : c[m].ins[k] \in DOMAIN c /\ c[m].ins[k] < m
    BY <2>2, OpShape
  <2>4. \A k \in DOMAIN c[m].ins : s[c[m].ins[k]] = t[c[m].ins[k]]
    BY <2>1, <2>3
  <2>5. Operands(c[m], s) = Operands(c[m], t)
    BY <2>4 DEF Operands
  <2> QED
    BY <2>2, <2>5 DEF Solves
<1> QED
  BY <1>2 DEF Values
-----------------------------------------------------------------------------
(***************************************************************************)
(* The equations of ShapeEquations.  Their solution is a recursive         *)
(* function; that it satisfies its recursion is shown once, position by    *)
(* position, and used by name from there on.                               *)
(***************************************************************************)
SolvedUpTo(c, t, n) == \A i \in 1..n : t[i] = Equations!TypeFrom(c[i], Operands(c[i], t))

\* The operators of ToyOps mean the same in both modules.
LEMMA SameOperators ==
  /\ Equations!Unranked = Unranked
  /\ Equations!Inferable = Inferable
  /\ Equations!NoResult = NoResult
  /\ \A op, t : Equations!Operands(op, t) = Operands(op, t)
  /\ \A kind, ts : /\ Equations!DimsExist(kind, ts) = DimsExist(kind, ts)
                   /\ Equations!InferShapes(kind, ts) = InferShapes(kind, ts)
  /\ \A kind, ts, r : Equations!Verifies(kind, ts, r) = Verifies(kind, ts, r)
<1>1. /\ Equations!Unranked = Unranked /\ Equations!Inferable = Inferable /\ Equations!NoResult = NoResult
      /\ \A dims : Equations!Tensor(dims) = Tensor(dims)
      /\ \A t : Equations!Rank(t) = Rank(t)
  BY DEF Equations!Unranked, Unranked, Equations!Inferable, Inferable, Equations!NoResult, NoResult,
     Equations!Tensor, Tensor, Equations!Rank, Rank
<1>2. \A op, t : Equations!Operands(op, t) = Operands(op, t)
  BY DEF Equations!Operands, Operands
<1>3. \A kind, ts : Equations!DimsExist(kind, ts) = DimsExist(kind, ts)
  BY <1>1 DEF Equations!DimsExist, DimsExist
<1>4. \A d : Equations!Reverse(d) = Reverse(d)
  BY DEF Equations!Reverse, Reverse
<1>5. \A kind, ts : Equations!InferShapes(kind, ts) = InferShapes(kind, ts)
  BY <1>1, <1>4 DEF Equations!InferShapes, InferShapes
<1>6. \A kind, ts, r : Equations!Verifies(kind, ts, r) = Verifies(kind, ts, r)
  BY <1>1, <1>4 DEF Equations!Verifies, Verifies
<1> QED
  BY <1>1, <1>2, <1>3, <1>5, <1>6

\* The type an equation gives is a type.
LEMMA TypeFromIsType ==
  ASSUME NEW c \in Programs, NEW t \in Values(c), NEW i \in DOMAIN c
  PROVE  Equations!TypeFrom(c[i], Operands(c[i], t)) \in Types
<1> DEFINE ts == Operands(c[i], t)
<1>1. c[i].type \in Types /\ Unranked \in Types
  BY OpShape DEF Types, Unranked
<1>2. ASSUME c[i].kind \in Inferable, \A k \in DOMAIN ts : ts[k].ranked, DimsExist(c[i].kind, ts)
      PROVE  InferShapes(c[i].kind, ts) \in Types
  <2>1. \A k \in DOMAIN c[i].ins : t[c[i].ins[k]].ranked
    BY <1>2, OperandTypes DEF Operands
  <2> QED
    BY <1>2, <2>1, InferredHasShape
<1> QED
  BY <1>1, <1>2, SameOperators DEF Equations!TypeFrom

\* The equations can be solved up to every position.
LEMMA SolvableUpTo ==
  ASSUME NEW c \in Programs, NEW n \in 0..Len(c)
  PROVE  \E t \in Values(c) : SolvedUpTo(c, t, n)
<1> DEFINE Bad == {m \in 0..Len(c) : ~ \E t \in Values(c) : SolvedUpTo(c, t, m)}
<1>1. DOMAIN c = 1..Len(c) /\ Len(c) \in Nat
  <2>1. c \in Seq([kind : Kinds, ins : Seq(Nat), type : [ranked : BOOLEAN, dims : Seq(Nat)]])
    BY ProgramsAssumption
  <2> QED
    BY <2>1
<1>2. ASSUME Bad # {} PROVE FALSE
  <2>1. Bad \subseteq Nat
    BY <1>1
  <2>2. PICK m \in Bad : \A y \in Bad : ~(y < m)
    BY <1>2, <2>1, First
  <2>3. m \in 0..Len(c) /\ ~ \E t \in Values(c) : SolvedUpTo(c, t, m)
    BY <2>2
  <2>4. CASE m = 0
    <3>1. [i \in DOMAIN c |-> c[i].type] \in Values(c)
      BY OpShape DEF Values
    <3> QED
      BY <2>3, <2>4, <3>1 DEF SolvedUpTo
  <2>5. CASE m # 0
    <3>1. m - 1 \in 0..Len(c) /\ m - 1 < m /\ m \in DOMAIN c
      BY <1>1, <2>3, <2>5
    <3>2. m - 1 \notin Bad
      BY <2>2, <3>1
    <3>3. PICK t \in Values(c) : SolvedUpTo(c, t, m - 1)
      BY <3>1, <3>2
    <3> DEFINE v == Equations!TypeFrom(c[m], Operands(c[m], t))
               u == [t EXCEPT ![m] = v]
    <3>4. v \in Types
      BY <3>1, TypeFromIsType
    <3>5. u \in Values(c)
      BY <3>1, <3>4 DEF Values
    <3>6. ASSUME NEW i \in 1..m PROVE u[i] = Equations!TypeFrom(c[i], Operands(c[i], u))
      <4>1. i \in DOMAIN c
        BY <1>1, <2>3
      <4>2. \A k \in DOMAIN c[i].ins : c[i].ins[k] \in DOMAIN c /\ c[i].ins[k] # m
        <5>1. \A k \in DOMAIN c[i].ins : c[i].ins[k] \in DOMAIN c /\ c[i].ins[k] < i
          BY <4>1, OpShape
        <5> QED
          BY <5>1, <1>1, <2>3
      <4>3. Operands(c[i], u) = Operands(c[i], t)
        BY <4>2 DEF Operands, Values
      <4>4. CASE i = m
        BY <4>3, <4>4, <3>1 DEF Values
      <4>5. CASE i # m
        <5>1. i \in 1..(m - 1)
          BY <4>5, <2>3, <1>1
        <5>2. u[i] = t[i]
          BY <4>1, <4>5 DEF Values
        <5> QED
          BY <4>3, <5>1, <5>2, <3>3 DEF SolvedUpTo
      <4> QED
        BY <4>4, <4>5
    <3>7. SolvedUpTo(c, u, m)
      BY <3>6 DEF SolvedUpTo
    <3> QED
      BY <2>3, <3>5, <3>7
  <2> QED
    BY <2>4, <2>5
<1> QED
  BY <1>2

\* Solution gives every position a type, and satisfies every equation.
LEMMA SolutionSolves ==
  ASSUME NEW c \in Programs
  PROVE  /\ Equations!Solution(c) \in Values(c)
         /\ \A i \in DOMAIN c :
              Equations!Solution(c)[i] = Equations!TypeFrom(c[i], Operands(c[i], Equations!Solution(c)))
<1> DEFINE P(g) == g = [i \in 1..Len(c) |-> Equations!TypeFrom(c[i], Operands(c[i], g))]
           S == CHOOSE g : P(g)
<1>1. DOMAIN c = 1..Len(c) /\ Len(c) \in 0..Len(c)
  <2>1. c \in Seq([kind : Kinds, ins : Seq(Nat), type : [ranked : BOOLEAN, dims : Seq(Nat)]])
    BY ProgramsAssumption
  <2> QED
    BY <2>1
<1>2. PICK t \in Values(c) : SolvedUpTo(c, t, Len(c))
  BY <1>1, SolvableUpTo
<1>3. P(t)
  BY <1>1, <1>2 DEF SolvedUpTo, Values
<1>4. Equations!Solution(c) = [i \in 1..Len(c) |-> S[i]]
  BY DEF Equations!Solution, Equations!Operands, Operands
<1>5. P(S)
  <2> HIDE DEF P
  <2> QED
    BY <1>3, Zenon
<1>6. DOMAIN S = 1..Len(c)
  BY <1>5
<1>7. S = [i \in 1..Len(c) |-> S[i]]
  <2>1. S = [i \in 1..Len(c) |-> Equations!TypeFrom(c[i], Operands(c[i], S))]
    BY <1>5
  <2> HIDE DEF S
  <2> QED
    BY <2>1
<1>8. Equations!Solution(c) = S
  BY <1>4, <1>7
<1> HIDE DEF S
<1>9. \A i \in DOMAIN c : S[i] = Equations!TypeFrom(c[i], Operands(c[i], S))
  BY <1>1, <1>5
<1>10. S = t
  <2> DEFINE D == {i \in DOMAIN c : S[i] # t[i]}
  <2>1. ASSUME D # {} PROVE FALSE
    <3>1. D \subseteq Nat
      BY OpShape
    <3>2. PICK m \in D : \A j \in D : ~(j < m)
      BY <2>1, <3>1, First
    <3>3. \A k \in DOMAIN c[m].ins : c[m].ins[k] \in DOMAIN c /\ c[m].ins[k] < m
      BY OpShape
    <3>4. Operands(c[m], S) = Operands(c[m], t)
      BY <3>2, <3>3 DEF Operands
    <3> QED
      BY <3>4, <1>1, <1>2, <1>9 DEF SolvedUpTo
  <2>2. \A i \in DOMAIN c : S[i] = t[i]
    BY <2>1
  <2> QED
    BY <1>1, <1>7, <2>2 DEF Values
<1> QED
  BY <1>8, <1>9, <1>10


\* The solution at a position, by what stands there.
LEMMA SolutionAt ==
  ASSUME NEW c \in Programs, NEW i \in DOMAIN c
  PROVE  LET sol == Equations!Solution(c)  ts == Operands(c[i], sol) IN
         /\ ~ReturnsDynamicShape(c[i]) => sol[i] = c[i].type
         /\ ReturnsDynamicShape(c[i]) /\ sol[i].ranked
              => /\ c[i].kind \in Inferable
                 /\ \A k \in DOMAIN c[i].ins : sol[c[i].ins[k]].ranked
                 /\ DimsExist(c[i].kind, ts)
         /\ ReturnsDynamicShape(c[i]) /\ c[i].kind \in Inferable /\ DimsExist(c[i].kind, ts)
              /\ (\A k \in DOMAIN c[i].ins : sol[c[i].ins[k]].ranked)
              => sol[i] = InferShapes(c[i].kind, ts)
<1> DEFINE sol == Equations!Solution(c)
           ts == Operands(c[i], sol)
<1>1. sol[i] = Equations!TypeFrom(c[i], ts)
  BY SolutionSolves
<1>2. (\A k \in DOMAIN ts : ts[k].ranked) <=> \A k \in DOMAIN c[i].ins : sol[c[i].ins[k]].ranked
  BY DEF Operands
<1>3. ~Unranked.ranked
  BY DEF Unranked
<1>4. sol[i] = IF c[i].type.ranked \/ c[i].kind \notin Inferable THEN c[i].type
               ELSE IF (\A k \in DOMAIN ts : ts[k].ranked) /\ DimsExist(c[i].kind, ts)
                    THEN InferShapes(c[i].kind, ts) ELSE Unranked
  BY <1>1, SameOperators DEF Equations!TypeFrom
<1> HIDE DEF sol, ts
<1>5. ~ReturnsDynamicShape(c[i]) => sol[i] = c[i].type
  <2>1. c[i].kind \in Inferable => c[i].kind \notin NoResult \cup {"arg"}
    BY DEF Inferable, NoResult
  <2> QED
    BY <1>4, <2>1 DEF ReturnsDynamicShape
<1>6. ReturnsDynamicShape(c[i]) => ~c[i].type.ranked
  BY DEF ReturnsDynamicShape
<1> QED
  BY <1>2, <1>3, <1>4, <1>5, <1>6 DEF sol, ts

\* A shape that has been inferred is the one of the solution.
LEMMA InferredIsSolution ==
  ASSUME IInv, NEW i \in DOMAIN code, type[i].ranked
  PROVE  Equations!Solution(code)[i] = type[i]
<1> DEFINE sol == Equations!Solution(code)
           D == {j \in DOMAIN code : type[j].ranked /\ sol[j] # type[j]}
<1>1. code \in Programs
  BY DEF IInv, TypeOK
<1>2. ASSUME D # {} PROVE FALSE
  <2>1. D \subseteq Nat
    BY <1>1, OpShape
  <2>2. PICK m \in D : \A j \in D : ~(j < m)
    BY <1>2, <2>1, First
  <2>3. m \in DOMAIN code /\ type[m].ranked /\ sol[m] # type[m]
    BY <2>2
  <2>4. ReturnsDynamicShape(code[m])
    BY <1>1, <2>3, SolutionAt DEF IInv, LeftHasShape
  <2>5. /\ \A k \in DOMAIN code[m].ins : type[code[m].ins[k]].ranked
        /\ type[m] = InferShapes(code[m].kind, Operands(code[m], type))
        /\ code[m].kind \in Inferable
        /\ DimsExist(code[m].kind, Operands(code[m], type))
    BY <2>3, <2>4 DEF IInv, SolvesEquations, AllOperandsInferred, InferredByInterface
  <2>6. \A k \in DOMAIN code[m].ins : code[m].ins[k] \in DOMAIN code /\ code[m].ins[k] < m
    BY <1>1, <2>3, OpShape
  <2>7. \A k \in DOMAIN code[m].ins : sol[code[m].ins[k]] = type[code[m].ins[k]]
    BY <2>2, <2>5, <2>6
  <2>8. Operands(code[m], sol) = Operands(code[m], type)
    BY <2>7 DEF Operands
  <2>9. sol[m] = InferShapes(code[m].kind, Operands(code[m], sol))
    BY <1>1, <2>3, <2>4, <2>5, <2>7, <2>8, SolutionAt
  <2> QED
    BY <2>3, <2>5, <2>8, <2>9
<1> QED
  BY <1>2

\* The types the pass keeps are those of the program elsewhere.
LEMMA StaticIsSolution ==
  ASSUME IInv, NEW i \in DOMAIN code, ~ReturnsDynamicShape(code[i])
  PROVE  Equations!Solution(code)[i] = type[i]
BY SolutionAt DEF IInv, TypeOK, LeftHasShape

\* When nothing is ready any more, everything that has a shape in the
\* solution has been inferred: the pass does not give up too early.
LEMMA StuckIsComplete ==
  ASSUME IInv, status = "running", Ready = {},
         NEW i \in DOMAIN code, Equations!Solution(code)[i].ranked
  PROVE  type[i].ranked
<1> DEFINE sol == Equations!Solution(code)
           D == {j \in DOMAIN code : sol[j].ranked /\ ~type[j].ranked}
<1>1. code \in Programs
  BY DEF IInv, TypeOK
<1>2. ASSUME D # {} PROVE FALSE
  <2>1. D \subseteq Nat
    BY <1>1, OpShape
  <2>2. PICK m \in D : \A j \in D : ~(j < m)
    BY <1>2, <2>1, First
  <2>3. m \in DOMAIN code /\ sol[m].ranked /\ ~type[m].ranked
    BY <2>2
  <2>4. ReturnsDynamicShape(code[m])
    BY <2>3, StaticIsSolution
  <2>5. \A k \in DOMAIN code[m].ins : sol[code[m].ins[k]].ranked
    BY <1>1, <2>3, <2>4, SolutionAt
  <2>6. \A k \in DOMAIN code[m].ins : code[m].ins[k] \in DOMAIN code /\ code[m].ins[k] < m
    BY <1>1, <2>3, OpShape
  <2>7. \A k \in DOMAIN code[m].ins : type[code[m].ins[k]].ranked
    BY <2>2, <2>5, <2>6
  <2>8. m \in worklist
    BY <2>3, <2>4 DEF IInv, LeftHasShape
  <2> QED
    BY <2>7, <2>8 DEF Ready, AllOperandsInferred
<1> QED
  BY <1>2

\* Operands that have their shapes are seen alike.
LEMMA InferredOperands ==
  ASSUME IInv, NEW i \in DOMAIN code, AllOperandsInferred(i)
  PROVE  /\ Operands(code[i], Equations!Solution(code)) = Operands(code[i], type)
         /\ Equations!OperandsSolved(code, Equations!Solution(code), i)
<1>1. \A k \in DOMAIN code[i].ins : code[i].ins[k] \in DOMAIN code
  BY OpShape DEF IInv, TypeOK
<1>2. \A k \in DOMAIN code[i].ins : Equations!Solution(code)[code[i].ins[k]] = type[code[i].ins[k]]
  BY <1>1, InferredIsSolution DEF AllOperandsInferred
<1> QED
  BY <1>2 DEF AllOperandsInferred, Operands, Equations!OperandsSolved
-----------------------------------------------------------------------------
\* A step that meets an operation without the interface, or dimensions that
\* do not exist, is the error of the equations.
LEMMA ErrorsImplement ==
  ASSUME IInv, NEW i \in worklist, ReadMissingDim(i) \/ NoInterface(i)
  PROVE  Equations!Next
<1> DEFINE sol == Equations!Solution(code)
<1>1. i \in DOMAIN code /\ ReturnsDynamicShape(code[i]) /\ AllOperandsInferred(i)
  BY DEF IInv, TypeOK, ReadMissingDim, NoInterface, Ready
<1>2. i \in Equations!Needed(code) /\ ~code[i].type.ranked
  BY <1>1, SameOperators DEF Equations!Needed, ReturnsDynamicShape
<1>3. Operands(code[i], sol) = Operands(code[i], type) /\ Equations!OperandsSolved(code, sol, i)
  BY <1>1, InferredOperands
<1>4. Outcome = Equations!Pending /\ code' = code
  BY DEF ReadMissingDim, NoInterface, Outcome, Equations!Pending
<1>5. CASE ReadMissingDim(i)
  <2>1. i \in Equations!Undefined(code, sol)
    BY <1>2, <1>3, <1>5, SameOperators DEF Equations!Undefined, ReadMissingDim
  <2>2. Outcome' = Equations!Answer("crashed", <<>>)
    BY <1>5 DEF ReadMissingDim, Outcome, Equations!Answer
  <2> QED
    BY <1>4, <2>1, <2>2 DEF Equations!Next, Equations!Crash
<1>6. CASE NoInterface(i)
  <2>1. i \in Equations!Calls(code, sol)
    BY <1>2, <1>3, <1>6, SameOperators DEF Equations!Calls, NoInterface
  <2>2. Outcome' = Equations!Answer("failed", <<>>)
    BY <1>6 DEF NoInterface, Outcome, Equations!Answer
  <2> QED
    BY <1>4, <2>1, <2>2 DEF Equations!Next, Equations!Fail
<1> QED
  BY <1>5, <1>6

\* An empty worklist is no answer yet; one in which nothing is ready means
\* that some equation has no solution, and that none reads what is not there.
LEMMA StopImplements ==
  ASSUME IInv, Stop
  PROVE  Equations!Next \/ UNCHANGED Equations!vars
<1> DEFINE sol == Equations!Solution(code)
<1>1. status = "running" /\ Ready = {} /\ code' = code /\ Outcome = Equations!Pending
  BY DEF Stop, Outcome, Equations!Pending
<1>2. CASE worklist = {}
  BY <1>1, <1>2 DEF Stop, Outcome, Equations!vars
<1>3. CASE worklist # {}
  <2>1. Outcome' = Equations!Answer("failed", <<>>)
    BY <1>3 DEF Stop, Outcome, Equations!Answer
  <2>2. ~Equations!Solved(code, sol)
    <3>1. PICK i \in worklist : TRUE
      BY <1>3
    <3>2. i \in DOMAIN code /\ i \in Equations!Needed(code) /\ ~type[i].ranked
      BY <3>1, SameOperators DEF IInv, TypeOK, WorklistUnranked, ReturnsDynamicShape, Equations!Needed
    <3> QED
      BY <1>1, <3>2, StuckIsComplete DEF Equations!Solved
  <2>3. ASSUME NEW i \in Equations!Undefined(code, sol) PROVE FALSE
    <3>1. /\ i \in DOMAIN code /\ ReturnsDynamicShape(code[i])
          /\ Equations!OperandsSolved(code, sol, i)
          /\ ~DimsExist(code[i].kind, Operands(code[i], sol))
      BY SameOperators DEF Equations!Undefined, Equations!Needed, ReturnsDynamicShape
    <3>2. \A k \in DOMAIN code[i].ins : code[i].ins[k] \in DOMAIN code
      BY <3>1, OpShape DEF IInv, TypeOK
    <3>3. AllOperandsInferred(i)
      BY <1>1, <3>1, <3>2, StuckIsComplete DEF AllOperandsInferred, Equations!OperandsSolved
    <3>4. ~DimsExist(code[i].kind, Operands(code[i], type))
      BY <3>1, <3>3, InferredOperands
    <3>5. ~type[i].ranked
      BY <3>1, <3>4 DEF IInv, InferredByInterface
    <3>6. i \in worklist
      BY <1>1, <3>1, <3>5 DEF IInv, LeftHasShape
    <3> QED
      BY <1>1, <3>3, <3>6 DEF Ready
  <2> QED
    BY <1>1, <2>1, <2>2, <2>3 DEF Equations!Next, Equations!Fail
<1> QED
  BY <1>2, <1>3

\* The verifier sees the solution.
LEMMA VerifyImplements ==
  ASSUME IInv, Verify
  PROVE  Equations!Next
<1> DEFINE sol == Equations!Solution(code)
<1>1. status = "inferred" /\ worklist = {} /\ code' = code /\ type' = type /\ code \in Programs
      /\ type \in Values(code) /\ Outcome = Equations!Pending
  BY DEF Verify, IInv, NothingLeft, TypeOK, Values, Outcome, Equations!Pending
<1>2. \A i \in DOMAIN code : sol[i] = type[i]
  <2> SUFFICES ASSUME NEW i \in DOMAIN code PROVE sol[i] = type[i]
    OBVIOUS
  <2>1. CASE ReturnsDynamicShape(code[i])
    BY <1>1, <2>1, InferredIsSolution DEF IInv, LeftHasShape
  <2>2. CASE ~ReturnsDynamicShape(code[i])
    BY <2>2, StaticIsSolution
  <2> QED
    BY <2>1, <2>2
<1>3. sol = type
  BY <1>1, <1>2, SolutionSolves DEF Values
<1>4. Equations!Solved(code, sol)
  <2> SUFFICES ASSUME NEW i \in DOMAIN code, code[i].kind \notin NoResult \cup {"arg"}
               PROVE  type[i].ranked
    BY <1>3, SameOperators DEF Equations!Solved, Equations!Needed
  <2>1. CASE ReturnsDynamicShape(code[i])
    BY <1>1, <2>1 DEF IInv, LeftHasShape
  <2>2. CASE ~ReturnsDynamicShape(code[i])
    BY <2>2 DEF IInv, LeftHasShape, ReturnsDynamicShape
  <2> QED
    BY <2>1, <2>2
<1>5. Equations!Legal(code, sol) <=> \A i \in DOMAIN code : Accepted(i)
  BY <1>3, SameOperators DEF Equations!Legal, Accepted
<1>6. Outcome' = Equations!Answer(IF \A i \in DOMAIN code : Accepted(i) THEN "verified" ELSE "rejected", type)
  BY <1>1 DEF Verify, Outcome, Equations!Answer
<1> QED
  BY <1>1, <1>3, <1>4, <1>5, <1>6 DEF Equations!Next, Equations!Solve

\* The worklist implements the equations: runOnOperation() answers at most
\* once, with the solution of all the equations and the verifier's word on
\* it, or with the error that the equations call for, whatever the order.
THEOREM WorklistImplementsEquations ==
  Spec => Equations!Init /\ [][Equations!Next]_(Equations!vars)
<1>1. Init => Equations!Init
  BY DEF Init, Equations!Init, Outcome, Equations!Pending
<1>2. IInv /\ [Next]_vars => [Equations!Next]_(Equations!vars)
  <2> SUFFICES ASSUME IInv, [Next]_vars PROVE [Equations!Next]_(Equations!vars)
    OBVIOUS
  <2>1. ASSUME NEW i \in worklist, Infer(i) PROVE UNCHANGED Equations!vars
    BY <2>1 DEF Infer, Outcome, Equations!vars
  <2>2. CASE Stop
    BY <2>2, StopImplements
  <2>3. CASE Verify
    BY <2>3, VerifyImplements
  <2>4. CASE UNCHANGED vars
    BY <2>4 DEF vars, Outcome, Equations!vars
  <2>5. ASSUME NEW i \in worklist, ReadMissingDim(i) \/ NoInterface(i) PROVE Equations!Next
    BY <2>5, ErrorsImplement
  <2> QED
    BY <2>1, <2>2, <2>3, <2>4, <2>5 DEF Next
<1> QED
  BY <1>1, <1>2, InitInv, NextInv, PTL DEF Spec

-----------------------------------------------------------------------------
\* TransposeOp::build() gives the result no shape, and the casts of the
\* inliner take the type of a parameter, which has none.
BuiltUnranked ==
  \A c \in Programs : \A i \in DOMAIN c : c[i].kind \in {"transpose", "cast"} => ~c[i].type.ranked

\* What the pass writes for a transpose or a cast is what their verifiers
\* demand, also when the shape of the operand became known only later.
LEMMA InferredIsAccepted ==
  ASSUME IInv, BuiltUnranked, NEW i \in DOMAIN code, code[i].kind # "matmul"
  PROVE  Accepted(i)
<1> DEFINE ts == Operands(code[i], type)
<1>1. CASE code[i].kind \in {"transpose", "cast"} /\ type[i].ranked
  <2>1. ReturnsDynamicShape(code[i])
    BY <1>1 DEF ReturnsDynamicShape, NoResult, BuiltUnranked, IInv, TypeOK
  <2>2. type[i] = InferShapes(code[i].kind, ts)
    BY <1>1, <2>1 DEF IInv, SolvesEquations
  <2> HIDE DEF ts
  <2>3. CASE code[i].kind = "transpose"
    <3>1. type[i].dims = Reverse(ts[1].dims)
      BY <2>2, <2>3 DEF InferShapes, Tensor
    <3> QED
      BY <2>3, <3>1 DEF Accepted, Verifies, ts
  <2>4. CASE code[i].kind = "cast"
    BY <2>2, <2>4 DEF Accepted, Verifies, InferShapes, ts
  <2> QED
    BY <1>1, <2>3, <2>4
<1>2. CASE code[i].kind \in {"transpose", "cast"} /\ ~type[i].ranked
  BY <1>2 DEF Accepted, Verifies
<1>3. CASE code[i].kind \notin {"transpose", "cast"}
  BY <1>3 DEF Accepted, Verifies
<1> QED
  BY <1>1, <1>2, <1>3

\* In a function built as mlirGen() and the inliner build it, the verifier
\* that runs after the pass has something to say only about a matmul.
THEOREM RejectedForMatMul ==
  ASSUME BuiltUnranked
  PROVE  Spec => []OnlyMatMulRejected
<1>1. IInv => OnlyMatMulRejected
  BY InferredIsAccepted DEF OnlyMatMulRejected
<1> QED
  BY <1>1, InitInv, NextInv, PTL DEF Spec

=============================================================================
