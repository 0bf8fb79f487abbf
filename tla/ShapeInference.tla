--------------------------- MODULE ShapeInference ---------------------------
(***************************************************************************)
(* ShapeInferencePass.cpp on one function, and the verifier the pass       *)
(* manager runs after it.  The worklist is a set ordered by the addresses  *)
(* of the operations: any operation that is ready may come next.           *)
(***************************************************************************)
EXTENDS ToyOps

CONSTANT Programs           \* the functions, as sequences of operations
ASSUME ProgramsAssumption ==
  /\ \A c \in Programs :
       /\ c \in Seq([kind : Kinds, ins : Seq(Nat),
                     type : [ranked : BOOLEAN, dims : Seq(Nat)]])
       /\ \A i \in DOMAIN c :
            /\ \A k \in DOMAIN c[i].ins : /\ c[i].ins[k] \in 1..(i - 1)
                                          /\ c[c[i].ins[k]].kind \notin NoResult
            /\ c[i].kind \in {"constant", "reshape"} => c[i].type.ranked
            /\ c[i].kind \in {"transpose", "cast"} => Len(c[i].ins) = 1
            /\ c[i].kind \in {"add", "mul", "matmul"} => Len(c[i].ins) = 2

VARIABLES code, type, worklist, status
vars == <<code, type, worklist, status>>

ReturnsDynamicShape(op) == op.kind \notin NoResult \cup {"arg"} /\ ~op.type.ranked
AllOperandsInferred(i) == \A k \in DOMAIN code[i].ins : type[code[i].ins[k]].ranked

\* seeded faults: one inferred operand is enough; only the end of the set is tried
ReadySome == {i \in worklist : \E k \in DOMAIN code[i].ins : type[code[i].ins[k]].ranked}
ReadyLast == {i \in worklist : AllOperandsInferred(i) /\ \A j \in worklist : j <= i}
Ready == {i \in worklist : AllOperandsInferred(i)}

\* verify() of one operation, as far as the types known now let it decide.
Accepted(i) == Verifies(code[i].kind, Operands(code[i], type), type[i])

Init ==
  /\ code \in Programs
  /\ type = [i \in DOMAIN code |-> code[i].type]
  /\ worklist = {i \in DOMAIN code : ReturnsDynamicShape(code[i])}
  /\ status = "running"
  /\ \A i \in DOMAIN code : Accepted(i)      \* mlirGen() has verified the module

Infer(i) == LET ts == Operands(code[i], type) IN
  /\ status = "running"
  /\ i \in Ready
  /\ code[i].kind \in Inferable
  /\ DimsExist(code[i].kind, ts)
  /\ type' = [type EXCEPT ![i] = InferShapes(code[i].kind, ts)]
  /\ worklist' = worklist \ {i}
  /\ UNCHANGED <<code, status>>

\* MatMulOp::inferShapes() on an operand of too small a rank.
ReadMissingDim(i) ==
  /\ status = "running"
  /\ i \in Ready
  /\ code[i].kind \in Inferable
  /\ ~DimsExist(code[i].kind, Operands(code[i], type))
  /\ status' = "crashed"
  /\ worklist' = worklist \ {i}
  /\ UNCHANGED <<code, type>>

NoInterface(i) ==
  /\ status = "running"
  /\ i \in Ready
  /\ code[i].kind \notin Inferable
  /\ status' = "failed"
  /\ worklist' = worklist \ {i}
  /\ UNCHANGED <<code, type>>

\* seeded fault: what is left in the worklist is not looked at
StopAnyway == status = "running" /\ Ready = {} /\ status' = "inferred" /\ UNCHANGED <<code, type, worklist>>

\* No operation is ready: the pass has succeeded if none is left.
Stop ==
  /\ status = "running"
  /\ Ready = {}
  /\ status' = IF worklist = {} THEN "inferred" ELSE "failed"
  /\ UNCHANGED <<code, type, worklist>>

Verify ==
  /\ status = "inferred"
  /\ status' = IF \A i \in DOMAIN code : Accepted(i) THEN "verified" ELSE "rejected"
  /\ UNCHANGED <<code, type, worklist>>

Next == Stop \/ Verify \/ \E i \in worklist : Infer(i) \/ ReadMissingDim(i) \/ NoInterface(i)

\* One thread runs the pass to its end.
Spec == Init /\ [][Next]_vars /\ WF_vars(Next)
-----------------------------------------------------------------------------
Types == [ranked : BOOLEAN, dims : Seq(Nat)]

TypeOK ==
  /\ code \in Programs
  /\ type \in [DOMAIN code -> Types]
  /\ worklist \subseteq {i \in DOMAIN code : ReturnsDynamicShape(code[i])}
  /\ status \in {"running", "inferred", "failed", "crashed", "verified", "rejected"}

\* Every shape that has been inferred is still the one its operation gives
\* for the shapes its operands have now, although the operands were visited
\* in any order and nothing is visited twice.
SolvesEquations ==
  \A i \in DOMAIN code :
    type[i].ranked /\ ReturnsDynamicShape(code[i]) =>
      /\ AllOperandsInferred(i)
      /\ type[i] = InferShapes(code[i].kind, Operands(code[i], type))

\* A function without parameters and calls (main after inlining) never fails
\* to be inferred: whatever is left, one operation is always ready.
Closed == \A i \in DOMAIN code : code[i].kind \notin {"arg", "generic_call"}
ClosedNeverFails == Closed => status # "failed"

\* What inference writes satisfies the verifiers of transpose and cast; only
\* a product of matrices that do not fit is rejected.
OnlyMatMulRejected ==
  status = "rejected" => \A i \in DOMAIN code : Accepted(i) \/ code[i].kind = "matmul"

\* The pass implements its equations: the same answer in every order, the
\* right error, and an answer at all.
Outcome == CASE status \in {"running", "inferred"} -> [status |-> "pending", type |-> <<>>]
             [] status \in {"verified", "rejected"} -> [status |-> status, type |-> type]
             [] OTHER -> [status |-> status, type |-> <<>>]
Equations == INSTANCE ShapeEquations WITH outcome <- Outcome
ImplementsEquations == Equations!Spec

\* test/toy/ast.toy:26-27 says that a call with incompatible shapes "will
\* trigger a shape inference error", and ToyOps.td that the operands' shapes
\* are expected to match; AddOp and MulOp take the shape on the left.
ElementwiseShapesMatch ==
  status = "verified" =>
    \A i \in DOMAIN code : code[i].kind \in {"add", "mul"} =>
      type[code[i].ins[1]] = type[code[i].ins[2]]

\* ToyOps.cpp:182-184: operands of matmul that are not of rank 2 are reported
\* by the verifier.  inferShapes() comes before it and reads the dimensions.
MatMulRankReported == status # "crashed"

=============================================================================
