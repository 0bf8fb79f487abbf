--------------------------- MODULE ShapeEquations ---------------------------
(***************************************************************************)
(* What shape inference promises: the types of a function's values are     *)
(* the solution of one equation per operation, whatever the order in which *)
(* the operations are visited.  Inference answers once, with the solution, *)
(* or with an error when some operation has none.                          *)
(***************************************************************************)
EXTENDS ToyOps

CONSTANT Programs           \* the functions, as sequences of operations
VARIABLES code, outcome

Pending == [status |-> "pending", type |-> <<>>]
Answer(status, type) == [status |-> status, type |-> type]

\* The type of an operation, from those of its operands; Unranked where it
\* is a call or depends on one, or on a parameter.
TypeFrom(op, ts) ==
  IF op.type.ranked \/ op.kind \notin Inferable THEN op.type
  ELSE IF (\A k \in DOMAIN ts : ts[k].ranked) /\ DimsExist(op.kind, ts)
       THEN InferShapes(op.kind, ts) ELSE Unranked

Solution(c) ==
  LET T[i \in 1..Len(c)] == TypeFrom(c[i], Operands(c[i], T))
  IN  [i \in 1..Len(c) |-> T[i]]

OperandsSolved(c, sol, i) == \A k \in DOMAIN c[i].ins : sol[c[i].ins[k]].ranked
Needed(c) == {i \in DOMAIN c : c[i].kind \notin NoResult \cup {"arg"}}
Undefined(c, sol) == {i \in Needed(c) : /\ ~c[i].type.ranked /\ OperandsSolved(c, sol, i)
                                        /\ ~DimsExist(c[i].kind, Operands(c[i], sol))}
Calls(c, sol) == {i \in Needed(c) : ~c[i].type.ranked /\ c[i].kind \notin Inferable
                                    /\ OperandsSolved(c, sol, i)}
Solved(c, sol) == \A i \in Needed(c) : sol[i].ranked
Legal(c, sol) == \A i \in DOMAIN c : Verifies(c[i].kind, Operands(c[i], sol), sol[i])

Init == code \in Programs /\ outcome = Pending

Solve == LET sol == Solution(code) IN
  /\ Solved(code, sol)
  /\ outcome' = Answer(IF Legal(code, sol) THEN "verified" ELSE "rejected", sol)

Fail == LET sol == Solution(code) IN
  /\ Calls(code, sol) # {} \/ (Undefined(code, sol) = {} /\ ~Solved(code, sol))
  /\ outcome' = Answer("failed", <<>>)

\* A dimension that does not exist is read: an assertion, or garbage.
Crash == /\ Undefined(code, Solution(code)) # {}
         /\ outcome' = Answer("crashed", <<>>)

Next == outcome = Pending /\ code' = code /\ (Solve \/ Fail \/ Crash)

vars == <<code, outcome>>
Spec == Init /\ [][Next]_vars /\ WF_vars(Next)
=============================================================================
