------------------------------- MODULE ToyOps -------------------------------
(***************************************************************************)
(* The operations of the Toy dialect (ToyOps.td, ToyOps.cpp) as far as     *)
(* their types go.  A type is a tensor of doubles, unranked or of a known  *)
(* shape.  The body of a function is a sequence of operations in program   *)
(* order; an operation names its operands by the positions that define     *)
(* them.  A parameter of the function stands in front of the body as an    *)
(* "arg": a value that has a type and is no operation.                     *)
(***************************************************************************)
EXTENDS Naturals, Sequences, SequencesExt

Unranked == [ranked |-> FALSE, dims |-> <<>>]
Tensor(dims) == [ranked |-> TRUE, dims |-> dims]
Rank(t) == Len(t.dims)

\* The operations that implement ShapeInferenceOpInterface.
Inferable == {"add", "mul", "matmul", "transpose", "cast"}
NoResult == {"print", "return"}
Kinds == Inferable \cup NoResult \cup {"arg", "constant", "reshape", "generic_call"}

Operands(op, type) == [k \in DOMAIN op.ins |-> type[op.ins[k]]]

\* MatMulOp::inferShapes() reads dimension 0 of one operand and 1 of the other.
DimsExist(kind, ts) == kind = "matmul" => Rank(ts[1]) >= 1 /\ Rank(ts[2]) >= 2

\* seeded fault: the shape of a transpose is not reversed
InferNotReversed(kind, ts) ==
  IF kind = "matmul" THEN Tensor(<<ts[1].dims[1], ts[2].dims[2]>>) ELSE ts[1]

\* inferShapes() of each operation, from the types of its operands.
InferShapes(kind, ts) ==
  CASE kind \in {"add", "mul", "cast"} -> ts[1]
    [] kind = "transpose" -> Tensor(Reverse(ts[1].dims))
    [] kind = "matmul"    -> Tensor(<<ts[1].dims[1], ts[2].dims[2]>>)

\* verify() and areCastCompatible(), from the types of operands and result.
Verifies(kind, ts, result) ==
  CASE kind = "matmul" -> (ts[1].ranked /\ ts[2].ranked)
                            => /\ Rank(ts[1]) = 2 /\ Rank(ts[2]) = 2
                               /\ ts[1].dims[2] = ts[2].dims[1]
    [] kind = "transpose" -> (ts[1].ranked /\ result.ranked)
                               => Reverse(ts[1].dims) = result.dims
    [] kind = "cast" -> (ts[1].ranked /\ result.ranked) => ts[1] = result
    [] OTHER -> TRUE
=============================================================================
