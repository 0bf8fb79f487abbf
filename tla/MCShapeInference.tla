-------------------------- MODULE MCShapeInference --------------------------
(***************************************************************************)
(* Every function of two values and one operation, or two operations, over *)
(* a 2x3 and a 3x2 constant, a scalar and a parameter, and longer ones:    *)
(* chains that become ready one at a time, a call in the middle, a matmul  *)
(* of the result of a transpose.                                           *)
(***************************************************************************)
EXTENDS ShapeInference, FiniteSets

Const(dims) == [kind |-> "constant", ins |-> <<>>, type |-> Tensor(dims)]
Arg == [kind |-> "arg", ins |-> <<>>, type |-> Unranked]
Un(kind, a) == [kind |-> kind, ins |-> <<a>>, type |-> Unranked]
Bin(kind, a, b) == [kind |-> kind, ins |-> <<a, b>>, type |-> Unranked]
Reshape(a, dims) == [kind |-> "reshape", ins |-> <<a>>, type |-> Tensor(dims)]
PrintOf(a) == [kind |-> "print", ins |-> <<a>>, type |-> Unranked]

Leaves == {Const(<<2, 3>>), Const(<<3, 2>>), Const(<<>>), Arg}
OpsAt(n) ==
  {Un(k, a) : k \in {"transpose", "cast", "generic_call"}, a \in 1..(n - 1)}
    \cup {Bin(k, a, b) : k \in {"add", "matmul"}, a, b \in 1..(n - 1)}

Two == {<<a, b>> : a \in Leaves, b \in Leaves \cup OpsAt(2)}
Three == {Append(c, op) : c \in Two, op \in OpsAt(3)}
\* a fourth operation that uses the third
Four == {Append(c, op) : c \in Three,
           op \in {Un("transpose", 3)} \cup {Bin(k, a, 3) : k \in {"add", "matmul"}, a \in {1, 3}}}

Long == {
  <<Const(<<2, 3>>), Un("cast", 1), Un("transpose", 2), Bin("matmul", 3, 2), Bin("mul", 4, 4),
    Un("transpose", 5), Bin("add", 6, 5), Reshape(7, <<9>>), Un("cast", 8), PrintOf(9)>>,
  <<Const(<<2, 3>>), Const(<<3, 2>>), Bin("matmul", 1, 2), Un("transpose", 3),
    Un("generic_call", 4), Bin("add", 5, 4), Un("transpose", 2), Bin("mul", 1, 7), PrintOf(6)>>,
  <<Arg, Const(<<4, 1>>), Un("transpose", 2), Bin("mul", 1, 3), Un("cast", 2),
    Bin("matmul", 5, 3), Bin("add", 6, 4)>> }

Functions == Three \cup Four \cup Long
=============================================================================
