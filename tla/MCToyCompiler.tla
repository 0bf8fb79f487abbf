---------------------------- MODULE MCToyCompiler ----------------------------
(***************************************************************************)
(* Files that cannot be read, and programs of two tensors, two operations  *)
(* on them and a print, with and without functions to call.                *)
(***************************************************************************)
EXTENDS ToyCompilerMeaning

Op(kind, ins) == [Erased EXCEPT !.kind = kind, !.ins = ins]
Const(dims, data) == [Op("constant", <<>>) EXCEPT !.type = Tensor(dims), !.data = data]
Reshape(i, dims) == [Op("reshape", <<i>>) EXCEPT !.type = Tensor(dims)]
Call(f, ins) == [Op("generic_call", ins) EXCEPT !.callee = f]
Arg == Op("arg", <<>>)
Ret(ins) == <<Op("return", ins)>>

Six == <<1, 2, 3, 4, 5, 6>>
Matrix == Const(<<2, 3>>, Six)
\* the second tensor: a matrix, the elements of one reshaped, a vector, a scalar
Seconds == {Const(<<3, 2>>, <<2, 0, 1, 5, 3, 7>>), Reshape(1, <<3, 2>>), Reshape(1, <<2, 3>>), Const(<<2>>, <<8, 9>>),
            Const(<<>>, <<4>>)}
Functions ==
  "twice" :> <<Arg, Op("transpose", <<1>>), Op("transpose", <<2>>)>> \o Ret(<<3>>)
  @@ "times" :> <<Arg, Arg, Op("transpose", <<1>>), Op("transpose", <<2>>), Op("mul", <<3, 4>>)>> \o Ret(<<5>>)
  @@ "show" :> <<Arg, Op("print", <<1>>), Call("twice", <<1>>)>> \o Ret(<<3>>)
  @@ "void" :> <<Arg, Op("print", <<1>>)>> \o Ret(<<>>)
  @@ "again" :> <<Arg, Call("again", <<1>>)>> \o Ret(<<2>>)

Unary(n) == {Op("transpose", <<n>>), Reshape(n, <<3, 2>>), Reshape(n, <<6>>), Call("twice", <<n>>), Call("show", <<n>>)}
Binary(m, n) == {Op(k, <<m, n>>) : k \in {"add", "mul", "matmul"}} \cup {Call("times", <<m, n>>)}
Third == Unary(1) \cup Unary(2) \cup Binary(1, 2) \cup Binary(1, 1) \cup {Call("void", <<1>>), Call("again", <<1>>)}
Fourth == {Op("transpose", <<3>>), Reshape(3, <<2, 3>>), Op("add", <<3, 1>>), Op("matmul", <<1, 3>>),
           Op("matmul", <<3, 2>>), Call("twice", <<3>>), Call("times", <<3>>)}
Bodies == {<<Matrix, s, t, u, Op("print", <<4>>)>> \o Ret(<<>>) : s \in Seconds, t \in Third, u \in Fourth}
          \cup {<<Matrix, s, t, Op("print", <<3>>)>> \o Ret(<<>>) : s \in Seconds, t \in Unary(1) \cup Unary(2)}
          \cup {<<Matrix>> \o Ret(<<1>>), <<Arg, Op("print", <<1>>)>> \o Ret(<<>>), <<>>, Ret(<<>>),
                <<Const(<<3>>, <<1, 2, 3>>), Reshape(1, <<2, 2>>), Op("print", <<2>>)>> \o Ret(<<>>),
                <<Const(<<2>>, <<1, 2>>), Reshape(1, <<2, 1>>), Reshape(2, <<1, 2>>), Op("print", <<3>>)>> \o Ret(<<>>),
                <<Const(<<2, 1, 2>>, <<1, 2, 3, 4>>), Op("transpose", <<1>>), Op("print", <<1>>), Op("print", <<2>>)>>
                  \o Ret(<<>>)}

File(name, content, generates, body) ==
  [name |-> name, content |-> content, generates |-> generates, main |-> body, functions |-> Functions]
MCInputs == {File(".toy", "toy", TRUE, b) : b \in Bodies}
            \cup {File(n, c, g, Ret(<<>>)) : n \in {".toy", ".mlir"}, c \in {"toy", "mlir", "broken", "missing"}, g \in BOOLEAN}
=============================================================================
