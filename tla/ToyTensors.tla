----------------------------- MODULE ToyTensors -----------------------------
(***************************************************************************)
(* Tensors and what the operations of Toy compute of them, as ToyOps.td    *)
(* describes them.  A tensor is its dimensions and its elements in         *)
(* row-major order; integers stand for the doubles.                        *)
(***************************************************************************)
EXTENDS ToyOps, Integers, FiniteSets

Indices(dims) ==
  {x \in [DOMAIN dims -> 0..Max({0} \cup ToSet(dims))] : \A k \in DOMAIN dims : x[k] < dims[k]}
Size(dims) == FoldLeft(LAMBDA n, d : n * d, 1, dims)
Offset(dims, x) == FoldLeftDomain(LAMBDA n, k : n * dims[k] + x[k], 0, dims)

Value(dims, data) == [dims |-> dims, data |-> data]
Element(t, x) == t.data[Offset(t.dims, x) + 1]
Build(dims, F(_)) ==
  Value(dims, [k \in 1..Size(dims) |-> F(CHOOSE x \in Indices(dims) : Offset(dims, x) = k - 1)])

\* Elements in order, with a newline behind each inner dimension.
Newline == -100
Text(t) ==
  LET ends(k) == Cardinality({j \in 2..Len(t.dims) : k % Size(SubSeq(t.dims, j, Len(t.dims))) = 0})
  IN  FlattenSeq([k \in DOMAIN t.data |-> <<t.data[k]>> \o [j \in 1..ends(k) |-> Newline]])

Dot(a, b, i, j) == FoldLeft(LAMBDA n, k : n + Element(a, <<i, k - 1>>) * Element(b, <<k - 1, j>>), 0,
                            [k \in 1..a.dims[2] |-> k])

\* The operations that compute a tensor, and when they can.
Defined(op, v) ==
  CASE op.kind \in {"add", "mul"} -> v[1].dims = v[2].dims
    [] op.kind = "matmul" -> Len(v[1].dims) = 2 /\ Len(v[2].dims) = 2 /\ v[1].dims[2] = v[2].dims[1]
    [] op.kind = "reshape" -> Size(op.type.dims) = Size(v[1].dims)
    [] OTHER -> TRUE
Computed(op, v) ==
  CASE op.kind = "constant" -> Value(op.type.dims, op.data)
    [] op.kind = "reshape" -> Value(op.type.dims, v[1].data)
    [] op.kind = "cast" -> v[1]
    [] op.kind = "transpose" -> Build(Reverse(v[1].dims), LAMBDA x : Element(v[1], Reverse(x)))
    [] op.kind = "add" -> Build(v[1].dims, LAMBDA x : Element(v[1], x) + Element(v[2], x))
    [] op.kind = "mul" -> Build(v[1].dims, LAMBDA x : Element(v[1], x) * Element(v[2], x))
    [] op.kind = "matmul" -> Build(<<v[1].dims[1], v[2].dims[2]>>, LAMBDA x : Dot(v[1], v[2], x[1], x[2]))

Parameters(body) == {i \in DOMAIN body : body[i].kind = "arg"}
Erased == [kind |-> "erased", ins |-> <<>>, type |-> Unranked, data |-> <<>>, callee |-> ""]
=============================================================================
