---------------------------- MODULE MCToyMLIRGen ----------------------------
(***************************************************************************)
(* Modules of one or two functions.  The first, f, has every body of up to *)
(* two statements of Statements; the second calls it, or has the same      *)
(* name, a repeated parameter or a variable of f.                          *)
(***************************************************************************)
EXTENDS ToyMLIRGen

Num == [node |-> "Num"]
Lit(dims) == [node |-> "Literal", dims |-> dims]
Var(x) == [node |-> "Var", name |-> x]
Bin(op, l, r) == [node |-> "BinOp", op |-> op, lhs |-> l, rhs |-> r]
Call(f, args) == [node |-> "Call", callee |-> f, args |-> args]
PrintOf(e) == [node |-> "Print", arg |-> e]
Decl(x, shape, e) == [node |-> "VarDecl", name |-> x, shape |-> shape, init |-> e]
Ret(e) == [node |-> "Return", expr |-> e]

Statements == {
  Decl("x", <<>>, Num), Decl("y", <<2, 2>>, Bin("+", Var("x"), Var("a"))), Decl("a", <<>>, Num),
  Decl("y", <<>>, None), Decl("x", <<>>, Call("transpose", <<Lit(<<2, 3>>), Var("a")>>)),
  PrintOf(Var("x")), PrintOf(Call("transpose", <<Bin("*", Var("a"), Var("x"))>>)),
  PrintOf(Bin("-", Num, Var("a"))), Bin("+", Num, PrintOf(Num)), Call("f", <<Var("y"), Num>>),
  Bin("@", Lit(<<2, 3>>), Lit(<<2, 3>>)), Bin("@", Lit(<<2, 3>>), Call("transpose", <<Var("a")>>)),
  Ret(None), Ret(Bin("*", Var("a"), Var("x"))) }

Function(name, params, body) == [name |-> name, params |-> params, body |-> body]
BodiesUpTo2 == {<<>>} \cup {<<s>> : s \in Statements} \cup {<<s, t>> : s, t \in Statements}
Seconds == {
  Function("main", <<>>, <<Decl("x", <<3>>, Call("f", <<Num>>)), PrintOf(Var("x")), Ret(None)>>),
  Function("main", <<>>, <<PrintOf(Var("a"))>>),
  Function("main", <<"b", "b">>, <<>>),
  Function("f", <<"c">>, <<Ret(Var("c")), PrintOf(Var("y"))>>) }

One == {<<Function("f", <<"a">>, b)>> : b \in BodiesUpTo2}
Two == {<<Function("f", <<"a">>, b), g>> : b \in BodiesUpTo2, g \in Seconds}
Modules == One \cup Two

RECURSIVE Below(_)
Below(e) == {e} \cup UNION {Below(Children(e)[k]) : k \in DOMAIN Children(e)}
Bodies == Statements \cup UNION {Elements(g.body) : g \in Seconds}
Nodes == UNION {Below(s) \cup Below(Subject(s)) : s \in Bodies}
MCWithin == [e \in Nodes |-> Below(e)]
=============================================================================
