--------------------------- MODULE MCKaleidoscope ---------------------------
(***************************************************************************)
(* Sessions over a few items that get in each other's way: definitions     *)
(* that succeed, that fail inside a scope, that repeat, that need another  *)
(* one; an operator defined and used; a host function called and defined.  *)
(* Items is one of the lists below.                                        *)
(***************************************************************************)
EXTENDS Kaleidoscope, ExprTrees

CONSTANT Items

Item(f, params, prec, body) == [f |-> f, params |-> params, prec |-> prec, body |-> body]
Expr(body) == Item(Anon, <<>>, 1, body)
Function(c, params, body) == Item(NamedFn(c), params, 1, body)
Operator(op, prec, body) == Item(BinaryFn(op), <<"a", "b">>, prec, body)

Consistent ==
  << Function("f", <<"a">>, V("a")),
     Function("g", <<"a">>, Fun("f", <<V("a")>>)),
     Function("g", <<"a">>, ForE("b", V("a"), V("c"), V("a"))), \* c is unknown
     Function("f", <<"a">>, Fun("cos", <<V("b")>>)),            \* so is b
     Operator(":", 1, V("b")),
     Operator(":", 5, V("c")),
     Function("cos", <<"a">>, V("a")),
     Expr(Bin(":", N, Fun("f", <<N>>))),
     Expr(Fun("g", <<N>>)),
     Expr(Fun("cos", <<N>>)),
     Expr(Fun("f", <<N, N>>)) >>

Inconsistent ==
  << Function("f", <<"a">>, V("a")),
     Function("f", <<"a", "b">>, V("c")),
     Expr(Fun("f", <<N, N>>)) >>

The(S) == CHOOSE x \in S : TRUE
Trees == The({s \o <<>> : s \in {[i \in 1..Len(Items) |-> Items[i].body]}})
PerRoot(F(_)) == [r \in RootsOf(Trees) |-> F(Items[r[1]])]

Absence  == <<0, <<>>>>
SomeVars == {"a", "b", "c"}
SomeOps  == {"=", "<", "+", "-", "*", ":"}

\* See MCBodyCodegen about these tables.
NodeTable   == The({NodesOf(ts) : ts \in {Trees}})
RootTable   == RootsOf(Trees)
AstTable    == The({AstOf(ts, ns, Absence) : ts \in {Trees}, ns \in {NodeTable}})
LexEnvTable == The({LexEnvOf(ts, ns, [i \in 1..Len(ts) |-> Items[i].params], SomeVars) :
                      ts \in {Trees}, ns \in {NodeTable}})
FnNameTable == PerRoot(LAMBDA x : x.f)
ParamsTable == PerRoot(LAMBDA x : x.params)
PrecTable   == PerRoot(LAMBDA x : x.prec)
BodyOfTable == [n \in NodeTable |-> <<n[1], <<>>>>]
ExternTable == {<<NamedFn("f"), <<"a">>>>, <<NamedFn("f"), <<"b">>>>, <<NamedFn("cos"), <<"a">>>>}
HostTable   == NamedFn("cos") :> 1

MCNoNode == Absence
MCVar    == SomeVars
MCOp     == SomeOps
MCCallee == {"f", "g", "cos", "_"}
MCNode   == NodeTable
MCRoot   == RootTable
MCAst    == AstTable
MCFnName == FnNameTable
MCParams == ParamsTable
MCLexEnv == LexEnvTable
MCExterns    == ExternTable
MCHostArity  == HostTable
MCPrecedence == PrecTable
MCBodyOf     == BodyOfTable
=============================================================================
