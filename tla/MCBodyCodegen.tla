---------------------------- MODULE MCBodyCodegen ----------------------------
(***************************************************************************)
(* BodyCodegen on every body of a bounded shape: one construct whose       *)
(* children are leaves, and one construct around such a body, with leaves  *)
(* in its other places; and a few deeper ones.  The function is h(a); b is *)
(* a name that only the constructs inside may bind.                        *)
(***************************************************************************)
EXTENDS BodyCodegen, ExprTrees

\* TLC evaluates a table once when it is the value of a bound variable.
The(S) == CHOOSE x \in S : TRUE

\* F(x), for the members x of the sequence s, and F(x, y), for those of s and t.
Each(s, F(_)) == The({[k \in 1..Len(ss) |-> F(ss[k])] : ss \in {s \o <<>>}})
Both(s, t, F(_, _)) ==
  The({[k \in 1..(Len(ss) * Len(tt)) |->
          F(ss[((k - 1) \div Len(tt)) + 1], tt[((k - 1) % Len(tt)) + 1])] :
       ss \in {s \o <<>>}, tt \in {t \o <<>>}})

Names  == <<"a", "b">>
Leaves == <<V("a"), V("b")>>
Inits  == <<Absent, V("a"), V("b")>>
InitPairs == Both(Inits, Inits, LAMBDA x, y : <<x, y>>)

Simple ==
  <<N>> \o Leaves
  \o Both(Leaves, Leaves, LAMBDA x, y : Bin("+", x, y))
  \o Each(<<"*", "<", ":", "@">>, LAMBDA op : Bin(op, V("a"), N))
  \o Both(Names, <<N, V("b")>>, LAMBDA v, x : Bin("=", V(v), x))
  \o <<Bin("=", N, V("a")), Bin("=", Fun("g", <<N>>), V("b")), Bin("=", ForE("a", N, N, N), N)>>
  \o Each(<<"!", "?">>, LAMBDA op : Un(op, V("a")))
  \o Both(<<"g", "h", "u">>, Leaves, LAMBDA c, x : Fun(c, <<x>>))
  \o <<Fun("g", <<>>), Fun("z", <<>>), Fun("g2", <<V("b"), V("a")>>)>>
  \o Both(Leaves, Leaves, LAMBDA x, y : IfE(V("a"), x, y))
  \o Both(Names, Both(Leaves, Leaves, LAMBDA x, y : <<x, y>>),
          LAMBDA v, p : ForE(v, p[1], p[2], V("a")))
  \o Both(Names, Leaves, LAMBDA v, x : ForStep(v, V("a"), N, V(v), x))
  \o Both(Names, Both(Inits, Leaves, LAMBDA x, y : <<x, y>>),
          LAMBDA v, p : VarE(<<v>>, <<p[1]>>, p[2]))
  \o Both(<<<<"a", "b">>, <<"b", "a">>>>, InitPairs, LAMBDA ns, p : VarE(ns, p, V("b")))

Around(x) ==
  << Bin("+", x, V("a")), Bin("+", x, V("b")), Bin("+", V("b"), x),
     Bin(":", x, V("b")), Bin("=", V("a"), x), Un("!", x),
     Fun("g", <<x>>), Fun("g2", <<x, V("a")>>), Fun("g2", <<V("a"), x>>),
     IfE(x, V("a"), V("a")), IfE(V("a"), x, N), IfE(V("a"), N, x),
     ForE("a", x, V("a"), V("a")), ForE("b", V("a"), x, V("a")),
     ForE("a", V("a"), V("a"), x), ForStep("b", V("a"), V("a"), x, V("b")),
     VarE(<<"a">>, <<x>>, V("a")), VarE(<<"b">>, <<Absent>>, x),
     VarE(<<"a", "b">>, <<x, V("a")>>, V("b")), VarE(<<"b", "a">>, <<V("a"), x>>, V("b")) >>
Places == 20

\* Bodies in the style of the programs in kaleidoscope_files/.
FibI == VarE(<<"a", "b", "c">>, <<N, N, Absent>>,
          Bin(":", ForE("i", N, Bin(":", Bin(":", Bin("=", V("c"), Bin("+", V("a"), V("b"))),
                                             Bin("=", V("a"), V("b"))),
                                     Bin("=", V("b"), V("c"))),
                        Bin("<", V("i"), V("a"))),
                   V("b")))
Fib == IfE(Bin("<", V("a"), N), N,
           Bin("+", Fun("h", <<Bin("-", V("a"), N)>>), Fun("h", <<Bin("-", V("a"), N)>>)))
Nested == ForE("b", V("a"),
            Bin(":", ForE("a", V("b"), IfE(V("a"), ForE("c", N, V("c"), V("a")), V("b")), V("a")),
                     IfE(V("b"), IfE(V("a"), N, V("b")), VarE(<<"b">>, <<V("b")>>, V("b")))),
            Bin("<", V("b"), V("a")))
Density == IfE(V("a"), N, IfE(V("a"), Fun("g", <<N>>), IfE(IfE(N, N, N), N, Fun("g", <<V("a")>>))))

Deep == <<FibI, Fib, Nested, Density, Bin("+", Nested, V("b")), Bin("+", Nested, V("a")),
          VarE(<<"b">>, <<Density>>, Bin("+", IfE(Density, Nested, V("b")), V("b")))>>

Shallow == Simple \o Both(Simple, [k \in 1..Places |-> k], LAMBDA x, k : Around(x)[k])
Trees == Shallow \o Deep

(***************************************************************************)
(* The tables behind the constants: a definition of their own is evaluated *)
(* once, what a .cfg substitutes for a constant at every use.              *)
(***************************************************************************)
Absence   == <<0, <<>>>>
Names4    == {"a", "b", "c", "i"}
RootTable == The({RootsOf(ts) : ts \in {Trees}})
NodeTable == The({ShallowNodesOf(ts, 3) \cup {<<Len(ts) + n[1], n[2]>> : n \in NodesOf(ds)} :
                    ts \in {Shallow}, ds \in {Deep}})
AstTable    == The({AstOf(ts, ns, Absence) : ts \in {Trees}, ns \in {NodeTable}})
FnNameTable == The({[r \in rs |-> NamedFn("h")] : rs \in {RootTable}})
ParamsTable == The({[r \in rs |-> <<"a">>] : rs \in {RootTable}})
LexEnvTable == The({LexEnvOf(ts, ns, [i \in 1..Len(ts) |-> <<"a">>], vs) :
                      ts \in {Trees}, ns \in {NodeTable}, vs \in {Names4}})
ProtoTable  ==
  (NamedFn("g") :> <<"a">>) @@ (NamedFn("g2") :> <<"a", "b">>) @@ (NamedFn("z") :> <<>>)
  @@ (UnaryFn("!") :> <<"a">>) @@ (BinaryFn(":") :> <<"a", "b">>)

MCNoNode == Absence
MCVar    == Names4
MCOp     == {"=", "<", "+", "-", "*", ":", "@", "!", "?"}
MCCallee == {"g", "g2", "h", "u", "z", "_"}
MCNode   == NodeTable
MCRoot   == RootTable
MCAst    == AstTable
MCFnName == FnNameTable
MCParams == ParamsTable
MCLexEnv == LexEnvTable
MCKnownProtos == ProtoTable
=============================================================================
