----------------------------- MODULE MCLocalOpts -----------------------------
(***************************************************************************)
(* Every pair of operators with the constants at which the passes change   *)
(* their mind, chains of four additions in every order of their blocks,    *)
(* and the operators of the tests.                                         *)
(***************************************************************************)
EXTENDS LocalOpts

One(n) == <<[k \in 1..n |-> k]>>
Program(c, b, l) == [code |-> c, body |-> b, layout |-> l]
Straight(c) == Program(c, One(Len(c)), <<1>>)

\* 12 and 27 leave too much for a multiplication and for a division
Constants == {-1, 0, 1, 2, 3, 4, 12, 27}
Values(n) == {Arg} \cup {Inst(i) : i \in 1..n}
Ops == {"add", "sub", "mul", "udiv", "sdiv"}
WithConst(n, ops, cs) == {Op(o, v, Const(c)) : o \in ops, v \in Values(n), c \in cs}
                         \cup {Op(o, Const(c), v) : o \in ops, v \in Values(n), c \in cs}
Operators(n) == WithConst(n, Ops, Constants) \cup {Op(o, v, w) : o \in {"add", "mul"}, v, w \in Values(n)}
Pairs == {Straight(<<e, f>>) : e \in Operators(0), f \in {g \in Operators(1) : Inst(1) \in {g.lhs, g.rhs}}}

\* an entry block without operators, then one block for each
Layouts == {<<1>> \o l : l \in {<<2, 3, 4, 5>>, <<5, 4, 3, 2>>, <<4, 3, 2, 5>>, <<3, 5, 4, 2>>, <<5, 2, 4, 3>>}}
Link(n) == {Op("add", Inst(n), Const(c)) : c \in {1, -1}}
Chains == {Program(<<e, f, g, h>>, <<<<>>, <<1>>, <<2>>, <<3>>, <<4>>>>, l) :
             e \in {Op("add", Arg, Const(c)) : c \in {1, -1}}, f \in Link(1), g \in Link(2), h \in Link(3), l \in Layouts}
Cancelling == {Straight(<<Op(o, Arg, Const(1)), e, f>>) : o \in {"add", "sub"},
                 e \in WithConst(1, {"add", "sub"}, {1, -1}), f \in WithConst(2, {"add", "sub"}, {1, -1})}
MCPrograms == Pairs \cup Chains \cup Cancelling

Alg == "alg-identity-pass"
Strength == "strength-reduction-pass"
Multi == "multi-instruction-pass"
Local == "local-opts-pass"
MCPipelines == {<<Alg>>, <<Multi>>, <<Strength, Local>>, <<Local, Strength>>, <<Multi, Alg>>, <<Alg, Multi, Strength>>}
=============================================================================
