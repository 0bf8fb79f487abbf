------------------------------- MODULE MCLICM -------------------------------
(***************************************************************************)
(* Three instructions in every place of six control flow graphs, with      *)
(* every choice of operands that SSA form allows; the first may be a phi   *)
(* in the header of a loop; and one program of four.                       *)
(***************************************************************************)
EXTENDS LICM, TLC

Loop(order, inner, simplified) ==
  [order |-> order, inner |-> inner, preheader |-> "pre", simplified |-> simplified]
Graph(succ, header, loops) == [succ |-> succ, header |-> header, loops |-> loops,
                               dominance |-> Dominance("pre", succ)]

\* while and do loops, a conditional body, a break, two nested loops, a loop
\* that is not in simplified form, and two loops in a row
While == Graph("pre" :> {"h"} @@ "h" :> {"b", "x"} @@ "b" :> {"h"} @@ "x" :> {},
               {"h"}, <<Loop(<<"h", "b">>, {}, TRUE)>>)
Do == Graph("pre" :> {"h"} @@ "h" :> {"b"} @@ "b" :> {"h", "x"} @@ "x" :> {},
            {"h"}, <<Loop(<<"h", "b">>, {}, TRUE)>>)
IfBody == Graph("pre" :> {"h"} @@ "h" :> {"t", "l", "x"} @@ "t" :> {"l"} @@ "l" :> {"h"} @@ "x" :> {},
                {"h"}, <<Loop(<<"h", "t", "l">>, {}, TRUE)>>)
Break == Graph("pre" :> {"h"} @@ "h" :> {"t", "x"} @@ "t" :> {"h", "y"} @@ "x" :> {} @@ "y" :> {},
               {"h"}, <<Loop(<<"h", "t">>, {}, TRUE)>>)
Nested == Graph("pre" :> {"h"} @@ "h" :> {"g", "x"} @@ "g" :> {"g", "l"} @@ "l" :> {"h"} @@ "x" :> {},
                {"h", "g"}, <<Loop(<<"h", "g", "l">>, {"g"}, TRUE)>>)
TwoLoops == Graph("pre" :> {"h"} @@ "h" :> {"h", "x"} @@ "x" :> {"x", "y"} @@ "y" :> {},
                  {"h", "x"}, <<Loop(<<"x">>, {}, FALSE), Loop(<<"h">>, {}, TRUE)>>)

Graphs == {While, Do, IfBody, Break, Nested, TwoLoops}

Operands == {<<u, v, w>> : u \in SUBSET {1, 2, 3}, v \in SUBSET {1}, w \in SUBSET {1, 2}}
Place(g, place, uses, phis) ==
  [succ |-> g.succ, dominance |-> g.dominance, loops |-> g.loops, uses |-> uses, phis |-> phis,
   code |-> [b \in DOMAIN g.succ |-> SelectSeq(<<1, 2, 3>>, LAMBDA i : place[i] = b)]]
Places(g) == {<<p, q, r>> : p, q, r \in DOMAIN g.succ}
Defined(g, p, u, is) == \A i \in is : \A o \in u[i] : <<p[o], p[i]>> \in g.dominance
Carried(g, p, o) == \E q \in DOMAIN g.succ \ {"pre"} : p[1] \in g.succ[q] /\ <<p[o], q>> \in g.dominance

Ordinary(g, u) == {Place(g, p, u, {}) : p \in {p \in Places(g) : Defined(g, p, u, 1..3)}}
WithPhi(g, u) == {Place(g, p, u, {1}) : p \in {p \in Places(g) :
  p[1] \in g.header /\ Defined(g, p, u, {2, 3}) /\ \A o \in u[1] : Carried(g, p, o)}}
\* 3 and 4 stand in the inner loop, 1 is a phi that is found late.
Crossed == [succ |-> Nested.succ, dominance |-> Nested.dominance, loops |-> Nested.loops,
            uses |-> <<{2}, {}, {1}, {3}>>, phis |-> {1},
            code |-> "pre" :> <<>> @@ "h" :> <<1>> @@ "g" :> <<3, 4>> @@ "l" :> <<2>> @@ "x" :> <<>>]
Programs_ == {Crossed} \cup UNION {UNION {WithPhi(g, u) \cup (IF u[1] = {} THEN Ordinary(g, u) ELSE {}) : u \in Operands} : g \in Graphs}
=============================================================================
