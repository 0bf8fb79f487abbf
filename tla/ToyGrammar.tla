------------------------------ MODULE ToyGrammar ------------------------------
(***************************************************************************)
(* What the grammar of Parser.h and the precedences make of a text,        *)
(* whatever the order in which the parser finds it out.                    *)
(***************************************************************************)
EXTENDS ToyParser

\* The grammar, on complete texts: the root of an expression is the last of
\* its operators of the lowest precedence outside all brackets.
Depth(ts, k) == Cardinality({j \in 1..k : ts[j] \in {"(", "["}})
                  - Cardinality({j \in 1..k : ts[j] \in {")", "]"}})
Outside(ts, class) == {k \in DOMAIN ts : ts[k] \in class /\ Depth(ts, k) = 0}
Lowest(ts) == CHOOSE k \in Outside(ts, {"+", "-", "*", "@"}) :
                \A j \in Outside(ts, {"+", "-", "*", "@"}) :
                  \/ Precedence(ts[k]) < Precedence(ts[j])
                  \/ Precedence(ts[k]) = Precedence(ts[j]) /\ j <= k

RECURSIVE Tree(_)
Items(ts) ==
  IF ts = <<>> THEN <<>>
  ELSE LET cuts == SetToSortSeq({0, Len(ts) + 1} \cup Outside(ts, {","}), <)
       IN  [k \in 1..(Len(cuts) - 1) |-> Tree(SubSeq(ts, cuts[k] + 1, cuts[k + 1] - 1))]
Tree(ts) ==
  CASE Outside(ts, {"+", "-", "*", "@"}) # {} ->
         [node |-> "BinOp", op |-> ts[Lowest(ts)], lhs |-> Tree(SubSeq(ts, 1, Lowest(ts) - 1)),
          rhs |-> Tree(SubSeq(ts, Lowest(ts) + 1, Len(ts)))]
    [] OTHER ->
         LET inner == SubSeq(ts, 2, Len(ts) - 1)
             args  == SubSeq(ts, 3, Len(ts) - 1)
         IN  CASE ts[1] = "(" -> Tree(inner)
               [] ts[1] = "[" -> Literal(Items(inner))
               [] ts[1] \in Numbers -> [node |-> "Num", value |-> ts[1]]
               [] ts[1] \in Identifiers /\ Len(ts) = 1 -> [node |-> "Var", name |-> ts[1]]
               [] ts[1] = "print" /\ Len(ts) > 1 -> [node |-> "Print", arg |-> Tree(args)]
               [] OTHER -> [node |-> "Call", callee |-> ts[1], args |-> Items(args)]

RECURSIVE Shaped(_)
Shaped(e) == e.node = "Literal" =>
               /\ \A k \in DOMAIN e.values : Shaped(e.values[k])
               /\ \A k \in DOMAIN e.values :
                    IF Len(e.dims) = 1 THEN e.values[k].node = "Num"
                                       ELSE e.values[k].dims = Tail(e.dims)
-----------------------------------------------------------------------------
\* Operators group to the left and by precedence, whatever parentheses, calls
\* and literals stand between them; every literal has one shape.
ExpressionsFollowGrammar ==
  (At("value") /\ Len(stack) = 1) =>
    value = Tree(SubSeq(text, stack[1].from, Len(text) - 1)) /\ Shaped(value)
================================================================================
