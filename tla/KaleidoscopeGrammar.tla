------------------------ MODULE KaleidoscopeGrammar ------------------------
(***************************************************************************)
(* What the grammar of the comments in parser.cpp and the precedences make *)
(* of a text, whatever the order in which the parser finds it out.         *)
(***************************************************************************)
EXTENDS KaleidoscopeParser

\* The grammar, on complete texts.  Depth counts the brackets, and the for and
\* var whose "in" is still to come.
Depth(ts, k) == Count(ts, k, {"(", "for", "var"}) - Count(ts, k, {")", "in"})
Where(ts, class, depth) == {k \in DOMAIN ts : ts[k] \in class /\ Depth(ts, k) = depth}
Part(ts, a, b) == SubSeq(ts, a + 1, b - 1)
Cuts(ts, ks) == SetToSortSeq(ks, <)

\* The binary operators of an expression: they follow an operand, and stand
\* before any if, for or var, which reach to the end.
OperandEnd == Identifiers \cup DOMAIN Numbers \cup {")"}
Opens(ts) == {k \in DOMAIN ts : ts[k] \in {"if", "for", "var"} /\ Count(ts, k - 1, {"("}) = Count(ts, k - 1, {")"})}
Operators(ts) == {k \in DOMAIN ts : /\ TokPrecedence(ts[k]) > 0 /\ k > 1 /\ ts[k - 1] \in OperandEnd
                                    /\ Count(ts, k, {"("}) = Count(ts, k, {")"})
                                    /\ \A j \in Opens(ts) : k < j}
Root(ts) == CHOOSE k \in Operators(ts) : \A j \in Operators(ts) :
              \/ TokPrecedence(ts[k]) < TokPrecedence(ts[j])
              \/ TokPrecedence(ts[k]) = TokPrecedence(ts[j]) /\ j <= k

\* The keyword that belongs to the if in front.
Matching(ts, word) == CHOOSE k \in DOMAIN ts :
  /\ ts[k] = word /\ Count(ts, k, {"if"}) = Count(ts, k, {word})
  /\ \A j \in 1..(k - 1) : ~(ts[j] = word /\ Count(ts, j, {"if"}) = Count(ts, j, {word}))

RECURSIVE Tree(_)
Items(ts, cuts) == [k \in 1..(Len(cuts) - 1) |-> Tree(Part(ts, cuts[k], cuts[k + 1]))]
Tree(ts) ==
  LET n == Len(ts)
      in == CHOOSE k \in DOMAIN ts : /\ ts[k] = "in" /\ Depth(ts, k) = 0
                                     /\ \A j \in 1..(k - 1) : Depth(ts, j) > 0
      then == Matching(ts, "then")
      else == Matching(ts, "else")
      commas == {k \in Where(ts, {","}, 1) : k < in}
  IN
  CASE Operators(ts) # {} ->
         [node |-> "BinOp", op |-> ts[Root(ts)], kids |-> Items(ts, <<0, Root(ts), n + 1>>)]
    [] Operators(ts) = {} /\ ts[1] = "(" -> Tree(Part(ts, 1, n))
    [] Operators(ts) = {} /\ ts[1] \in Ascii \ {"("} ->
         [node |-> "Unary", op |-> ts[1], kids |-> <<Tree(Tail(ts))>>]
    [] ts[1] \in DOMAIN Numbers /\ n = 1 -> [node |-> "Num", name |-> ts[1], kids |-> <<>>]
    [] ts[1] \in Identifiers /\ n = 1 -> [node |-> "Var", name |-> ts[1], kids |-> <<>>]
    [] ts[1] \in Identifiers /\ n > 1 /\ Operators(ts) = {} ->
         [node |-> "Call", name |-> ts[1],
          kids |-> IF n = 3 THEN <<>> ELSE Items(ts, Cuts(ts, {2, n} \cup Where(ts, {","}, 1)))]
    [] ts[1] = "if" -> [node |-> "If", kids |-> Items(ts, <<1, then, else, n + 1>>)]
    [] ts[1] = "for" ->
         LET parts == Items(ts, Cuts(ts, {3, in} \cup commas)) IN
         [node |-> "For", name |-> ts[2],
          kids |-> (IF Len(parts) = 2 THEN Append(parts, Null) ELSE parts) \o <<Tree(Part(ts, in, n + 1))>>]
    [] ts[1] = "var" ->
         LET cuts == Cuts(ts, {1, in} \cup commas) IN
         [node |-> "VarIn", name |-> [k \in 1..(Len(cuts) - 1) |-> ts[cuts[k] + 1]],
          kids |-> [k \in 1..(Len(cuts) - 1) |->
                      IF cuts[k + 1] = cuts[k] + 2 THEN Null ELSE Tree(Part(ts, cuts[k] + 2, cuts[k + 1]))]
                   \o <<Tree(Part(ts, in, n + 1))>>]

\* The text of the item that has just been parsed.
ItemText == SubSeq(text, item.from, Len(text) - 1)
BodyText == IF item.kind = "expression" THEN ItemText
            ELSE Part(text, item.from + Min({k \in DOMAIN ItemText : k > 3 /\ ItemText[k] = ")"}) - 1, Len(text))
\* A ")" with no operand in front is a unary operator.
BracketsClose(ts) == \A k \in DOMAIN ts : ts[k] = ")" =>
  /\ k > 1
  /\ ts[k - 1] \in OperandEnd \/ (ts[k - 1] = "(" /\ k > 2 /\ ts[k - 2] \in Identifiers)
-----------------------------------------------------------------------------
\* An expression is what the grammar and the precedences make of its text; a
\* bracket or a comma that serves as an operator has lost its meaning.
ExpressionsFollowGrammar ==
  (Parsed /\ BracketsClose(BodyText) /\ \A t \in {"(", ")", ","} : precedence[t] = 0) =>
    value = Tree(BodyText)

\* main.cpp:240: "';' is an unkown token that is used to stop parsing".
SemicolonStopsParsing == Parsed => \A k \in DOMAIN ItemText : ItemText[k] # ";"
=============================================================================
