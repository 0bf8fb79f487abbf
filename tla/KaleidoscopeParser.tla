-------------------------- MODULE KaleidoscopeParser --------------------------
(***************************************************************************)
(* parser.cpp and the loop of main.cpp that calls it: recursive descent    *)
(* over a stream of tokens, with a table of precedences that definitions   *)
(* change while the stream is read.  "text" is what the lexer has supplied *)
(* so far, the current token last; the activations of the parse functions  *)
(* stand on "stack".                                                       *)
(***************************************************************************)
EXTENDS Integers, Sequences, FiniteSets, SequencesExt

CONSTANTS Identifiers,            \* the tokens of this class
          Numbers,                \* number tokens, with their values in tenths
          Ascii,                  \* the characters that are tokens of their own
          Scripts,                \* how the stream begins
          Tokens, Free            \* what may follow the script, and how much

\* The classes of tokens: a keyword is neither a name, a number nor a character.
Keywords == {"def", "extern", "if", "then", "else", "for", "in", "var", "unary", "binary"}
Stream == Keywords \cup Identifiers \cup DOMAIN Numbers \cup Ascii \cup {"eof"}
ASSUME TokenAssumption ==
  /\ (Keywords \cup {"eof"}) \cap (Identifiers \cup DOMAIN Numbers \cup Ascii) = {}
  /\ \A n \in DOMAIN Numbers : Numbers[n] \in Nat
  /\ \A s \in Scripts : s \in Seq(Stream) /\ s # <<>>
  /\ Tokens \subseteq Stream

VARIABLES script, text, pc, stack, value, item, precedence, accepted, reported
vars == <<script, text, pc, stack, value, item, precedence, accepted, reported>>

CurTok == text[Len(text)]
Null == [node |-> "null"]

\* gettok(): the next token of the script, then any, at last the end.
Supply(n) == IF n <= Len(script) THEN {script[n]}
             ELSE IF n <= Len(script) + Free /\ CurTok # "eof" THEN Tokens \cup {"eof"}
             ELSE {"eof"}
GetNextToken == \E t \in Supply(Len(text) + 1) : text' = Append(text, t) /\ UNCHANGED script

\* GetTokPrecedence() on the map BinopPrecedence, where no entry counts as 0.
TokPrecedence(t) == IF t \in Ascii /\ precedence[t] > 0 THEN precedence[t] ELSE -1
Builtin == [t \in Ascii |-> CASE t = "=" -> 2 [] t = "<" -> 10 [] t \in {"+", "-"} -> 20
                              [] t = "*" -> 40 [] OTHER -> 0]

Init ==
  /\ script \in Scripts
  /\ text = <<Head(script)>>
  /\ pc = "main" /\ stack = <<>> /\ value = Null
  /\ item = [kind |-> "none", from |-> 1]
  /\ precedence = Builtin
  /\ accepted = [k \in {"def", "extern", "expression"} |-> 0]
  /\ reported = FALSE
-----------------------------------------------------------------------------
Others == UNCHANGED <<item, precedence, accepted, reported>>
Goto(p) == GetNextToken /\ pc' = p /\ UNCHANGED <<stack, value>>
Expect(p, ts, q) == pc = p /\ CurTok \in ts /\ Goto(q)

Abandon(rest) == pc' = "main" /\ stack' = rest /\ value' = Null /\ UNCHANGED <<item, precedence, accepted>>
\* seeded faults: the handler skips nothing; nothing is logged
FailInPlace == Abandon(<<>>) /\ reported' = TRUE /\ UNCHANGED <<script, text>>
FailQuietly == Abandon(<<>>) /\ UNCHANGED reported /\ GetNextToken
\* A parse function logs an error and returns nullptr, and so does every one
\* around it; the handler skips the current token.
Fail == Abandon(<<>>) /\ reported' = TRUE /\ GetNextToken
Unexpected(p, ts) == pc = p /\ CurTok \notin ts /\ Fail

\* MainLoop()
EndOfFile == /\ pc = "main" /\ CurTok = "eof" /\ pc' = "done"
             /\ UNCHANGED <<script, text, stack, value>> /\ Others
TopSemicolon == Expect("main", {";"}, "main") /\ Others
Prototype == [kind |-> "function", op |-> "", args |-> 0, precedence |-> 30]
Keyword == /\ pc = "main" /\ CurTok \in {"def", "extern"}
           /\ Goto("prototype")
           /\ item' = [kind |-> CurTok, from |-> Len(text), proto |-> Prototype]
           /\ UNCHANGED <<precedence, accepted, reported>>
TopLevelExpression == /\ pc = "main" /\ CurTok \notin {"eof", ";", "def", "extern"}
                      /\ pc' = "unary"
                      /\ item' = [kind |-> "expression", from |-> Len(text)]
                      /\ UNCHANGED <<script, text, stack, value, precedence, accepted, reported>>

\* ParsePrototype()
Set(field, v) == /\ item' = [item EXCEPT !.proto[field] = v]
                 /\ UNCHANGED <<precedence, accepted, reported>>
FunctionName == Expect("prototype", Identifiers, "open") /\ Others
OperatorKind == Expect("prototype", {"unary", "binary"}, "operator") /\ Set("kind", CurTok)
OperatorName == /\ pc = "operator" /\ CurTok \in Ascii
                /\ Goto(IF item.proto.kind = "binary" THEN "precedence" ELSE "open")
                /\ Set("op", CurTok)
\* seeded fault: there is no lower bound
AtMost100(n) == Numbers[n] <= 1000
ValidPrecedence(n) == Numbers[n] >= 10 /\ Numbers[n] <= 1000
ReadPrecedence == /\ pc = "precedence" /\ CurTok \in DOMAIN Numbers /\ ValidPrecedence(CurTok)
                  /\ Goto("open") /\ Set("precedence", Numbers[CurTok] \div 10)
DefaultPrecedence == /\ pc = "precedence" /\ CurTok \notin DOMAIN Numbers
                     /\ pc' = "open" /\ UNCHANGED <<script, text, stack, value>> /\ Others
OpenNames == Expect("open", {"("}, "names") /\ Others
ArgumentName == Expect("names", Identifiers, "names") /\ Set("args", item.proto.args + 1)
CloseNames == Expect("names", {")"}, "arity") /\ Others

RightArity(p) == p.kind = "function" \/ p.args = (IF p.kind = "unary" THEN 1 ELSE 2)
PrototypeError ==
  \/ Unexpected("prototype", Identifiers \cup {"unary", "binary"})
  \/ Unexpected("operator", Ascii)
  \/ pc = "precedence" /\ CurTok \in DOMAIN Numbers /\ ~ValidPrecedence(CurTok) /\ Fail
  \/ Unexpected("open", {"("})
  \/ Unexpected("names", Identifiers \cup {")"})
  \/ pc = "arity" /\ ~RightArity(item.proto) /\ Fail

Accept(table) == /\ accepted' = [accepted EXCEPT ![item.kind] = @ + 1]
                 /\ precedence' = table
                 /\ pc' = "main" /\ value' = Null
                 /\ UNCHANGED <<script, text, stack, item, reported>>
ParseBody == /\ pc = "arity" /\ RightArity(item.proto) /\ item.kind = "def"
             /\ pc' = "unary" /\ UNCHANGED <<script, text, stack, value>> /\ Others
AcceptExtern == pc = "arity" /\ RightArity(item.proto) /\ item.kind = "extern" /\ Accept(precedence)

\* FunctionAST::codegen() installs the precedence of a binary operator, and
\* erases it if the body cannot be generated.
AcceptDefinition ==
  /\ pc = "value" /\ stack = <<>> /\ item.kind = "def"
  /\ IF item.proto.kind = "binary"
     THEN \E generated \in BOOLEAN :
            Accept([precedence EXCEPT ![item.proto.op] =
                      IF generated THEN item.proto.precedence ELSE 0])
     ELSE Accept(precedence)
AcceptExpression == pc = "value" /\ stack = <<>> /\ item.kind = "expression" /\ Accept(precedence)
-----------------------------------------------------------------------------
Top == stack[Len(stack)]
TopIs(frame) == stack # <<>> /\ Top.frame = frame
Push(frame) == stack' = Append(stack, frame)
Pop == stack' = Front(stack)
Operand(v) == value' = v /\ pc' = "operand"

\* The next part of a construct follows the current token.
NextPart(frame) == GetNextToken /\ stack' = Append(Front(stack), frame) /\ pc' = "unary"
                   /\ UNCHANGED value
With(v) == [Top EXCEPT !.parts = Append(@, v)]

\* ParseUnary()
UnaryOperator == /\ pc = "unary" /\ CurTok \in Ascii \ {"(", ","}
                 /\ GetNextToken /\ Push([frame |-> "unary", op |-> CurTok])
                 /\ UNCHANGED <<pc, value>> /\ Others
UnaryDone == /\ pc = "operand" /\ TopIs("unary")
             /\ Operand([node |-> "Unary", op |-> Top.op, kids |-> <<value>>])
             /\ Pop /\ UNCHANGED <<script, text>> /\ Others

\* ParsePrimary()
Number == /\ pc = "unary" /\ CurTok \in DOMAIN Numbers
          /\ GetNextToken /\ Operand([node |-> "Num", name |-> CurTok, kids |-> <<>>])
          /\ UNCHANGED stack /\ Others
NoPrimary == /\ pc = "unary"
             /\ CurTok \notin Identifiers \cup DOMAIN Numbers \cup (Ascii \ {","}) \cup {"if", "for", "var"}
             /\ Fail

\* ParseParenExpr()
OpenParen == /\ pc = "unary" /\ CurTok = "("
             /\ GetNextToken /\ Push([frame |-> "paren"]) /\ UNCHANGED <<pc, value>> /\ Others
CloseParen == /\ pc = "value" /\ TopIs("paren") /\ CurTok = ")"
              /\ GetNextToken /\ Operand(value) /\ Pop /\ Others
ParenError == pc = "value" /\ TopIs("paren") /\ CurTok # ")" /\ Fail

\* ParseIdentifierExpr()
Identifier == /\ pc = "unary" /\ CurTok \in Identifiers
              /\ GetNextToken /\ pc' = "identifier"
              /\ Push([frame |-> "call", name |-> CurTok, parts |-> <<>>])
              /\ UNCHANGED value /\ Others
VariableReference == /\ pc = "identifier" /\ CurTok # "("
                     /\ Operand([node |-> "Var", name |-> Top.name, kids |-> <<>>])
                     /\ Pop /\ UNCHANGED <<script, text>> /\ Others
OpenCall == Expect("identifier", {"("}, "arguments") /\ Others
FirstArgument == /\ pc = "arguments" /\ CurTok # ")"
                 /\ pc' = "unary" /\ UNCHANGED <<script, text, stack, value>> /\ Others
NextArgument == pc = "value" /\ TopIs("call") /\ CurTok = "," /\ NextPart(With(value)) /\ Others
CloseCall == /\ CurTok = ")" /\ (pc = "arguments" \/ (pc = "value" /\ TopIs("call")))
             /\ GetNextToken
             /\ Operand([node |-> "Call", name |-> Top.name,
                         kids |-> IF pc = "value" THEN Append(Top.parts, value) ELSE <<>>])
             /\ Pop /\ Others
CallError == pc = "value" /\ TopIs("call") /\ CurTok \notin {",", ")"} /\ Fail

\* ParseIfExpr()
If == /\ pc = "unary" /\ CurTok = "if"
      /\ GetNextToken /\ Push([frame |-> "if", parts |-> <<>>]) /\ UNCHANGED <<pc, value>> /\ Others
IfKeyword == <<"then", "else">>[Len(Top.parts) + 1]
IfPart == /\ pc = "value" /\ TopIs("if") /\ Len(Top.parts) < 2 /\ CurTok = IfKeyword
          /\ NextPart(With(value)) /\ Others
IfError == pc = "value" /\ TopIs("if") /\ Len(Top.parts) < 2 /\ CurTok # IfKeyword /\ Fail
IfDone == /\ pc = "value" /\ TopIs("if") /\ Len(Top.parts) = 2
          /\ Operand([node |-> "If", kids |-> Append(Top.parts, value)])
          /\ Pop /\ UNCHANGED <<script, text>> /\ Others

\* ParseForExpr(): start, end, the optional step, body.
For == Expect("unary", {"for"}, "forname") /\ Others
ForName == /\ pc = "forname" /\ CurTok \in Identifiers
           /\ GetNextToken /\ pc' = "forassign"
           /\ Push([frame |-> "for", name |-> CurTok, parts |-> <<>>]) /\ UNCHANGED value /\ Others
ForAssign == Expect("forassign", {"="}, "unary") /\ Others
ForPart == /\ pc = "value" /\ TopIs("for")
           /\ \/ CurTok = "," /\ Len(Top.parts) < 2 /\ NextPart(With(value))
              \/ CurTok = "in" /\ Len(Top.parts) = 1
                   /\ NextPart([Top EXCEPT !.parts = @ \o <<value, Null>>])
              \/ CurTok = "in" /\ Len(Top.parts) = 2 /\ NextPart(With(value))
           /\ Others
ForError ==
  \/ Unexpected("forname", Identifiers)
  \/ Unexpected("forassign", {"="})
  \/ /\ pc = "value" /\ TopIs("for") /\ Len(Top.parts) < 3
     /\ CurTok \notin <<{","}, {",", "in"}, {"in"}>>[Len(Top.parts) + 1]
     /\ Fail
ForDone == /\ pc = "value" /\ TopIs("for") /\ Len(Top.parts) = 3
           /\ Operand([node |-> "For", name |-> Top.name, kids |-> Append(Top.parts, value)])
           /\ Pop /\ UNCHANGED <<script, text>> /\ Others

\* ParseVarExpr(): names with optional initialisers, body.
Var == /\ pc = "unary" /\ CurTok = "var"
       /\ GetNextToken /\ pc' = "varname"
       /\ Push([frame |-> "var", names |-> <<>>, parts |-> <<>>]) /\ UNCHANGED value /\ Others
VarName == /\ pc = "varname" /\ CurTok \in Identifiers
           /\ GetNextToken /\ pc' = "varinit"
           /\ stack' = [stack EXCEPT ![Len(stack)].names = Append(@, CurTok)]
           /\ UNCHANGED value /\ Others
VarInit == Expect("varinit", {"="}, "unary") /\ Others
NoInit == /\ pc = "varinit" /\ CurTok # "="
          /\ pc' = "value" /\ value' = Null /\ UNCHANGED <<script, text, stack>> /\ Others
InList == pc = "value" /\ TopIs("var") /\ Len(Top.parts) < Len(Top.names)
VarNext == /\ InList /\ CurTok = ","
           /\ GetNextToken /\ pc' = "varname"
           /\ stack' = Append(Front(stack), With(value)) /\ UNCHANGED value /\ Others
VarIn == InList /\ CurTok = "in" /\ NextPart(With(value)) /\ Others
VarError == Unexpected("varname", Identifiers) \/ (InList /\ CurTok \notin {",", "in"} /\ Fail)
VarDone == /\ pc = "value" /\ TopIs("var") /\ Len(Top.parts) = Len(Top.names)
           /\ Operand([node |-> "VarIn", name |-> Top.names, kids |-> Append(Top.parts, value)])
           /\ Pop /\ UNCHANGED <<script, text>> /\ Others
-----------------------------------------------------------------------------
\* ParseBinOpRHS(): one frame for each activation that has taken an operator.
Loop(min, lhs, below) ==
  IF TokPrecedence(CurTok) < min
  THEN pc' = "value" /\ value' = lhs /\ stack' = below /\ UNCHANGED <<script, text>>
  ELSE /\ GetNextToken /\ pc' = "unary" /\ UNCHANGED value
       /\ stack' = Append(below, [frame |-> "binary", min |-> min, lhs |-> lhs, op |-> CurTok])

FirstOperand == /\ pc = "operand" /\ ~TopIs("unary") /\ ~TopIs("binary")
                /\ Loop(0, value, stack) /\ Others
Climbs(op) == TokPrecedence(op) < TokPrecedence(CurTok)
\* seeded fault: the operand goes on over operators of the same precedence
InnerSame(op) == TokPrecedence(op)
InnerMin(op) == TokPrecedence(op) + 1
Climb == /\ pc = "operand" /\ TopIs("binary") /\ Climbs(Top.op)
         /\ Loop(InnerMin(Top.op), value, stack) /\ Others
Merge == /\ TopIs("binary")
         /\ pc = "value" \/ (pc = "operand" /\ ~Climbs(Top.op))
         /\ Loop(Top.min, [node |-> "BinOp", op |-> Top.op, kids |-> <<Top.lhs, value>>], Front(stack))
         /\ Others

TopLevel == \/ EndOfFile \/ TopSemicolon \/ Keyword \/ TopLevelExpression
            \/ FunctionName \/ OperatorKind \/ OperatorName \/ ReadPrecedence \/ DefaultPrecedence
            \/ OpenNames \/ ArgumentName \/ CloseNames \/ PrototypeError
            \/ ParseBody \/ AcceptExtern \/ AcceptDefinition \/ AcceptExpression
Expression == \/ UnaryOperator \/ UnaryDone \/ Number \/ NoPrimary
              \/ OpenParen \/ CloseParen \/ ParenError
              \/ Identifier \/ VariableReference \/ OpenCall \/ FirstArgument \/ NextArgument
              \/ CloseCall \/ CallError
              \/ If \/ IfPart \/ IfError \/ IfDone
              \/ For \/ ForName \/ ForAssign \/ ForPart \/ ForError \/ ForDone
              \/ Var \/ VarName \/ VarInit \/ NoInit \/ VarNext \/ VarIn \/ VarError \/ VarDone
              \/ FirstOperand \/ Climb \/ Merge
Next == TopLevel \/ Expression
Spec == Init /\ [][Next]_vars
-----------------------------------------------------------------------------
Count(ts, k, class) == Cardinality({j \in 1..k : ts[j] \in class})
Parsed == pc = "value" /\ stack = <<>>
-----------------------------------------------------------------------------
TypeOK ==
  /\ script \in Scripts
  /\ text # <<>>
  /\ item.kind \in {"none", "def", "extern", "expression"} /\ item.from \in DOMAIN text
  /\ DOMAIN precedence = Ascii
  /\ pc \in {"main", "done"} => stack = <<>>
  /\ reported \in BOOLEAN

\* What code generation takes for granted: an operator prototype has as many
\* arguments as the operator operands, and its precedence makes it one.
PrototypesFitOperators ==
  (Parsed /\ item.kind = "def") =>
    CASE item.proto.kind = "unary" -> item.proto.args = 1
      [] item.proto.kind = "binary" -> item.proto.args = 2 /\ item.proto.precedence \in 1..100
      [] OTHER -> TRUE

\* Every round of the loop takes a token from the stream, whatever fails.
LoopAdvances == [][pc # "main" /\ pc' = "main" => Len(text') > item.from]_vars

\* Without a message every definition and extern of the text is accepted; no
\* activation is left when an item is over.
NothingIsLost ==
  /\ TypeOK
  /\ (pc = "done" /\ ~reported) =>
    /\ accepted["def"] = Count(text, Len(text), {"def"})
    /\ accepted["extern"] = Count(text, Len(text), {"extern"})
=============================================================================
