------------------------------ MODULE ToyParser ------------------------------
(***************************************************************************)
(* Parser.h: the recursive descent parser of Toy over a stream of tokens.  *)
(* The lexer supplies any token; "text" is what it has supplied so far,    *)
(* the current token last.  The activations of the parse functions stand   *)
(* on "stack", and "pc" says which token the parser looks at next.         *)
(***************************************************************************)
EXTENDS Integers, Sequences, FiniteSets, SequencesExt

CONSTANTS Identifiers, Numbers,   \* the tokens of these two classes
          Scripts,                \* how the stream begins
          Tokens,                 \* what may follow the script
          Free                    \* how many tokens may follow it

\* Keywords and punctuation are neither names nor numbers.
Reserved == {"def", "var", "return", "(", ")", "[", "]", "{", "}", ";", ",", "=", "<", ">",
             "+", "-", "*", "@", "eof"}
Stream == Tokens \cup {"eof"}
ASSUME TokenAssumption ==
  /\ Reserved \cap (Identifiers \cup Numbers) = {}
  /\ \A s \in Scripts : s \in Seq(Stream) /\ s # <<>>

VARIABLES script, text, pc, stack, value, proto, body, functions, reported, status
vars == <<script, text, pc, stack, value, proto, body, functions, reported, status>>
modules == <<proto, body, functions>>

tok == text[Len(text)]
Null == [node |-> "null"]
NoProto == [name |-> "", params |-> <<>>]

\* Lexer::getTok(): the next token of the script, then any, at last the end.
Supply(n) == IF n <= Len(script) THEN {script[n]}
             ELSE IF n <= Len(script) + Free /\ tok # "eof" THEN Tokens \cup {"eof"}
             ELSE {"eof"}
GetNextToken == /\ \E t \in Supply(Len(text) + 1) : text' = Append(text, t)
                /\ UNCHANGED script

\* getTokPrecedence()
Precedence(t) == CASE t \in {"-", "+"} -> 20 [] t = "*" -> 40 [] t = "@" -> 50 [] OTHER -> -1

Init ==
  /\ script \in Scripts
  /\ text = <<Head(script)>>
  /\ pc = "definition" /\ stack = <<>> /\ value = Null
  /\ proto = NoProto /\ body = <<>> /\ functions = <<>>
  /\ reported = FALSE
  /\ status = "parsing"
-----------------------------------------------------------------------------
AtOneOf(ps) == status = "parsing" /\ pc \in ps
At(p) == AtOneOf({p})
Goto(p) == /\ GetNextToken /\ pc' = p
           /\ UNCHANGED <<stack, value, reported, status>>

\* parseDefinition() has returned nullptr: parseModule() looks at the token.
DefinitionFails(message) ==
  /\ status' = IF tok = "eof" THEN "module" ELSE "nullptr"
  /\ reported' = (reported \/ message \/ tok # "eof")
  /\ UNCHANGED <<script, text, pc, stack, value, modules>>

\* An assertion of the lexer or a cast<> of the parser does not hold.
Abort == /\ status' = "aborted"
         /\ UNCHANGED <<script, text, pc, stack, value, modules, reported>>

Expect(p, ts, q) == At(p) /\ tok \in ts /\ Goto(q)
Unexpected(p, ts) == At(p) /\ tok \notin ts /\ DefinitionFails(TRUE)

Define == Expect("definition", {"def"}, "name") /\ UNCHANGED modules
FunctionName == /\ Expect("name", Identifiers, "open")
                /\ proto' = [name |-> tok, params |-> <<>>] /\ UNCHANGED <<body, functions>>
OpenPrototype == Expect("open", {"("}, "params") /\ UNCHANGED modules
ClosePrototype == /\ AtOneOf({"params", "afterparam"})
                  /\ tok = ")" /\ Goto("block") /\ UNCHANGED modules
Parameter == /\ AtOneOf({"params", "nextparam"})
             /\ tok \in Identifiers /\ Goto("afterparam")
             /\ proto' = [proto EXCEPT !.params = Append(@, tok)]
             /\ UNCHANGED <<body, functions>>
AnotherParameter == Expect("afterparam", {","}, "nextparam") /\ UNCHANGED modules

\* getId() on a first parameter that is no identifier
NotAParameter == At("params") /\ tok \notin Identifiers \cup {")"} /\ Abort

PrototypeError ==
  \/ Unexpected("definition", {"def"})
  \/ Unexpected("name", Identifiers)
  \/ Unexpected("open", {"("})
  \/ Unexpected("afterparam", {",", ")"})
  \/ Unexpected("nextparam", Identifiers)
-----------------------------------------------------------------------------
Enter(frame) == stack' = <<frame>>
Statement(node, name, shape) ==
  [frame |-> "statement", node |-> node, name |-> name, shape |-> shape, from |-> Len(text)]

OpenBlock == Expect("block", {"{"}, "statement") /\ UNCHANGED modules
Semicolon == At("statement") /\ tok = ";" /\ Goto("statement") /\ UNCHANGED modules

\* The block is complete, and with it the function.
CloseBlock ==
  /\ At("statement") /\ tok = "}"
  /\ GetNextToken
  /\ functions' = Append(functions, [name |-> proto.name, params |-> proto.params, body |-> body])
  /\ proto' = NoProto /\ body' = <<>>
  /\ pc' = "definition"
  /\ status' = IF text'[Len(text')] = "eof" THEN "module" ELSE "parsing"
  /\ UNCHANGED <<stack, value, reported>>

Return == Expect("statement", {"return"}, "return") /\ UNCHANGED modules
\* seeded fault: a return without an expression leaves no statement
ReturnForgotten == /\ At("return") /\ tok = ";"
                   /\ pc' = "separator"
                   /\ UNCHANGED <<script, text, stack, value, modules, reported, status>>
ReturnNothing == /\ At("return") /\ tok = ";"
                 /\ body' = Append(body, [node |-> "Return", hasExpr |-> FALSE, expr |-> Null])
                 /\ pc' = "separator"
                 /\ UNCHANGED <<script, text, stack, value, proto, functions, reported, status>>
ReturnExpression == /\ At("return") /\ tok # ";"
                    /\ Enter(Statement("Return", "", <<>>)) /\ pc' = "primary"
                    /\ UNCHANGED <<script, text, value, modules, reported, status>>

Declaration == Expect("statement", {"var"}, "varname") /\ UNCHANGED modules
VariableName == /\ At("varname") /\ tok \in Identifiers
                /\ GetNextToken /\ pc' = "type"
                /\ Enter(Statement("VarDecl", tok, <<>>))
                /\ UNCHANGED <<value, modules, reported, status>>
OpenType == Expect("type", {"<"}, "shape") /\ UNCHANGED modules
Dimension == /\ At("shape") /\ tok \in Numbers
             /\ GetNextToken /\ pc' = "comma"
             /\ stack' = [stack EXCEPT ![1].shape = Append(@, tok)]
             /\ UNCHANGED <<value, modules, reported, status>>
DimensionComma == Expect("comma", {","}, "shape") /\ UNCHANGED modules
DimensionNoComma == /\ At("comma") /\ tok # ","
                    /\ pc' = "shape"
                    /\ UNCHANGED <<script, text, stack, value, modules, reported, status>>
CloseType == Expect("shape", {">"}, "equals") /\ UNCHANGED modules
Initialiser == /\ AtOneOf({"type", "equals"}) /\ tok = "="
               /\ GetNextToken /\ pc' = "primary"
               /\ stack' = [stack EXCEPT ![1].from = Len(text) + 1]
               /\ UNCHANGED <<value, modules, reported, status>>

\* consume('=') on something else
NoInitialiser == /\ \/ At("type") /\ tok \notin {"=", "<"}
                    \/ At("equals") /\ tok # "="
                 /\ Abort

ExpressionStatement == /\ At("statement") /\ tok \notin {";", "}", "eof", "var", "return"}
                       /\ Enter(Statement("Expr", "", <<>>)) /\ pc' = "primary"
                       /\ UNCHANGED <<script, text, value, modules, reported, status>>

Completed(s, e) ==
  CASE s.node = "Return"  -> [node |-> "Return", hasExpr |-> TRUE, expr |-> e]
    [] s.node = "VarDecl" -> [node |-> "VarDecl", name |-> s.name, shape |-> s.shape, init |-> e]
    [] OTHER              -> e

\* The expression of a statement is complete.
EndStatement == /\ At("value") /\ Len(stack) = 1
                /\ body' = Append(body, Completed(stack[1], value))
                /\ stack' = <<>> /\ value' = Null /\ pc' = "separator"
                /\ UNCHANGED <<script, text, proto, functions, reported, status>>

Separator == Expect("separator", {";"}, "statement") /\ UNCHANGED modules


BlockError ==
  \/ Unexpected("block", {"{"})
  \/ At("statement") /\ tok = "eof" /\ DefinitionFails(TRUE)
  \/ Unexpected("varname", Identifiers)
  \/ Unexpected("shape", Numbers \cup {">"})
  \/ Unexpected("separator", {";"})
-----------------------------------------------------------------------------
Top == stack[Len(stack)]
Push(frame) == stack' = Append(stack, frame)
Pop == stack' = Front(stack)
Become(frame) == stack' = Append(Front(stack), frame)
Same == UNCHANGED <<modules, reported, status>>

\* seeded fault: a binary operator without its right operand is not reported
ExpressionFailsQuietly(message) ==
  IF stack[1].node = "Expr" THEN DefinitionFails(message)
  ELSE /\ body' = Append(body, Completed(stack[1], Null))
       /\ stack' = <<>> /\ value' = Null /\ pc' = "separator"
       /\ reported' = (reported \/ (message /\ \A k \in DOMAIN stack : stack[k].frame # "binary"))
       /\ UNCHANGED <<script, text, proto, functions, status>>

\* A parse function inside the statement returns nullptr, and so does every
\* one around it, parseBinOpRHS() with a message.  parseReturn() looks at the
\* optional, which is never empty, and parseDeclaration() at nothing.
ExpressionFails(message) ==
  LET told == message \/ \E k \in DOMAIN stack : stack[k].frame = "binary" IN
  IF stack[1].node = "Expr" THEN DefinitionFails(told)
  ELSE /\ body' = Append(body, Completed(stack[1], Null))
       /\ stack' = <<>> /\ value' = Null /\ pc' = "separator"
       /\ reported' = (reported \/ told)
       /\ UNCHANGED <<script, text, proto, functions, status>>

PrimaryValue(v) == /\ value' = v /\ pc' = "operand"

\* parsePrimary() and the functions it calls, up to a nested expression.
Identifier == /\ At("primary") /\ tok \in Identifiers
              /\ GetNextToken /\ Push([frame |-> "call", callee |-> tok, args |-> <<>>])
              /\ pc' = "identifier"
              /\ UNCHANGED value /\ Same
VariableReference == /\ At("identifier") /\ tok # "("
                     /\ PrimaryValue([node |-> "Var", name |-> Top.callee]) /\ Pop
                     /\ UNCHANGED <<script, text>> /\ Same
Number == /\ At("primary") /\ tok \in Numbers
          /\ GetNextToken /\ PrimaryValue([node |-> "Num", value |-> tok])
          /\ UNCHANGED stack /\ Same
OpenParen == /\ At("primary") /\ tok = "("
             /\ GetNextToken /\ Push([frame |-> "paren"]) /\ UNCHANGED <<pc, value>> /\ Same
CloseParen == /\ At("value") /\ Top.frame = "paren" /\ tok = ")"
              /\ GetNextToken /\ PrimaryValue(value) /\ Pop /\ Same
NoPrimary == /\ At("primary") /\ tok \notin Identifiers \cup Numbers \cup {"(", "["}
             /\ ExpressionFails(tok \notin {";", "}"})
ParenError == At("value") /\ Top.frame = "paren" /\ tok # ")" /\ ExpressionFails(TRUE)

OpenCall == /\ At("identifier") /\ tok = "("
            /\ Goto("arguments") /\ UNCHANGED modules
Arguments == /\ At("arguments") /\ tok # ")"
             /\ pc' = "primary" /\ UNCHANGED <<script, text, stack, value>> /\ Same
Argument == /\ At("value") /\ Top.frame = "call" /\ tok = ","
            /\ GetNextToken /\ pc' = "primary"
            /\ Become([Top EXCEPT !.args = Append(@, value)])
            /\ UNCHANGED value /\ Same

\* A call of print with other than one argument is an error after its ")".
CloseCall ==
  /\ tok = ")" /\ (At("arguments") \/ (At("value") /\ Top.frame = "call"))
  /\ LET args == IF pc = "value" THEN Append(Top.args, value) ELSE Top.args IN
     /\ GetNextToken
     /\ PrimaryValue(IF Top.callee # "print" THEN [node |-> "Call", callee |-> Top.callee, args |-> args]
                     ELSE IF Len(args) = 1 THEN [node |-> "Print", arg |-> args[1]] ELSE Null)
     /\ Pop /\ Same
PrintArity == At("operand") /\ value = Null /\ ExpressionFails(TRUE)
CallError == /\ At("value") /\ Top.frame = "call" /\ tok \notin {",", ")"}
             /\ ExpressionFails(TRUE)

OpenLiteral == /\ tok = "[" /\ (At("primary") \/ At("element"))
               /\ GetNextToken /\ Push([frame |-> "literal", values |-> <<>>])
               /\ pc' = "element" /\ UNCHANGED value /\ Same
Element == /\ At("element") /\ tok \in Numbers
           /\ GetNextToken /\ pc' = "list"
           /\ Become([Top EXCEPT !.values = Append(@, [node |-> "Num", value |-> tok])])
           /\ UNCHANGED value /\ Same
NextElement == At("list") /\ tok = "," /\ Goto("element") /\ UNCHANGED modules

IsLiteral(v) == v.node = "Literal"
Literal(vs) == [node |-> "Literal", values |-> vs,
                dims |-> <<Len(vs)>> \o (IF IsLiteral(vs[1]) THEN vs[1].dims ELSE <<>>)]
\* The elements behind a first literal that are not like it.  At the first of
\* them that is no literal cast<LiteralExprAST> fails.
Unlike(vs) == {k \in DOMAIN vs : IsLiteral(vs[1]) /\ (~IsLiteral(vs[k]) \/ vs[k].dims # vs[1].dims)}
CastFails(vs) == Unlike(vs) # {} /\ ~IsLiteral(vs[Min(Unlike(vs))])
\* seeded fault: the shapes of the elements are not compared
UniformKind(vs) == \A k \in DOMAIN vs : IsLiteral(vs[1]) = IsLiteral(vs[k])
Uniform(vs) == Unlike(vs) = {} /\ \A k \in DOMAIN vs : IsLiteral(vs[1]) \/ ~IsLiteral(vs[k])
\* The outermost literal is a primary expression, an inner one an element.
CloseLiteral ==
  /\ At("list") /\ tok = "]"
  /\ Uniform(Top.values)
  /\ GetNextToken
  /\ LET below == stack[Len(stack) - 1]  v == Literal(Top.values) IN
     IF below.frame = "literal"
     THEN /\ stack' = Append(SubSeq(stack, 1, Len(stack) - 2), [below EXCEPT !.values = Append(@, v)])
          /\ UNCHANGED <<pc, value>>
     ELSE Pop /\ PrimaryValue(v)
  /\ Same
MixedLiteral == At("list") /\ tok = "]" /\ CastFails(Top.values) /\ Abort
LiteralError ==
  \/ At("element") /\ tok \notin Numbers \cup {"["} /\ ExpressionFails(TRUE)
  \/ At("list") /\ tok \notin {"]", ","} /\ ExpressionFails(TRUE)
  \/ /\ At("list") /\ tok = "]" /\ ~Uniform(Top.values) /\ ~CastFails(Top.values)
     /\ ExpressionFails(TRUE)
-----------------------------------------------------------------------------
\* parseBinOpRHS(): one frame for each activation that has taken an operator.
Loop(min, lhs) ==
  IF Precedence(tok) < min
  THEN pc' = "value" /\ value' = lhs /\ UNCHANGED <<script, text>>
  ELSE pc' = "primary" /\ UNCHANGED value /\ GetNextToken
Pending(min, lhs, below) ==
  stack' = IF Precedence(tok) < min THEN below
           ELSE Append(below, [frame |-> "binary", min |-> min, lhs |-> lhs, op |-> tok])

\* The first operand of parseExpression().
FirstOperand == /\ At("operand") /\ value # Null /\ Top.frame # "binary"
                /\ Loop(0, value) /\ Pending(0, value, stack) /\ Same

Climbs(op) == Precedence(op) < Precedence(tok)
\* seeded fault: the operand goes on over operators of the same precedence
InnerSame(op) == Precedence(op)
InnerMin(op) == Precedence(op) + 1

\* The operator that follows binds more tightly and takes the operand.
Climb == /\ At("operand") /\ value # Null /\ Top.frame = "binary" /\ Climbs(Top.op)
         /\ Loop(InnerMin(Top.op), value)
         /\ Pending(InnerMin(Top.op), value, stack) /\ Same

Merge == /\ status = "parsing" /\ value # Null /\ stack # <<>> /\ Top.frame = "binary"
         /\ pc = "value" \/ (pc = "operand" /\ ~Climbs(Top.op))
         /\ LET merged == [node |-> "BinOp", op |-> Top.op, lhs |-> Top.lhs, rhs |-> value] IN
            Loop(Top.min, merged) /\ Pending(Top.min, merged, Front(stack))
         /\ Same
-----------------------------------------------------------------------------
Prototype == \/ Define \/ FunctionName \/ OpenPrototype \/ ClosePrototype
             \/ Parameter \/ AnotherParameter \/ NotAParameter \/ PrototypeError
Block == \/ OpenBlock \/ Semicolon \/ CloseBlock \/ Return \/ ReturnNothing \/ ReturnExpression
         \/ Declaration \/ VariableName \/ OpenType \/ Dimension \/ DimensionComma
         \/ DimensionNoComma \/ CloseType \/ Initialiser \/ NoInitialiser
         \/ ExpressionStatement \/ EndStatement \/ Separator \/ BlockError
Expression == \/ Identifier \/ VariableReference \/ Number \/ OpenParen \/ CloseParen
              \/ NoPrimary \/ ParenError \/ OpenCall \/ Arguments \/ Argument \/ CloseCall
              \/ PrintArity \/ CallError \/ OpenLiteral \/ Element \/ NextElement
              \/ CloseLiteral \/ MixedLiteral \/ LiteralError
              \/ FirstOperand \/ Climb \/ Merge
Next == Prototype \/ Block \/ Expression
Spec == Init /\ [][Next]_vars /\ WF_vars(Next)
-----------------------------------------------------------------------------
Bodies == {body} \cup {functions[k].body : k \in DOMAIN functions}
Statements == UNION {ToSet(b) : b \in Bodies}
\* The places of statements in complete functions.
Placed == UNION {{k} \X DOMAIN functions[k].body : k \in DOMAIN functions}
Hole(s) == \/ s.node = "VarDecl" /\ s.init = Null
           \/ s.node = "Return" /\ s.hasExpr /\ s.expr = Null
-----------------------------------------------------------------------------
TypeOK ==
  /\ script \in Scripts
  /\ text # <<>> /\ ToSet(text) \subseteq Stream
  /\ status \in {"parsing", "module", "nullptr", "aborted"}
  /\ reported \in BOOLEAN
  /\ stack # <<>> => stack[1].frame = "statement" /\ pc \notin {"statement", "separator"}
  /\ \A k \in DOMAIN stack : k > 1 => stack[k].frame \in {"call", "paren", "literal", "binary"}

\* A return or a declaration that lost its expression without a message lost
\* it to a semicolon where an expression had to begin; any other is reported.
SilentHolesAreEmpty ==
  (status = "module" /\ ~reported /\ \E s \in Statements : Hole(s)) =>
    \E k \in 2..Len(text) : text[k] = ";" /\ text[k - 1] \in {"=", "(", ","}

\* Without a message, every definition and every statement of the file is in
\* the module; activations end with their statement.
NothingIsLost ==
  /\ TypeOK
  /\ (status \in {"module", "nullptr"} /\ ~reported) =>
    /\ status = "module"
    /\ Len(functions) = Cardinality({k \in DOMAIN text : text[k] = "def"})
    /\ Cardinality(Placed) =
         Cardinality({k \in 2..Len(text) : text[k] = ";" /\ text[k - 1] \notin {";", "{"}})


\* Parser.h:31-32: the parser "produces a well formed AST from a stream of
\* Token supplied by the Lexer".
WellFormedAST == status = "module" => \A s \in Statements : ~Hole(s)

\* Lexer.h:81: getId() returns the "current identifier (prereq: getCurToken()
\* == tok_identifier)".
IdentifierPrerequisite == status = "aborted" => pc \notin {"params"}

\* Parser.h:148-150: an element that is no literal is a parse error,
\* "uniform well-nested dimensions".
MixedLiteralsReported == status = "aborted" => pc # "list"

\* Parser.h:41: "Parse a full Module. A module is a list of function
\* definitions."
FullModule == status = "module" => Len(text) = 1 \/ text[Len(text) - 1] = "}"

\* Parser.h:293: "shape_list ::= num | num , shape_list"
ShapesFollowGrammar ==
  At("equals") => LET open == CHOOSE k \in DOMAIN text : text[k] = "<" /\ \A j \in (k + 1)..Len(text) : text[j] # "<"
                      list == SubSeq(text, open + 1, Len(text) - 2)
                  IN  /\ Len(list) % 2 = 1
                      /\ \A k \in DOMAIN list : k % 2 = 0 => list[k] = ","
=============================================================================
