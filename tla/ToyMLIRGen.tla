----------------------------- MODULE ToyMLIRGen -----------------------------
(***************************************************************************)
(* MLIRGen.cpp: from the AST of a Toy module to a module of Toy            *)
(* operations, one function and one statement at a time.  A function is    *)
(* [name, params, body], the body a sequence of statements; expressions    *)
(* are trees of records with a field "node".  The activations of           *)
(* mlirGen(ExprAST &) stand on "stack", the innermost one last, each with  *)
(* the values of the operands it has generated; "value" is what the        *)
(* outermost one has returned to its statement.  The operations of a       *)
(* function stand in one sequence, its block arguments first (see ToyOps). *)
(***************************************************************************)
EXTENDS ToyOps, Integers, FiniteSets

CONSTANTS Sources,          \* the modules, as sequences of functions
          Within            \* node of a tree -> the nodes of the tree below it

None == [node |-> "None"]
Node == DOMAIN Within
FunctionAST == [name : STRING, params : Seq(STRING), body : Seq(Node)]

\* The expressions that are generated before the expression e, in this order,
\* and the expression that a statement begins with.  A print, a declaration
\* and a return are not expressions: as such nothing of them is generated.
Children(e) == CASE e.node = "BinOp" -> <<e.lhs, e.rhs>>
                 [] e.node = "Call" -> e.args
                 [] OTHER -> <<>>
Subject(s) == CASE s.node = "VarDecl" -> s.init
                [] s.node = "Return" -> s.expr
                [] s.node = "Print" -> s.arg
                [] OTHER -> s

ASSUME SourcesAssumption ==
  /\ \A s \in Sources : s \in Seq(FunctionAST)
  /\ \A n \in Node :
       /\ n.node = "BinOp" => n.op \in {"-", "+", "*", "@"}
       /\ n.node = "Literal" => n.dims \in Seq(Nat)
       /\ n.node = "VarDecl" => n.name \in STRING /\ n.shape \in Seq(Nat)
       /\ Subject(n) \in Node /\ Children(n) \in Seq(Node)
       /\ Within[n] = {n} \cup UNION {Within[Children(n)[k]] : k \in DOMAIN Children(n)}

VARIABLES source, fn, stmt, symbolTable, stack, value, ops, functions, result
vars == <<source, fn, stmt, symbolTable, stack, value, ops, functions, result>>

Pending == -1    \* no value yet
Null == 0        \* the nullptr of an expression that failed

Operation(kind, ins, type) == [kind |-> kind, ins |-> ins, type |-> type]
BinaryOps == [op \in {"+", "*", "@"} |-> CASE op = "+" -> "add" [] op = "*" -> "mul" [] op = "@" -> "matmul"]

\* getType() of a list of dimensions, where an empty one means unranked.
GetType(shape) == IF shape = <<>> THEN Unranked ELSE Tensor(shape)
\* declare()
Declare(table, x, v) == [y \in {x} \cup DOMAIN table |-> IF y = x THEN v ELSE table[y]]
-----------------------------------------------------------------------------
Current == source[fn]
Elements(names) == {names[k] : k \in DOMAIN names}
Arguments(params) == [k \in DOMAIN params |-> Operation("arg", <<>>, Unranked)]
Distinct(names) == \A j, k \in DOMAIN names : names[j] = names[k] => j = k

\* A function of the module; one without operations has an empty block.
FuncOp(name, body, hasResult) == [name |-> name, ops |-> body, hasResult |-> hasResult]

Init ==
  /\ source \in Sources
  /\ fn = 1 /\ stmt = 0
  /\ symbolTable = <<>> /\ ops = <<>>
  /\ stack = <<>> /\ value = Pending
  /\ functions = <<>>
  /\ result = "none"

\* seeded fault: the scope of a function stays open
NextFunctionLeaky == fn' = fn + 1 /\ stmt' = 0 /\ UNCHANGED symbolTable /\ ops' = <<>>

\* The next function of the source, with an empty symbol table.
NextFunction == /\ fn' = fn + 1
                /\ stmt' = 0
                /\ symbolTable' = <<>>
                /\ ops' = <<>>

BeginFunction ==
  /\ result = "none" /\ stmt = 0 /\ fn <= Len(source)
  /\ Distinct(Current.params) /\ Elements(Current.params) \cap DOMAIN symbolTable = {}
  /\ ops' = Arguments(Current.params)
  /\ symbolTable' = [x \in Elements(Current.params) \cup DOMAIN symbolTable |->
                       IF x \in DOMAIN symbolTable THEN symbolTable[x]
                       ELSE CHOOSE k \in DOMAIN Current.params : Current.params[k] = x]
  /\ stmt' = 1
  /\ UNCHANGED <<source, fn, stack, value, functions, result>>

\* A parameter that is declared twice: the function stays as it is, empty.
RepeatedParameter ==
  /\ result = "none" /\ stmt = 0 /\ fn <= Len(source)
  /\ ~(Distinct(Current.params) /\ Elements(Current.params) \cap DOMAIN symbolTable = {})
  /\ functions' = Append(functions, FuncOp(Current.name, <<>>, FALSE))
  /\ NextFunction
  /\ UNCHANGED <<source, stack, value, result>>

InBody == result = "none" /\ stmt > 0 /\ stmt <= Len(Current.body)
Statement == Current.body[stmt]
-----------------------------------------------------------------------------
(* mlirGen(ExprAST &).                                                     *)
Activation(e) == [expr |-> e, values |-> <<>>]
Top == Last(stack)
Operand == Children(Top.expr)

Begin ==
  /\ InBody /\ stack = <<>> /\ value = Pending
  /\ ~(Statement.node = "Return" /\ Statement.expr = None)
  /\ stack' = <<Activation(Subject(Statement))>>
  /\ UNCHANGED <<source, fn, stmt, symbolTable, value, ops, functions, result>>

\* Operands left to right.
GenOperand ==
  /\ stack # <<>> /\ Len(Top.values) < Len(Operand)
  /\ stack' = Append(stack, Activation(Operand[Len(Top.values) + 1]))
  /\ UNCHANGED <<source, fn, stmt, symbolTable, value, ops, functions, result>>

Generating(kind) == /\ stack # <<>> /\ Len(Top.values) = Len(Operand)
                    /\ Top.expr.node = kind

\* The innermost activation returns v to the one that called it.
Given(f, v) == [expr |-> f.expr, values |-> Append(f.values, v)]
Resumed(v) == [d \in 1..(Len(stack) - 1) |-> IF d = Len(stack) - 1 THEN Given(stack[d], v) ELSE stack[d]]
Yield(v, o) == /\ stack' = Resumed(v)
               /\ value' = IF Len(stack) = 1 THEN v ELSE value
               /\ ops' = o
               /\ UNCHANGED <<source, fn, stmt, symbolTable, functions, result>>
Emit(kind, type) == Yield(Len(ops) + 1, Append(ops, Operation(kind, Top.values, type)))

\* A nullptr makes every caller return one; what has been emitted stays.
Fail == /\ stack' = <<>>
        /\ value' = Null
        /\ UNCHANGED <<source, fn, stmt, symbolTable, ops, functions, result>>

GenNumber == Generating("Num") /\ Emit("constant", Tensor(<<>>))
GenLiteral == Generating("Literal") /\ Emit("constant", Tensor(Top.expr.dims))
GenVariable ==
  /\ Generating("Var")
  /\ IF Top.expr.name \in DOMAIN symbolTable THEN Yield(symbolTable[Top.expr.name], ops) ELSE Fail

\* '-' has no operation.
GenBinary ==
  /\ Generating("BinOp")
  /\ IF Top.expr.op \in DOMAIN BinaryOps THEN Emit(BinaryOps[Top.expr.op], Unranked) ELSE Fail

GenCall ==
  /\ Generating("Call")
  /\ IF Top.expr.callee # "transpose" THEN Emit("generic_call", Unranked)
     ELSE IF Len(Operand) = 1 THEN Emit("transpose", Unranked)
     ELSE Fail

Unhandled == /\ stack # <<>> /\ Top.expr.node \notin {"Num", "Literal", "Var", "BinOp", "Call"}
             /\ Fail
-----------------------------------------------------------------------------
StepTo(table, o) == /\ symbolTable' = table /\ ops' = o /\ stmt' = stmt + 1
                    /\ value' = Pending
                    /\ UNCHANGED <<source, fn, stack, functions, result>>

\* mlirGen(FunctionAST &) after its body: an implicit return, the result type.
Finish(o) ==
  LET return == IF o # <<>> /\ o[Len(o)].kind = "return" THEN o
                ELSE Append(o, Operation("return", <<>>, Unranked))
  IN  /\ functions' = Append(functions,
                        FuncOp(Current.name, return, return[Len(return)].ins # <<>>))
      /\ NextFunction
      /\ value' = Pending
      /\ UNCHANGED <<source, stack, result>>

\* The body has failed: the function is erased, and nobody looks at the nullptr.
Erase == /\ functions' = functions
         /\ NextFunction
         /\ value' = Pending
         /\ UNCHANGED <<source, stack, result>>

\* The value of the expression of the statement is there, or is Null.
Returned == InBody /\ stack = <<>> /\ value # Pending

VarDecl ==
  /\ Returned /\ Statement.node = "VarDecl"
  /\ LET reshaped == IF Statement.shape = <<>> THEN ops
                     ELSE Append(ops, Operation("reshape", <<value>>, GetType(Statement.shape)))
         declared == IF Statement.shape = <<>> THEN value ELSE Len(reshaped)
     IN  IF value # Null /\ Statement.name \notin DOMAIN symbolTable
         THEN StepTo(Declare(symbolTable, Statement.name, declared), reshaped)
         ELSE Erase

ReturnOf(ins) == Append(ops, Operation("return", ins, Unranked))

\* seeded fault: what follows a return is generated too
ReturnGoesOn ==
  /\ InBody /\ Statement.node = "Return" /\ stack = <<>>
  /\ \/ Statement.expr = None /\ StepTo(symbolTable, ReturnOf(<<>>))
     \/ value > Null /\ StepTo(symbolTable, ReturnOf(<<value>>))
     \/ value = Null /\ Erase

\* With or without an expression.  The statements behind are not looked at.
Return ==
  /\ InBody /\ Statement.node = "Return" /\ stack = <<>>
  /\ \/ Statement.expr = None /\ Finish(ReturnOf(<<>>))
     \/ value > Null /\ Finish(ReturnOf(<<value>>))
     \/ value = Null /\ Erase

\* A print that fails ends the body with success, whatever is still to come.
PrintStatement ==
  /\ Returned /\ Statement.node = "Print"
  /\ IF value # Null THEN StepTo(symbolTable, Append(ops, Operation("print", <<value>>, Unranked)))
                     ELSE Finish(ops)

\* seeded fault: an expression that fails ends the body with success as well
ExpressionForgives ==
  /\ Returned /\ Statement.node \notin {"VarDecl", "Return", "Print"}
  /\ IF value # Null THEN StepTo(symbolTable, ops) ELSE Finish(ops)

Expression ==
  /\ Returned /\ Statement.node \notin {"VarDecl", "Return", "Print"}
  /\ IF value # Null THEN StepTo(symbolTable, ops) ELSE Erase

EndBody == /\ result = "none" /\ stmt > 0 /\ stmt > Len(Current.body)
           /\ Finish(ops)

\* mlir::verify() of what has been built: names, terminators, operations.
TypesOf(o) == [i \in DOMAIN o |-> o[i].type]
DistinctNames(fs) == Distinct([k \in DOMAIN fs |-> fs[k].name])
FunctionVerifies(f) ==
  /\ f.ops # <<>> /\ f.ops[Len(f.ops)].kind = "return"
  /\ \A i \in DOMAIN f.ops :
       /\ f.ops[i].kind = "return" => i = Len(f.ops) /\ f.hasResult = (f.ops[i].ins # <<>>)
       /\ Verifies(f.ops[i].kind, Operands(f.ops[i], TypesOf(f.ops)), f.ops[i].type)

VerifyModule ==
  /\ result = "none" /\ stmt = 0 /\ fn > Len(source)
  /\ result' = IF /\ DistinctNames(functions)
                  /\ \A k \in DOMAIN functions : FunctionVerifies(functions[k])
               THEN "module" ELSE "nullptr"
  /\ UNCHANGED <<source, fn, stmt, symbolTable, stack, value, ops, functions>>

Next == \/ BeginFunction \/ RepeatedParameter
        \/ Begin \/ GenOperand
        \/ GenNumber \/ GenLiteral \/ GenVariable \/ GenBinary \/ GenCall \/ Unhandled
        \/ VarDecl \/ Return \/ PrintStatement \/ Expression \/ EndBody
        \/ VerifyModule

Spec == Init /\ [][Next]_vars
-----------------------------------------------------------------------------
\* What the language asks of a function, from its text alone: the variables
\* in sight are the parameters and those declared in the statements before.
Declares(f, k) == IF f.body[k].node = "VarDecl" THEN {f.body[k].name} ELSE {}
InSight(f, k) == Elements(f.params) \cup UNION {Declares(f, j) : j \in 1..(k - 1)}

Fits(e, names) == CASE e.node \in {"Num", "Literal"} -> TRUE
                    [] e.node = "Var" -> e.name \in names
                    [] e.node = "BinOp" -> e.op # "-"
                    [] e.node = "Call" -> e.callee = "transpose" => Len(e.args) = 1
                    [] OTHER -> FALSE
Sound(e, names) == \A d \in Within[e] : Fits(d, names)

StatementSound(f, k) ==
  LET s == f.body[k]  names == InSight(f, k) IN
  CASE s.node = "VarDecl" -> s.name \notin names /\ Sound(s.init, names)
    [] s.node = "Return" -> s.expr = None \/ Sound(s.expr, names)
    [] s.node = "Print" -> Sound(s.arg, names)
    [] OTHER -> Sound(s, names)

Reached(f) == {k \in DOMAIN f.body : \A j \in 1..(k - 1) : f.body[j].node # "Return"}
FunctionSound(f) == \A k \in Reached(f) : StatementSound(f, k)
FirstUnsound(f) == CHOOSE k \in Reached(f) : /\ ~StatementSound(f, k)
                                             /\ \A j \in 1..(k - 1) : StatementSound(f, j)
Emitted == {functions[k].name : k \in DOMAIN functions}
Count(o, kind) == Cardinality({i \in DOMAIN o : o[i].kind = kind})
-----------------------------------------------------------------------------
TypeOK ==
  /\ source \in Sources
  /\ fn \in 1..(Len(source) + 1)
  /\ stmt \in Nat
  /\ value \in {Pending, Null} \cup DOMAIN ops
  /\ \A d \in DOMAIN stack : Elements(stack[d].values) \subseteq DOMAIN ops
  /\ \A x \in DOMAIN symbolTable : symbolTable[x] \in DOMAIN ops
  /\ result \in {"none", "module", "nullptr"}

\* An operation uses values of its own function that stand before it: no
\* symbol survives the function that declared it, none is used too early.
UsesDominated ==
  /\ TypeOK
  /\ \A o \in {ops} \cup {functions[k].ops : k \in DOMAIN functions} :
    \A i \in DOMAIN o : \A k \in DOMAIN o[i].ins :
      o[i].ins[k] < i /\ o[o[i].ins[k]].kind \notin NoResult

\* A function that the module lacks, or that lost statements, has an error of
\* the source; it lost them only to a print that failed.
LossHasAReason ==
  (result = "module" /\ DistinctNames(source)) =>
    \A k \in DOMAIN source :
      LET f == source[k] IN
      /\ f.name \notin Emitted => ~FunctionSound(f)
      /\ f.name \in Emitted /\ ~FunctionSound(f) => f.body[FirstUnsound(f)].node = "Print"

\* A sound module is accepted, with all its functions, and every print in
\* them, unless the verifier can tell that matrices do not fit.
SoundIsAccepted ==
  (result # "none" /\ DistinctNames(source)
    /\ \A k \in DOMAIN source : Distinct(source[k].params) /\ FunctionSound(source[k])) =>
      /\ Len(functions) = Len(source)
      /\ \A k \in DOMAIN source :
           LET f == source[k]  g == functions[k] IN
           /\ g.name = f.name
           /\ Count(g.ops, "print") = Cardinality({j \in Reached(f) : f.body[j].node = "Print"})
           /\ g.hasResult = \E j \in Reached(f) : f.body[j].node = "Return" /\ f.body[j].expr # None
      /\ result = "nullptr" =>
           \E k \in DOMAIN functions : Count(functions[k].ops, "matmul") > 0

\* MLIRGen.cpp:401: "Codegen a list of expression, return failure if one of
\* them hit an error."
FailedStatementDropsFunction ==
  result = "module" =>
    \A k \in DOMAIN source : source[k].name \in Emitted => FunctionSound(source[k])

\* MLIRGen.h:15-16: mlirGen() "returns a newly created MLIR module or nullptr
\* on failure".
NullOnFailure ==
  result = "module" => \A k \in DOMAIN source : FunctionSound(source[k])
=============================================================================
