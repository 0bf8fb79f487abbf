----------------------------- MODULE Kaleidoscope -----------------------------
(***************************************************************************)
(* A session of the Kaleidoscope front end: MainLoop() and the Handle...() *)
(* functions of kaleidoscope/src/main.cpp, and FunctionAST::codegen() and  *)
(* PrototypeAST::codegen() around the expression generator.                *)
(*                                                                         *)
(* The session reads one top-level item after another: a definition or an  *)
(* expression (a body of Root) or an extern.  What one item leaves behind  *)
(* in FunctionProtos, TheModule, NamedValues, BinopPrecedence and the JIT  *)
(* is what the next one starts from, whether the item succeeded or failed. *)
(* The items arrive in every order and as often as one likes.              *)
(*                                                                         *)
(* The JIT is external (LLVM's ORC): one symbol table, in which a symbol   *)
(* is defined at most once, and a process whose own symbols are found when *)
(* a lookup misses.                                                        *)
(***************************************************************************)
EXTENDS ExprCodegen

CONSTANTS
  Externs,     \* the prototypes extern may declare: name and parameter names
  HostArity,   \* the functions of the process itself -> their arity
  Precedence,  \* body -> the precedence its prototype gives a binary operator
  BodyOf       \* node -> the body it belongs to

VARIABLES
  BinopPrecedence, \* operator -> precedence, for the operators it holds
  jit              \* symbol -> [arity, calls], the JIT's one symbol table

sessionVars == <<vars, BinopPrecedence, jit>>

\* The operators the table is initialised with.
BuiltinPrecedence == [op \in (Builtins \cup {"="}) \cap Op |->
  CASE op = "=" -> 2 [] op = "<" -> 10 [] op \in {"+", "-"} -> 20 [] op = "*" -> 40]

IsBinaryOp(f) == f[1] = "binary"

ASSUME SessionAssumption ==
  /\ Externs \subseteq (Fn \ {Anon}) \X Seq(Var)
  /\ \A e \in Externs : Distinct(e[2])
  /\ DOMAIN HostArity \subseteq Fn /\ \A f \in DOMAIN HostArity : HostArity[f] \in Nat
  \* the parser: 1..100, and a fixed number of parameters for an operator
  /\ Precedence \in [Root -> 1..100]
  /\ \A r \in Root : /\ FnName[r] = Anon => Params[r] = <<>>
                     /\ FnName[r][1] = "unary" => Len(Params[r]) = 1
                     /\ FnName[r][1] = "binary" => Len(Params[r]) = 2
  /\ \A e \in Externs : /\ e[1][1] = "unary" => Len(e[2]) = 1
                        /\ e[1][1] = "binary" => Len(e[2]) = 2
  /\ BodyOf \in [Node -> Root]
  /\ \A r \in Root : BodyOf[r] = r
  /\ \A n \in Node : \A k \in 1..Arity(n) :
       Ast[n].kids[k] # NoNode => BodyOf[Ast[n].kids[k]] = BodyOf[n]

-----------------------------------------------------------------------------
(* Reading an item. *)

\* No item is being handled and the process is alive.
Ready == fn = NoFunction /\ fault = "none"

\* GetTokPrecedence(): only an operator with a positive precedence continues an
\* expression, so the parser can only have built trees out of those.
Parses(r) ==
  \A n \in Node : BodyOf[n] = r /\ Ast[n].kind = "binary"
                    => Ast[n].name \in DOMAIN BinopPrecedence

\* seeded fault: FunctionProtos is not told about a definition
NotRecorded(f, params) == FunctionProtos
Recorded(f, params) == Put(FunctionProtos, f, params)

Installed(r) == Put(BinopPrecedence, FnName[r][2], Precedence[r])

(***************************************************************************)
(* FunctionAST::codegen() up to the body.  The prototype replaces whatever *)
(* FunctionProtos had under that name, but a declaration that is already   *)
(* in the open module goes first: the function gets that one's arguments.  *)
(***************************************************************************)
BeginFunction(r) ==
  LET f == FnName[r]
      args == IF f \in DOMAIN TheModule THEN TheModule[f].args ELSE Params[r]
  IN  /\ Ready
      /\ Parses(r)
      /\ FunctionProtos' = Recorded(f, Params[r])
      /\ TheModule' = Put(TheModule, f, [args |-> args, body |-> TRUE])
      /\ BinopPrecedence' = IF IsBinaryOp(f) THEN Installed(r) ELSE BinopPrecedence
      /\ EnterBody(f, r, args)
      /\ UNCHANGED <<jit, fault>>

(***************************************************************************)
(* PrototypeAST::codegen() for an extern.  A second declaration of a name  *)
(* in one module is created under another name ("f.1"), so the module goes *)
(* on finding the first one; FunctionProtos takes the latest.              *)
(***************************************************************************)
HandleExtern(e) ==
  /\ Ready
  /\ TheModule' = IF e[1] \in DOMAIN TheModule THEN TheModule
                  ELSE Put(TheModule, e[1], [args |-> e[2], body |-> FALSE])
  /\ FunctionProtos' = Recorded(e[1], e[2])
  /\ UNCHANGED <<stack, result, NamedValues, fn, fault, BinopPrecedence, jit>>

-----------------------------------------------------------------------------
(* The end of a function. *)

Finished == fault = "none" /\ fn.complete

\* InitializeModuleAndManagers() after a module was handed over.
NewModule == TheModule' = EmptyMap /\ fn' = NoFunction /\ result' = Pending

Die(how) == /\ fault' = how
            /\ UNCHANGED <<stack, result, NamedValues, FunctionProtos, TheModule, fn,
                           BinopPrecedence, jit>>

Duplicate == fn.name \in DOMAIN jit

\* The optimiser may delete calls: dead branches, folded library functions.
AddDefinition ==
  /\ Finished /\ fn.name # Anon
  /\ ~Duplicate
  /\ \E calls \in SUBSET fn.calls :
       jit' = Put(jit, fn.name, [arity |-> Len(fn.args), calls |-> calls])
  /\ NewModule
  /\ UNCHANGED <<stack, NamedValues, FunctionProtos, fault, BinopPrecedence>>

\* addModule() reports a duplicate definition and ExitOnErr exits.
AddDuplicate ==
  /\ Finished /\ fn.name # Anon
  /\ Duplicate
  /\ Die("duplicate")

(***************************************************************************)
(* A top-level expression is looked up and run at once.  Looking it up     *)
(* compiles, through their calls, all the functions it may reach.          *)
(***************************************************************************)
Names(calls) == {c[1] : c \in calls}
Reach(calls) ==
  LET R[k \in 0..Cardinality(DOMAIN jit)] ==
        IF k = 0 THEN Names(calls)
        ELSE LET before == R[k - 1]
             IN  before \cup UNION {Names(jit[f].calls) : f \in before \cap DOMAIN jit}
  IN  R[Cardinality(DOMAIN jit)]

\* The symbol table once the host functions among these names were found.
WithHost(names) ==
  [f \in DOMAIN jit \cup (names \cap DOMAIN HostArity) |->
     IF f \in DOMAIN jit THEN jit[f] ELSE [arity |-> HostArity[f], calls |-> {}]]

\* The calls of a symbol table that pass another number of arguments than
\* the callee takes.
Mismatches(table, calls) == {c \in calls : c[1] \in DOMAIN table /\ c[2] # table[c[1]].arity}
RunSafely(table, calls) ==
  /\ Mismatches(table, calls) = {}
  /\ \A f \in Reach(calls) \cap DOMAIN table : Mismatches(table, table[f].calls) = {}

Resolved(calls) == Reach(calls) \subseteq DOMAIN jit \cup DOMAIN HostArity

\* The expression runs, and RT->remove() takes it out of the JIT again.
EvaluateExpression ==
  /\ Finished /\ fn.name = Anon
  /\ \E calls \in SUBSET fn.calls :
       /\ Resolved(calls)
       /\ jit' = WithHost(Reach(calls))
       /\ fault' = IF RunSafely(jit', calls) THEN "none" ELSE "mismatch"
  /\ NewModule
  /\ UNCHANGED <<stack, NamedValues, FunctionProtos, BinopPrecedence>>

\* lookup() fails, and ExitOnErr exits.
LookupFails ==
  /\ Finished /\ fn.name = Anon
  /\ \E calls \in SUBSET fn.calls : ~Resolved(calls)
  /\ Die("missing")

\* seeded fault: the unfinished function is not erased
NotErased == TheModule
Erased == Drop(TheModule, fn.name)

\* "Error reading body, remove function."
AbandonBody ==
  /\ fault = "none" /\ fn # NoFunction
  /\ ~Generating /\ result = Null
  /\ TheModule' = Erased
  /\ BinopPrecedence' = IF IsBinaryOp(fn.name) THEN Drop(BinopPrecedence, fn.name[2])
                                               ELSE BinopPrecedence
  /\ fn' = NoFunction /\ result' = Pending
  /\ UNCHANGED <<stack, NamedValues, FunctionProtos, fault, jit>>

-----------------------------------------------------------------------------
SessionInit ==
  /\ stack = <<>> /\ result = Pending
  /\ NamedValues = [v \in Var |-> NoSlot]
  /\ FunctionProtos = EmptyMap
  /\ TheModule = EmptyMap
  /\ fn = NoFunction
  /\ fault = "none"
  /\ BinopPrecedence = BuiltinPrecedence
  /\ jit = EmptyMap

Generate == Step /\ UNCHANGED <<BinopPrecedence, jit>>

\* Everything but reading: what happens whether or not there is more input.
Work == \/ Generate \/ AddDefinition \/ AddDuplicate
        \/ EvaluateExpression \/ LookupFails \/ AbandonBody

SessionNext == \/ \E r \in Root : BeginFunction(r)
               \/ \E e \in Externs : HandleExtern(e)
               \/ Work

\* The input may end after any item; an item once read is worked off.
SessionSpec == SessionInit /\ [][SessionNext]_sessionVars /\ WF_sessionVars(Work)

-----------------------------------------------------------------------------
(* Properties. *)

SessionTypeOK ==
  /\ TypeOK
  /\ IsMap(BinopPrecedence, Op, 1..100)
  /\ IsMap(jit, Fn, [arity : Nat, calls : SUBSET (Fn \X Nat)])

(***************************************************************************)
(* assert(F && "binary operator not found!") never fails: an operator the  *)
(* parser accepts has a prototype, through every order of definitions that *)
(* succeed, fail and are repeated.                                         *)
(***************************************************************************)
NoAssertFailure == fault # "assert"

(***************************************************************************)
(* Only the function under construction has a body in the open module: a   *)
(* body that failed was taken out ("if we didn't delete it, it would live  *)
(* in the symbol table of TheModule, with a body, preventing future        *)
(* redefinition"), and a finished one went to the JIT with its module.     *)
(***************************************************************************)
OnlyCurrentBody ==
  \A f \in DOMAIN TheModule : TheModule[f].body => fn # NoFunction /\ fn.name = f

(***************************************************************************)
(* In the generated code, every call passes as many arguments as the       *)
(* callee's declaration in the same module has.                            *)
(***************************************************************************)
CallsMatchDeclarations ==
  \A c \in fn.calls : c[1] \in DOMAIN TheModule /\ Len(TheModule[c[1]].args) = c[2]

\* All the prototypes the input gives a name have as many parameters.
ConsistentArities ==
  LET Written == {<<FnName[r], Len(Params[r])>> : r \in Root}
                 \cup {<<e[1], Len(e[2])>> : e \in Externs}
                 \cup {<<f, HostArity[f]>> : f \in DOMAIN HostArity}
  IN  \A x, y \in Written : x[1] = y[1] => x[2] = y[2]

(***************************************************************************)
(* Compiled code never calls a function with another number of arguments   *)
(* than it was compiled for.  Only the argument count check of             *)
(* CallExprAST::codegen() stands between the two, and it looks at a        *)
(* declaration, not at the compiled function.                              *)
(***************************************************************************)
CallsAreSafe == fault # "mismatch"
CallsAreSafeIfConsistent == ConsistentArities => CallsAreSafe

(***************************************************************************)
(* An operator whose function has been compiled can go on being used in    *)
(* expressions.                                                            *)
(***************************************************************************)
OperatorsStayUsable ==
  Ready => /\ \A op \in Op : BinaryFn(op) \in DOMAIN jit => op \in DOMAIN BinopPrecedence
           /\ DOMAIN BuiltinPrecedence \subseteq DOMAIN BinopPrecedence

(***************************************************************************)
(* A second definition of a function is taken ("First it searches all the  *)
(* modules that have already been added to the JIT, from the most recent   *)
(* to the oldest, to find the newest definition").                         *)
(***************************************************************************)
RedefinitionAccepted == fault # "duplicate"

\* Every item that is begun is worked off, or the process dies over it.
ItemsAreWorkedOff == fn # NoFunction ~> (fn = NoFunction \/ fault # "none")
=============================================================================
