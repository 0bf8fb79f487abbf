----------------------------- MODULE ExprCodegen -----------------------------
(***************************************************************************)
(* The recursive code generator of kaleidoscope/src/ast.cpp: the           *)
(* codegen() method of every expression class.                             *)
(*                                                                         *)
(* The C++ recursion is modelled by an explicit stack of frames, one per   *)
(* codegen() activation.  An action is the code between two recursive      *)
(* calls: it ends by descending into a child or by returning to the        *)
(* caller.  The generator works on one global map, NamedValues, and on one *)
(* insertion point; a child may change both, and the caller goes on with   *)
(* whatever the child left behind.                                         *)
(*                                                                         *)
(* A value is abstracted to the basic block that defines it, which is what *)
(* the IR verifier looks at; a function under construction is its control  *)
(* flow graph, its PHI nodes, the (definition, use) pairs, the slots the   *)
(* variables were resolved to, and the calls.                              *)
(***************************************************************************)
EXTENDS KaleidoscopeAST

Const   == 0    \* a constant or an argument: dominates every block
Null    == -1   \* the nullptr an erroneous codegen() returns
Pending == -2   \* no codegen() has returned yet

Entry == 1      \* the "entry" block is the first of a function

VARIABLES
  stack,           \* activations of codegen(), the innermost one last
  result,          \* what the outermost codegen() returned
  NamedValues,     \* name -> slot; NoSlot for a null or missing entry
  FunctionProtos,  \* name -> parameter names, for the names it holds
  TheModule,       \* name -> [args, body], the functions of the open module
  fn,              \* the function under construction
  fault            \* "none", or how the compiler process died

vars == <<stack, result, NamedValues, FunctionProtos, TheModule, fn, fault>>

\* How the process can die: the assert in BinaryExprAST, an undefined read, and
\* three ends that only the session around the generator reaches.
Faults == {"none", "assert", "undefined", "duplicate", "missing", "mismatch"}

Block == [term : Seq(SUBSET Nat), placed : BOOLEAN]
Frame == [node : Node, vals : Seq(Int), old : Seq(Slot), bbs : Seq(Nat)]

(***************************************************************************)
(* std::map and the symbol table of a module, as functions on the keys     *)
(* they hold.                                                              *)
(***************************************************************************)
EmptyMap == [k \in {} |-> <<>>]
Put(m, k, v) == [x \in DOMAIN m \cup {k} |-> IF x = k THEN v ELSE m[x]]
Drop(m, k) == [x \in DOMAIN m \ {k} |-> m[x]]

(***************************************************************************)
(* getFunction(): the open module first, then a fresh declaration made     *)
(* from FunctionProtos, then null.                                         *)
(***************************************************************************)
Declared(f) == f \in DOMAIN TheModule \/ f \in DOMAIN FunctionProtos
DeclArgs(f) == IF f \in DOMAIN TheModule THEN TheModule[f].args ELSE FunctionProtos[f]
WithDecl(f) == IF f \in DOMAIN TheModule \/ f \notin DOMAIN FunctionProtos
                 THEN TheModule
                 ELSE Put(TheModule, f, [args |-> FunctionProtos[f], body |-> FALSE])

-----------------------------------------------------------------------------
(* The function under construction and the IRBuilder. *)

EmptyBlock(placed) == [term |-> <<>>, placed |-> placed]
NoFunction == [name |-> <<"none", "none">>, body |-> NoNode, args |-> <<>>,
               blocks |-> <<>>, cur |-> 0, phis |-> {}, uses |-> {},
               slots |-> {}, calls |-> {}, complete |-> FALSE]

\* An instruction at the insertion point that uses the values V.
Use(g, V) == [g EXCEPT !.uses = @ \cup {<<v, g.cur>> : v \in V \ {Const}}]
\* A terminator at the insertion point, with these successors.
Br(g, succs) == [g EXCEPT !.blocks[g.cur].term = Append(@, succs)]
AddBlock(g, placed) == [g EXCEPT !.blocks = Append(@, EmptyBlock(placed))]
\* seeded fault: the block is never inserted into the function
NeverPlaced(g, b) == g
Place(g, b) == [g EXCEPT !.blocks[b].placed = TRUE]
\* seeded fault: the insertion point is not moved
StaysPut(g, b) == g
SetInsertPoint(g, b) == [g EXCEPT !.cur = b]
AddCall(g, f, n) == [g EXCEPT !.calls = @ \cup {<<f, n>>}]
\* The occurrence n of a variable was resolved to slot s.
Resolve(g, n, s) == [g EXCEPT !.slots = @ \cup {<<n, s>>}]

-----------------------------------------------------------------------------
(* Activations. *)

NewFrame(n) == [node |-> n, vals |-> <<>>, old |-> <<>>, bbs |-> <<>>]
Depth  == Len(stack)
Top    == stack[Depth]
TopAst == Ast[Top.node]
Done   == Len(Top.vals)                \* children already generated
Latest   == Top.vals[Done]               \* what the latest one returned
Below  == SubSeq(stack, 1, Depth - 1)

\* Call codegen() on the k-th child; the caller's frame becomes f.
Descend(f, k) ==
  /\ stack' = Append(Append(Below, f), NewFrame(Ast[f.node].kids[k]))
  /\ UNCHANGED result

\* Return v to the caller.
Return(v) ==
  IF Depth = 1
    THEN stack' = <<>> /\ result' = v
    ELSE /\ stack' = [Below EXCEPT ![Depth - 1].vals = Append(@, v)]
         /\ UNCHANGED result

\* The innermost activation is in a node of this kind, k children done.
At(kind, k) == stack # <<>> /\ TopAst.kind = kind /\ Done = k

FailWith(kind) == /\ stack # <<>> /\ TopAst.kind = kind
                  /\ Done > 0 /\ Latest = Null
                  /\ Return(Null)
                  /\ UNCHANGED <<NamedValues, TheModule, fn, fault>>

-----------------------------------------------------------------------------
(* NumberExprAST, VariableExprAST, UnaryExprAST *)

Number ==
  /\ At("num", 0)
  /\ Return(Const)
  /\ UNCHANGED <<NamedValues, TheModule, fn, fault>>

VariableLoad ==
  /\ At("var", 0)
  /\ NamedValues[TopAst.name] # NoSlot
  /\ fn' = Resolve(fn, Top.node, NamedValues[TopAst.name])
  /\ Return(fn.cur)
  /\ UNCHANGED <<NamedValues, TheModule, fault>>

VariableUnknown ==
  /\ At("var", 0)
  /\ NamedValues[TopAst.name] = NoSlot
  /\ Return(Null)
  /\ UNCHANGED <<NamedValues, TheModule, fn, fault>>

UnaryOperand ==
  /\ At("unary", 0)
  /\ Descend(Top, 1)
  /\ UNCHANGED <<NamedValues, TheModule, fn, fault>>

UnaryCall ==
  /\ At("unary", 1)
  /\ Latest # Null
  /\ Declared(UnaryFn(TopAst.name))
  /\ TheModule' = WithDecl(UnaryFn(TopAst.name))
  /\ fn' = AddCall(Use(fn, {Latest}), UnaryFn(TopAst.name), 1)
  /\ Return(fn.cur)
  /\ UNCHANGED <<NamedValues, fault>>

UnaryUnknown ==
  /\ At("unary", 1)
  /\ Latest # Null
  /\ ~Declared(UnaryFn(TopAst.name))
  /\ Return(Null)
  /\ UNCHANGED <<NamedValues, TheModule, fn, fault>>

-----------------------------------------------------------------------------
(* BinaryExprAST.  '=' never generates its left operand: it reads the      *)
(* operand's Name through an unchecked static_cast.                        *)

Builtins == {"+", "-", "*", "<"}        \* the operators of the switch
Lhs == TopAst.kids[1]
IsAssign == TopAst.name = "="

AssignEnter ==
  /\ At("binary", 0) /\ IsAssign
  /\ Descend([Top EXCEPT !.vals = <<Const>>], 2)
  /\ UNCHANGED <<NamedValues, TheModule, fn, fault>>

\* The string the cast finds: the node's own name where the class keeps a
\* string first (VariableExprAST, CallExprAST, ForExprAST).
CastName(n) == Ast[n].name
CastDefined(n) == Ast[n].kind \in {"var", "call", "for"}

AssignStore ==
  /\ At("binary", 2) /\ IsAssign
  /\ Latest # Null
  /\ CastDefined(Lhs) /\ CastName(Lhs) \in Var
  /\ NamedValues[CastName(Lhs)] # NoSlot
  /\ fn' = Use(Resolve(fn, Lhs, NamedValues[CastName(Lhs)]), {Latest})
  /\ Return(Latest)
  /\ UNCHANGED <<NamedValues, TheModule, fault>>

AssignUnknown ==
  /\ At("binary", 2) /\ IsAssign
  /\ Latest # Null
  /\ CastDefined(Lhs) /\ CastName(Lhs) \in Var => NamedValues[CastName(Lhs)] = NoSlot
  /\ Return(Null)
  /\ UNCHANGED <<NamedValues, TheModule, fn, fault>>

\* Any other operand has no string there: the read is undefined.  The lookup
\* may miss (AssignUnknown) or the process may die.
AssignUndefined ==
  /\ At("binary", 2) /\ IsAssign
  /\ Latest # Null
  /\ ~CastDefined(Lhs)
  /\ fault' = "undefined"
  /\ UNCHANGED <<stack, result, NamedValues, TheModule, fn>>

BinaryLHS ==
  /\ At("binary", 0) /\ ~IsAssign
  /\ Descend(Top, 1)
  /\ UNCHANGED <<NamedValues, TheModule, fn, fault>>

\* The right operand is generated even when the left one failed.
BinaryRHS ==
  /\ At("binary", 1) /\ ~IsAssign
  /\ Descend(Top, 2)
  /\ UNCHANGED <<NamedValues, TheModule, fn, fault>>

Operands == {Top.vals[1], Top.vals[2]}

BinaryBuiltin ==
  /\ At("binary", 2) /\ ~IsAssign
  /\ Null \notin Operands
  /\ TopAst.name \in Builtins
  /\ fn' = Use(fn, Operands)
  /\ Return(fn.cur)
  /\ UNCHANGED <<NamedValues, TheModule, fault>>

BinaryUser ==
  /\ At("binary", 2) /\ ~IsAssign
  /\ Null \notin Operands
  /\ TopAst.name \notin Builtins
  /\ Declared(BinaryFn(TopAst.name))
  /\ TheModule' = WithDecl(BinaryFn(TopAst.name))
  /\ fn' = AddCall(Use(fn, Operands), BinaryFn(TopAst.name), 2)
  /\ Return(fn.cur)
  /\ UNCHANGED <<NamedValues, fault>>

\* assert(F && "binary operator not found!")
BinaryAssertFails ==
  /\ At("binary", 2) /\ ~IsAssign
  /\ Null \notin Operands
  /\ TopAst.name \notin Builtins
  /\ ~Declared(BinaryFn(TopAst.name))
  /\ fault' = "assert"
  /\ UNCHANGED <<stack, result, NamedValues, TheModule, fn>>

\* seeded fault: a failed right operand goes unnoticed
LeftFailed == IF IsAssign THEN Latest = Null ELSE Top.vals[1] = Null
OperandFailed == IF IsAssign THEN Latest = Null ELSE Null \in Operands

BinaryFail ==
  /\ At("binary", 2)
  /\ OperandFailed
  /\ Return(Null)
  /\ UNCHANGED <<NamedValues, TheModule, fn, fault>>

Binary == \/ AssignEnter \/ AssignStore \/ AssignUnknown \/ AssignUndefined
          \/ BinaryLHS \/ BinaryRHS \/ BinaryBuiltin \/ BinaryUser
          \/ BinaryAssertFails \/ BinaryFail

-----------------------------------------------------------------------------
(* CallExprAST *)

CalleeFn == NamedFn(TopAst.name)
\* seeded fault: the number of arguments is not checked
CalleeKnown == Declared(CalleeFn)
CalleeAccepts == Declared(CalleeFn) /\ Len(DeclArgs(CalleeFn)) = Len(TopAst.kids)

\* Unknown function, or "Incorrect # arguments passed".
CallReject ==
  /\ At("call", 0)
  /\ ~CalleeAccepts
  /\ TheModule' = WithDecl(CalleeFn)
  /\ Return(Null)
  /\ UNCHANGED <<NamedValues, fn, fault>>

\* The declaration is looked up before the first argument only.
CallArgument ==
  /\ stack # <<>> /\ TopAst.kind = "call" /\ Done < Len(TopAst.kids)
  /\ IF Done = 0 THEN CalleeAccepts ELSE Latest # Null
  /\ TheModule' = WithDecl(CalleeFn)
  /\ Descend(Top, Done + 1)
  /\ UNCHANGED <<NamedValues, fn, fault>>

CallEmit ==
  /\ At("call", Len(TopAst.kids))
  /\ IF Done = 0 THEN CalleeAccepts ELSE Latest # Null
  /\ TheModule' = WithDecl(CalleeFn)
  /\ fn' = AddCall(Use(fn, {Top.vals[i] : i \in 1..Done}), CalleeFn, Done)
  /\ Return(fn.cur)
  /\ UNCHANGED <<NamedValues, fault>>

Call == CallReject \/ CallArgument \/ CallEmit \/ FailWith("call")

-----------------------------------------------------------------------------
(* IfExprAST.  bbs holds ThenBB, ElseBB and MergeBB.  Generating a branch  *)
(* may move the insertion point, so ThenBB is looked up again at its end.  *)

ThreeBlocks(g) == AddBlock(AddBlock(AddBlock(g, TRUE), FALSE), FALSE)
\* seeded fault: ThenBB is not updated
StaleThenBB == Top.bbs[1]
ThenEnd == fn.cur
\* seeded fault: the value of the then branch is returned, not the PHI
ThenValue == Top.vals[2]
PhiValue == Top.bbs[3]

IfCondition ==
  /\ At("if", 0)
  /\ Descend(Top, 1)
  /\ UNCHANGED <<NamedValues, TheModule, fn, fault>>

IfThen ==
  LET n == Len(fn.blocks)
      g == Use(ThreeBlocks(fn), {Latest})
  IN  /\ At("if", 1)
      /\ Latest # Null
      /\ fn' = SetInsertPoint(Br(g, {n + 1, n + 2}), n + 1)
      /\ Descend([Top EXCEPT !.bbs = <<n + 1, n + 2, n + 3>>], 2)
      /\ UNCHANGED <<NamedValues, TheModule, fault>>

IfElse ==
  /\ At("if", 2)
  /\ Latest # Null
  /\ fn' = SetInsertPoint(Place(Br(fn, {Top.bbs[3]}), Top.bbs[2]), Top.bbs[2])
  /\ Descend([Top EXCEPT !.bbs[1] = ThenEnd], 3)
  /\ UNCHANGED <<NamedValues, TheModule, fault>>

IfMerge ==
  LET merge == Top.bbs[3]
      phi == [blk |-> merge, in |-> {<<Top.vals[2], Top.bbs[1]>>, <<Latest, fn.cur>>}]
      g == SetInsertPoint(Place(Br(fn, {merge}), merge), merge)
  IN  /\ At("if", 3)
      /\ Latest # Null
      /\ fn' = [g EXCEPT !.phis = @ \cup {phi}]
      /\ Return(PhiValue)
      /\ UNCHANGED <<NamedValues, TheModule, fault>>

If == IfCondition \/ IfThen \/ IfElse \/ IfMerge \/ FailWith("if")

-----------------------------------------------------------------------------
(* ForExprAST.  bbs holds LoopBB, old the saved binding (OldVal). *)

Unbound == [NamedValues EXCEPT ![TopAst.names[1]] = Top.old[1]]
\* seeded fault: only one child is generated after the body
OneMoreChild == Done = 2
MoreChildren == Done >= 2 /\ Done < Len(TopAst.kids)

ForStart ==
  /\ At("for", 0)
  /\ Descend(Top, 1)
  /\ UNCHANGED <<NamedValues, TheModule, fn, fault>>

ForBody ==
  LET loop == Len(fn.blocks) + 1
      v == TopAst.names[1]
      g == Br(AddBlock(Use(fn, {Latest}), TRUE), {loop})
  IN  /\ At("for", 1)
      /\ Latest # Null
      /\ fn' = SetInsertPoint(g, loop)
      /\ NamedValues' = [NamedValues EXCEPT ![v] = LocalSlot(Top.node, 1)]
      /\ Descend([Top EXCEPT !.bbs = <<loop>>, !.old = <<NamedValues[v]>>], 2)
      /\ UNCHANGED <<TheModule, fault>>

\* From the body to the step, from the step to the end condition.
ForNext ==
  /\ stack # <<>> /\ TopAst.kind = "for"
  /\ MoreChildren
  /\ Latest # Null
  /\ Descend(Top, Done + 1)
  /\ UNCHANGED <<NamedValues, TheModule, fn, fault>>

ForLatch ==
  LET after == Len(fn.blocks) + 1
      step == IF Done = 4 THEN Top.vals[3] ELSE Const
      g == Br(AddBlock(Use(fn, {step, Latest}), TRUE), {Top.bbs[1], after})
  IN  /\ At("for", Len(TopAst.kids))
      /\ Latest # Null
      /\ fn' = SetInsertPoint(g, after)
      /\ NamedValues' = Unbound
      /\ Return(Const)
      /\ UNCHANGED <<TheModule, fault>>

For == ForStart \/ ForBody \/ ForNext \/ ForLatch \/ FailWith("for")

-----------------------------------------------------------------------------
(* VarExprAST.  old is OldBindings: it has one entry per registered name.  *)

InVarIn == stack # <<>> /\ TopAst.kind = "varin"
NextName == Len(Top.old) + 1
Registered == Len(Top.old) = Len(TopAst.names)

\* Store the initial value, remember the old binding, install the new one.
Bind(vals) ==
  LET v == TopAst.names[NextName] IN
  /\ stack' = Append(Below, [Top EXCEPT !.vals = vals,
                                        !.old = Append(@, NamedValues[v])])
  /\ NamedValues' = [NamedValues EXCEPT ![v] = LocalSlot(Top.node, NextName)]
  /\ UNCHANGED <<result, TheModule, fault>>

VarInitialiser ==
  /\ InVarIn /\ ~Registered
  /\ Done = Len(Top.old)
  /\ TopAst.kids[NextName] # NoNode
  /\ Descend(Top, NextName)
  /\ UNCHANGED <<NamedValues, TheModule, fn, fault>>

VarDefault ==
  /\ InVarIn /\ ~Registered
  /\ Done = Len(Top.old)
  /\ TopAst.kids[NextName] = NoNode
  /\ Bind(Append(Top.vals, Const))
  /\ UNCHANGED fn

VarRegister ==
  /\ InVarIn /\ ~Registered
  /\ Done = NextName
  /\ Latest # Null
  /\ fn' = Use(fn, {Latest})
  /\ Bind(Top.vals)

VarBody ==
  /\ InVarIn /\ Registered
  /\ Done = Len(TopAst.names)
  /\ Descend(Top, NextName)
  /\ UNCHANGED <<NamedValues, TheModule, fn, fault>>

\* for i = 0 .. e-1: NamedValues[VarNames[i].first] = OldBindings[i]
\* seeded fault: the last binding is not restored
RestoredButLast ==
  [v \in Var |-> IF BindsIn(Top.node, Len(Top.old) - 1, v)
                   THEN Top.old[LastNamed(Top.node, Len(Top.old) - 1, v)]
                   ELSE NamedValues[v]]
Restored ==
  [v \in Var |-> IF BindsIn(Top.node, Len(Top.old), v)
                   THEN Top.old[LastNamed(Top.node, Len(Top.old), v)]
                   ELSE NamedValues[v]]

VarLeave ==
  /\ InVarIn
  /\ Done = Len(TopAst.names) + 1
  /\ Latest # Null
  /\ NamedValues' = Restored
  /\ Return(Latest)
  /\ UNCHANGED <<TheModule, fn, fault>>

VarIn == \/ VarInitialiser \/ VarDefault \/ VarRegister \/ VarBody \/ VarLeave
         \/ FailWith("varin")

-----------------------------------------------------------------------------
(* FunctionAST::codegen() around the body: the entry block and the slots   *)
(* of the arguments before it, the return instruction after it.            *)

NewFunction(f, r, args) ==
  [NoFunction EXCEPT !.name = f, !.body = r, !.args = args,
                     !.blocks = <<EmptyBlock(TRUE)>>, !.cur = Entry]

\* seeded fault: NamedValues.clear() is forgotten
NotCleared(r, args) ==
  [v \in Var |-> IF ParamScope(r, args)[v] = NoSlot THEN NamedValues[v]
                                                    ELSE ParamScope(r, args)[v]]
Arguments(r, args) == ParamScope(r, args)

EnterBody(f, r, args) ==
  /\ stack' = <<NewFrame(r)>>
  /\ result' = Pending
  /\ NamedValues' = Arguments(r, args)
  /\ fn' = NewFunction(f, r, args)

Generating == stack # <<>>

ReturnBody ==
  /\ ~Generating /\ result >= Const /\ ~fn.complete
  /\ fn' = [Br(Use(fn, {result}), {}) EXCEPT !.complete = TRUE]
  /\ UNCHANGED <<stack, result, NamedValues, TheModule, fault>>

Variable == VariableLoad \/ VariableUnknown
Unary == UnaryOperand \/ UnaryCall \/ UnaryUnknown \/ FailWith("unary")

Step == /\ fault = "none"
        /\ \/ Number \/ Variable \/ Unary \/ Binary \/ Call
           \/ If \/ For \/ VarIn \/ ReturnBody
        /\ UNCHANGED FunctionProtos

-----------------------------------------------------------------------------
(* Properties. *)

FnRecord ==
  [name : Fn \cup {NoFunction.name}, body : Node \cup {NoNode}, args : Seq(Var),
   blocks : Seq(Block), cur : Nat, phis : SUBSET [blk : Nat, in : SUBSET (Int \X Nat)],
   uses : SUBSET (Int \X Nat), slots : SUBSET (Node \X Slot),
   calls : SUBSET (Fn \X Nat), complete : BOOLEAN]

IsMap(m, K, V) == DOMAIN m \subseteq K /\ \A k \in DOMAIN m : m[k] \in V

BlockIds == 1..Len(fn.blocks)

(***************************************************************************)
(* The type invariant of the generator's state; every basic block that an  *)
(* activation holds on to, and the insertion point, exist.                 *)
(***************************************************************************)
TypeOK ==
  /\ stack \in Seq(Frame)
  /\ result \in Int
  /\ NamedValues \in [Var -> Slot]
  /\ IsMap(FunctionProtos, Fn, Seq(Var))
  /\ IsMap(TheModule, Fn, [args : Seq(Var), body : BOOLEAN])
  /\ fn \in FnRecord
  /\ fn.cur \in BlockIds \cup {0}
  /\ \A j \in 1..Depth : \A i \in 1..Len(stack[j].bbs) : stack[j].bbs[i] \in BlockIds
  /\ fault \in Faults

(***************************************************************************)
(* An error anywhere below poisons every enclosing activation.  After one, *)
(* NamedValues is left as it is (the error paths of For and VarIn return   *)
(* without restoring it) and BinaryExprAST still generates its right       *)
(* operand, so the claims about scopes are about error-free generation.    *)
(***************************************************************************)
Failed == \/ result = Null
          \/ \E j \in 1..Depth : \E i \in 1..Len(stack[j].vals) : stack[j].vals[i] = Null

\* An earlier extern may have imposed its own parameter names (the FIXME above
\* FunctionAST::codegen()); the claims are about functions where it has not.
OwnParameters == fn.body \in Root /\ fn.args = Params[fn.body]

(***************************************************************************)
(* Every occurrence of a variable, read or assigned, is compiled to the    *)
(* stack slot of the binder that lexically encloses it, however many       *)
(* loops, var/in and shadowed names were entered and left before it        *)
(* (the OldVal and OldBindings bookkeeping of ast.cpp).                    *)
(***************************************************************************)
ResolvesLexically ==
  ~Failed /\ OwnParameters =>
    \A use \in fn.slots : use[2] = LexEnv[use[1]][Ast[use[1]].name]

(***************************************************************************)
(* Whenever control is about to enter or has just left a child, the map    *)
(* holds exactly the scope the construct being generated has opened: what  *)
(* a child binds is gone when it returns.                                  *)
(***************************************************************************)
ScopeRestored ==
  Generating /\ ~Failed /\ OwnParameters =>
    NamedValues = Scope(Top.node, Len(Top.old))

(***************************************************************************)
(* What '=' assigns to is a variable ("Assignment requires the LHS to be   *)
(* an identifier"); the static_cast to VariableExprAST checks nothing.     *)
(***************************************************************************)
AssignsToVariables ==
  fault # "undefined" /\ \A use \in fn.slots : Ast[use[1]].kind = "var"

-----------------------------------------------------------------------------
(* The IR verifier's view of a finished function.  FunctionAST::codegen()  *)
(* calls verifyFunction() and throws the answer away, so nothing but the   *)
(* generator itself keeps a broken function from reaching the JIT.         *)

Succs(b) == UNION {fn.blocks[b].term[i] : i \in 1..Len(fn.blocks[b].term)}
Preds(b) == {p \in BlockIds : b \in Succs(p)}

\* The blocks reachable from the entry without passing through "without".
Reachable(without) ==
  LET R[k \in 0..Len(fn.blocks)] ==
        IF k = 0 THEN {Entry} \ {without}
        ELSE LET before == R[k - 1]
             IN  before \cup ((UNION {Succs(b) : b \in before}) \ {without})
  IN  R[Len(fn.blocks)]

Dominates(a, b) == a = b \/ b \notin Reachable(a)

(***************************************************************************)
(* In a finished function every block in use was placed in the function    *)
(* and ends in exactly one terminator, and every block can be reached.     *)
(***************************************************************************)
BlocksTerminated ==
  fn.complete =>
    \A b \in BlockIds : /\ fn.blocks[b].placed
                        /\ Len(fn.blocks[b].term) = 1
                        /\ b \in Reachable(0)

(***************************************************************************)
(* Every PHI lists each predecessor of its block exactly once, although    *)
(* generating a branch may have moved the insertion point away from the    *)
(* block the branch began in; and each incoming value is available at the  *)
(* end of the block it comes from.                                         *)
(***************************************************************************)
PhisMatchPredecessors ==
  fn.complete =>
    \A phi \in fn.phis :
      /\ {edge[2] : edge \in phi.in} = Preds(phi.blk)
      /\ Cardinality(phi.in) = Cardinality(Preds(phi.blk))
      /\ \A edge \in phi.in : edge[1] = Const \/ Dominates(edge[1], edge[2])

(***************************************************************************)
(* Every value is used only where its definition dominates the use: a      *)
(* caller that holds the value of one child while it generates another     *)
(* never finds itself in a block the first value does not reach.           *)
(***************************************************************************)
DefsDominateUses ==
  fn.complete => \A use \in fn.uses : Dominates(use[1], use[2])

(***************************************************************************)
(* While an error-free body is generated the insertion point is the one    *)
(* block of the function that still lacks a terminator, so no instruction  *)
(* is ever appended behind a branch; only the else and merge blocks of the *)
(* ifs being generated are open as well.                                   *)
(***************************************************************************)
InsertPointOpen ==
  ~fn.complete /\ fn.cur # 0 =>
    /\ fn.blocks[fn.cur].term = <<>>
    /\ \A b \in BlockIds : fn.blocks[b].term = <<>> /\ fn.blocks[b].placed => b = fn.cur

(***************************************************************************)
(* Generating any body comes to an end: a value, an error, or the death of *)
(* the process.  No combination of children leaves an activation waiting.  *)
(***************************************************************************)
CodegenTerminates ==
  Generating ~> (fault # "none" \/ (~Generating /\ (result = Null \/ fn.complete)))
=============================================================================
