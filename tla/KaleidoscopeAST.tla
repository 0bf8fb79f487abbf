--------------------------- MODULE KaleidoscopeAST ---------------------------
(***************************************************************************)
(* The abstract syntax trees the Kaleidoscope parser hands to the code     *)
(* generator (kaleidoscope/include/ast.h), and the lexical scoping rules   *)
(* of the language, stated on the trees alone.                             *)
(*                                                                         *)
(* A tree is a set of nodes: Ast[n] is the record of node n and its        *)
(* children are the nodes of Ast[n].kids, listed in the order in which     *)
(* codegen() visits them.  Numbers, and the text of identifiers, are kept  *)
(* only as far as they can be told apart.                                  *)
(***************************************************************************)
EXTENDS Integers, Sequences, FiniteSets

CONSTANTS
  Node,    \* the AST nodes of every function body under consideration
  Var,     \* variable names
  Op,      \* one-character operators
  Callee,  \* names of ordinary functions
  NoNode,  \* a null unique_ptr<ExprAST>: an initialiser that was left out
  Ast,     \* node -> its record
  Root,    \* the bodies: the node FunctionAST::Body points to
  FnName,  \* body -> the name of the function's own prototype
  Params,  \* body -> the parameter names of that prototype
  LexEnv   \* node -> the lexical environment the node is evaluated in

Kind == {"num", "var", "unary", "binary", "call", "if", "for", "varin"}

(***************************************************************************)
(* One record shape for the classes of ast.h.  "name" is the variable, the *)
(* operator or the callee; "names" the variables the node binds (one for a *)
(* for, one or more for a var/in, none otherwise).  kids are, in codegen   *)
(* order: for = start, body, [step,] end; varin = the initialisers (NoNode *)
(* when absent), then the body.                                            *)
(***************************************************************************)
NodeRecord == [kind : Kind, name : Var \cup Op \cup Callee,
               names : Seq(Var), kids : Seq(Node \cup {NoNode})]

Arity(n) == Len(Ast[n].kids)

(***************************************************************************)
(* Every symbol name a module or the JIT can hold.  An operator's function *)
(* is called "unary" or "binary" followed by the operator character, and   *)
(* the function around a top-level expression __anon_expr: no identifier   *)
(* can spell either.                                                       *)
(***************************************************************************)
Anon         == <<"anon", "__anon_expr">>
Fn == ({"unary", "binary"} \X Op) \cup ({"fn"} \X Callee) \cup {Anon}
UnaryFn(op)  == <<"unary", op>>
BinaryFn(op) == <<"binary", op>>
NamedFn(c)   == <<"fn", c>>

(***************************************************************************)
(* Stack slots (AllocaInst).  A binding construct creates one slot per     *)
(* name each time it is generated, and a body is generated once, so a slot *)
(* is identified by its binder: the i-th parameter of body r, or the i-th  *)
(* name of node n.                                                         *)
(***************************************************************************)
ArgSlot(r, i)   == <<"arg", r, i>>
LocalSlot(n, i) == <<"local", n, i>>
NoSlot          == <<>>
Slot == {NoSlot} \cup ({"arg", "local"} \X Node \X Nat)

(***************************************************************************)
(* Lexical scoping, the language rule the generator has to implement with  *)
(* one mutable map.  LastNamed is the innermost of the first b names of n  *)
(* that is spelt v; Scope(n, b) is the environment once n has brought its  *)
(* first b names into scope.                                               *)
(***************************************************************************)
BindsIn(n, b, v) == \E i \in 1..b : Ast[n].names[i] = v
LastNamed(n, b, v) ==
  CHOOSE i \in 1..b : /\ Ast[n].names[i] = v
                      /\ \A j \in 1..b : Ast[n].names[j] = v => j <= i

Scope(n, b) ==
  [v \in Var |-> IF BindsIn(n, b, v) THEN LocalSlot(n, LastNamed(n, b, v))
                                     ELSE LexEnv[n][v]]

ParamScope(r, params) ==
  [v \in Var |-> IF \E i \in 1..Len(params) : params[i] = v
                   THEN ArgSlot(r, CHOOSE i \in 1..Len(params) : params[i] = v)
                   ELSE NoSlot]

(***************************************************************************)
(* How many of n's names are in scope in its k-th child: a for's variable  *)
(* is visible in everything but the start expression, the i-th name of a   *)
(* var/in in everything after its own initialiser.                         *)
(***************************************************************************)
BoundFor(n, k) == CASE Ast[n].kind = "for"   -> IF k = 1 THEN 0 ELSE 1
                    [] Ast[n].kind = "varin" -> k - 1
                    [] OTHER                 -> 0

Distinct(s) == \A i, j \in 1..Len(s) : s[i] = s[j] => i = j

WellShaped(n) ==
  LET a == Ast[n] IN
  CASE a.kind \in {"num", "var"} -> a.names = <<>> /\ a.kids = <<>>
    [] a.kind = "unary"          -> a.names = <<>> /\ Len(a.kids) = 1
    [] a.kind = "binary"         -> a.names = <<>> /\ Len(a.kids) = 2
    [] a.kind = "call"           -> a.names = <<>>
    [] a.kind = "if"             -> a.names = <<>> /\ Len(a.kids) = 3
    [] a.kind = "for"            -> a.names = <<a.name>> /\ Len(a.kids) \in {3, 4}
    [] a.kind = "varin"          -> /\ Len(a.names) >= 1
                                    /\ Len(a.kids) = Len(a.names) + 1

(***************************************************************************)
(* What the parser guarantees of a tree (parser.cpp), and the scoping      *)
(* equations.  Only a var/in initialiser may be a null pointer; a name is  *)
(* of the sort its node calls for.  Parameter lists without repetition are *)
(* a restriction of the model: LLVM renames a repeated argument.           *)
(***************************************************************************)
ASSUME AstAssumption ==
  /\ NoNode \notin Node
  /\ Root \subseteq Node
  /\ FnName \in [Root -> Fn]
  /\ Params \in [Root -> Seq(Var)]
  /\ \A r \in Root : Distinct(Params[r])
  /\ DOMAIN Ast = Node
  /\ \A n \in Node :
       /\ Ast[n] \in NodeRecord
       /\ WellShaped(n)
       /\ Ast[n].kind \in {"var", "for"} => Ast[n].name \in Var
       /\ Ast[n].kind \in {"unary", "binary"} => Ast[n].name \in Op
       /\ Ast[n].kind = "call" => Ast[n].name \in Callee
       /\ \A k \in 1..Arity(n) :
            Ast[n].kids[k] = NoNode => Ast[n].kind = "varin" /\ k < Arity(n)

(***************************************************************************)
(* LexEnv is the solution of the scoping equations over the trees.         *)
(***************************************************************************)
ASSUME LexEnvAssumption ==
  /\ LexEnv \in [Node -> [Var -> Slot]]
  /\ \A r \in Root : LexEnv[r] = ParamScope(r, Params[r])
  /\ \A n \in Node : \A k \in 1..Arity(n) :
       Ast[n].kids[k] # NoNode => LexEnv[Ast[n].kids[k]] = Scope(n, BoundFor(n, k))
=============================================================================
