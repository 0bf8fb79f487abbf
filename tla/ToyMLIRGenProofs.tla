-------------------------- MODULE ToyMLIRGenProofs --------------------------
(***************************************************************************)
(* What MLIRGen.cpp generates, for every module of every source: operands  *)
(* that stand before their users, and a function for every function that   *)
(* the language accepts.                                                   *)
(***************************************************************************)
EXTENDS ToyMLIRGen, SequenceTheorems, FiniteSetTheorems, TLAPS

Type == [ranked : BOOLEAN, dims : Seq(Nat)]
Op == [kind : Kinds, ins : Seq(Nat), type : Type]
Function == [name : STRING, ops : Seq(Op), hasResult : BOOLEAN]
Frame == [expr : Node, values : Seq(Nat)]

\* The positions of o that an operand may name.
Values(o) == {i \in DOMAIN o : o[i].kind \notin NoResult}

\* The operands in v are values of o.
Name(v, o) == \A k \in DOMAIN v : v[k] \in Values(o)

\* Every operand stands before its user.
Dominated(o) == \A i \in DOMAIN o : \A k \in DOMAIN o[i].ins :
                  o[i].ins[k] \in Values(o) /\ o[i].ins[k] < i

Types ==
  /\ source \in Sources /\ source \in Seq(FunctionAST)
  /\ fn \in 1..(Len(source) + 1)
  /\ stmt \in Nat /\ (stmt > 0 => fn <= Len(source))
  /\ stack \in Seq(Frame) /\ value \in {Pending} \cup Nat
  /\ ops \in Seq(Op) /\ functions \in Seq(Function)
  /\ result \in {"none", "module", "nullptr"}

\* Where the generator is: between functions nothing is in sight; while an
\* expression is generated its statement waits for the value.
Place ==
  /\ stmt = 0 => symbolTable = <<>> /\ ops = <<>>
  /\ stack # <<>> \/ value # Pending => InBody
  /\ stack # <<>> => value = Pending

\* Whatever may become an operand is a value of the present function.
Operable ==
  /\ \A x \in DOMAIN symbolTable : symbolTable[x] \in Values(ops)
  /\ \A d \in DOMAIN stack : Name(stack[d].values, ops)
  /\ value \in {Pending, Null} \cup Values(ops)

GenInv ==
  /\ Types /\ Place /\ Operable
  /\ Dominated(ops) /\ \A k \in DOMAIN functions : Dominated(functions[k].ops)
-----------------------------------------------------------------------------
(* Sequences of operations.                                                *)
LEMMA Appended ==
  ASSUME NEW S, NEW s \in Seq(S), NEW e \in S
  PROVE  /\ Append(s, e) \in Seq(S) /\ Append(s, e) # <<>>
         /\ Len(Append(s, e)) = Len(s) + 1
         /\ DOMAIN s = 1..Len(s) /\ DOMAIN Append(s, e) = 1..(Len(s) + 1)
         /\ \A i \in 1..Len(s) : Append(s, e)[i] = s[i]
         /\ Append(s, e)[Len(s) + 1] = e
         /\ Len(s) \in Nat
OBVIOUS

\* An operation behind the others leaves what they are as it is.
LEMMA Grown ==
  ASSUME NEW o \in Seq(Op), NEW op \in Op
  PROVE  /\ Append(o, op) \in Seq(Op)
         /\ Values(o) \subseteq Values(Append(o, op))
         /\ op.kind \notin NoResult => Len(o) + 1 \in Values(Append(o, op))
         /\ Dominated(o) /\ Name(op.ins, o) => Dominated(Append(o, op))
<1> DEFINE p == Append(o, op)
<1>1. /\ p \in Seq(Op) /\ DOMAIN o = 1..Len(o) /\ DOMAIN p = 1..(Len(o) + 1) /\ Len(o) \in Nat
      /\ \A i \in 1..Len(o) : p[i] = o[i]
      /\ p[Len(o) + 1] = op
  BY Appended
<1> HIDE DEF p
<1>2. Values(o) \subseteq Values(p)
  BY <1>1 DEF Values
<1>3. op.kind \notin NoResult => Len(o) + 1 \in Values(p)
  BY <1>1 DEF Values
<1>4. ASSUME Dominated(o), Name(op.ins, o) PROVE Dominated(p)
  <2>1. SUFFICES ASSUME NEW i \in DOMAIN p, NEW k \in DOMAIN p[i].ins
                 PROVE  p[i].ins[k] \in Values(p) /\ p[i].ins[k] < i
    BY DEF Dominated
  <2>2. CASE i \in 1..Len(o)
    BY <1>1, <1>2, <1>4, <2>2 DEF Dominated
  <2>3. CASE i = Len(o) + 1
    <3>1. p[i].ins[k] \in Values(o)
      BY <1>1, <1>4, <2>3 DEF Name
    <3>2. p[i].ins[k] \in 1..Len(o)
      BY <3>1, <1>1 DEF Values
    <3> QED BY <3>1, <3>2, <1>2, <1>1, <2>3
  <2> QED BY <1>1, <2>2, <2>3
<1> QED BY <1>1, <1>2, <1>3, <1>4 DEF p
-----------------------------------------------------------------------------
(* The stack of activations.                                               *)
LEMMA SourceNodes ==
  /\ \A s \in Sources : s \in Seq(FunctionAST)
  /\ \A n \in Node :
       /\ n.node = "BinOp" => n.op \in {"-", "+", "*", "@"}
       /\ n.node = "Literal" => n.dims \in Seq(Nat)
       /\ n.node = "VarDecl" => n.name \in STRING /\ n.shape \in Seq(Nat)
       /\ Subject(n) \in Node /\ Children(n) \in Seq(Node)
       /\ Within[n] = {n} \cup UNION {Within[Children(n)[k]] : k \in DOMAIN Children(n)}
BY SourcesAssumption

LEMMA TopShape ==
  ASSUME stack \in Seq(Frame), stack # <<>>
  PROVE  /\ Len(stack) \in Nat \ {0} /\ DOMAIN stack = 1..Len(stack)
         /\ Top = stack[Len(stack)] /\ Top \in Frame
         /\ Top.expr \in Node /\ Top.values \in Seq(Nat) /\ Operand \in Seq(Node)
<1>1. Len(stack) \in Nat \ {0} /\ DOMAIN stack = 1..Len(stack)
  OBVIOUS
<1>2. Top = stack[Len(stack)] /\ Top \in Frame
  BY <1>1 DEF Top, Last
<1>3. Top.expr \in Node /\ Top.values \in Seq(Nat)
  BY <1>2 DEF Frame
<1> QED BY <1>1, <1>2, <1>3, SourceNodes DEF Operand

LEMMA ResumedShape ==
  ASSUME stack \in Seq(Frame), stack # <<>>, NEW v \in Nat
  PROVE  /\ Resumed(v) \in Seq(Frame) /\ Len(Resumed(v)) = Len(stack) - 1
         /\ \A d \in 1..(Len(stack) - 1) : Resumed(v)[d].expr = stack[d].expr
         /\ \A d \in 1..(Len(stack) - 2) : Resumed(v)[d] = stack[d]
         /\ Len(stack) > 1 =>
              Resumed(v)[Len(stack) - 1].values = Append(stack[Len(stack) - 1].values, v)
<1> DEFINE n == Len(stack)
<1>1. n \in Nat \ {0} /\ \A d \in 1..n : stack[d] \in Frame
  OBVIOUS
<1>2. ASSUME NEW f \in Frame
      PROVE  Given(f, v) \in Frame /\ Given(f, v).expr = f.expr /\ Given(f, v).values = Append(f.values, v)
  <2>1. f.values \in Seq(Nat) /\ f.expr \in Node
    BY DEF Frame
  <2>2. Append(f.values, v) \in Seq(Nat)
    BY <2>1, Appended
  <2> QED BY <2>1, <2>2 DEF Frame, Given
<1>3. \A d \in 1..(n - 1) : Resumed(v)[d] = IF d = n - 1 THEN Given(stack[d], v) ELSE stack[d]
  BY <1>1 DEF Resumed
<1>4. Resumed(v) \in [1..(n - 1) -> Frame]
  <2>1. \A d \in 1..(n - 1) : Resumed(v)[d] \in Frame
    BY <1>1, <1>2, <1>3
  <2>2. Resumed(v) = [d \in 1..(n - 1) |-> Resumed(v)[d]]
    BY DEF Resumed
  <2> QED BY <2>1, <2>2
<1>5. Resumed(v) \in Seq(Frame) /\ Len(Resumed(v)) = n - 1
  BY <1>1, <1>4
<1>6. \A d \in 1..(n - 1) : Resumed(v)[d].expr = stack[d].expr
  BY <1>1, <1>2, <1>3
<1>7. \A d \in 1..(n - 2) : Resumed(v)[d] = stack[d]
  BY <1>1, <1>3
<1>8. n > 1 => Resumed(v)[n - 1].values = Append(stack[n - 1].values, v)
  BY <1>1, <1>2, <1>3
<1> QED BY <1>5, <1>6, <1>7, <1>8
-----------------------------------------------------------------------------
(* The types of what is generated.                                         *)
LEMMA TypesIn ==
  /\ Unranked \in Type /\ \A d \in Seq(Nat) : Tensor(d) \in Type /\ GetType(d) \in Type
  /\ Tensor(<<>>) \in Type
<1>1. \A d \in Seq(Nat) : Tensor(d) \in Type
  BY DEF Tensor, Type
<1>2. Unranked \in Type
  BY DEF Unranked, Type
<1>3. \A d \in Seq(Nat) : GetType(d) \in Type
  BY <1>1, <1>2 DEF GetType
<1>4. <<>> \in Seq(Nat)
  OBVIOUS
<1> QED BY <1>1, <1>2, <1>3, <1>4

LEMMA OperationIn ==
  ASSUME NEW kind \in Kinds, NEW ins \in Seq(Nat), NEW type \in Type
  PROVE  LET op == Operation(kind, ins, type) IN
         op \in Op /\ op.kind = kind /\ op.ins = ins /\ op.type = type
BY DEF Operation, Op

LEMMA ValuesIn ==
  ASSUME NEW o \in Seq(Op)
  PROVE  Values(o) \subseteq 1..Len(o) /\ Values(o) \subseteq Nat \ {0}
BY DEF Values

LEMMA CurrentShape ==
  ASSUME Types, fn <= Len(source)
  PROVE  /\ Current.name \in STRING /\ Current.params \in Seq(STRING) /\ Current.body \in Seq(Node)
         /\ fn \in DOMAIN source
<1>1. fn \in DOMAIN source
  BY DEF Types
<1>2. Current \in FunctionAST
  <2>1. source \in Seq(FunctionAST)
    BY DEF Types
  <2> QED BY <1>1, <2>1 DEF Current
<1> QED BY <1>1, <1>2 DEF FunctionAST

LEMMA StatementShape ==
  ASSUME Types, InBody
  PROVE  /\ Statement \in Node /\ Subject(Statement) \in Node
         /\ fn <= Len(source) /\ stmt \in DOMAIN Current.body
<1>1. fn <= Len(source) /\ stmt \in Nat /\ stmt > 0
  BY DEF Types, InBody
<1>2. Current.body \in Seq(Node)
  BY <1>1, CurrentShape
<1>3. stmt \in DOMAIN Current.body
  BY <1>1, <1>2 DEF InBody
<1> QED BY <1>1, <1>2, <1>3, SourceNodes DEF Statement

LEMMA NameMonotone ==
  ASSUME NEW v, NEW o, NEW p, Name(v, o), Values(o) \subseteq Values(p)
  PROVE  Name(v, p)
BY DEF Name
-----------------------------------------------------------------------------
(* What the parts of the actions preserve.                                 *)
LEMMA YieldKeeps ==
  ASSUME GenInv, stack # <<>>, NEW o \in Seq(Op), NEW v \in Values(o),
         Values(ops) \subseteq Values(o), Dominated(o), Yield(v, o)
  PROVE  GenInv'
<1>1. v \in Nat /\ v # Null
  BY ValuesIn DEF Null
<1>2. /\ stack' = Resumed(v) /\ ops' = o
      /\ value' = (IF Len(stack) = 1 THEN v ELSE value)
      /\ UNCHANGED <<source, fn, stmt, symbolTable, functions, result>>
  BY DEF Yield
<1>3. /\ Len(stack) \in Nat \ {0} /\ stack \in Seq(Frame) /\ value = Pending /\ InBody
  BY TopShape DEF GenInv, Types, Place
<1>4. /\ Resumed(v) \in Seq(Frame) /\ Len(Resumed(v)) = Len(stack) - 1
      /\ \A d \in 1..(Len(stack) - 2) : Resumed(v)[d] = stack[d]
      /\ Len(stack) > 1 => Resumed(v)[Len(stack) - 1].values = Append(stack[Len(stack) - 1].values, v)
  BY <1>1, <1>3, ResumedShape
<1>5. Types'
  BY <1>1, <1>2, <1>4 DEF GenInv, Types
<1>6. Place'
  <2>1. InBody'
    BY <1>2, <1>3 DEF InBody, Current
  <2>2. stmt' # 0
    BY <1>2, <1>3 DEF InBody
  <2>3. stack' # <<>> => value' = Pending
    BY <1>2, <1>3, <1>4
  <2> QED BY <2>1, <2>2, <2>3 DEF Place
<1>7. Operable'
  <2>1. \A x \in DOMAIN symbolTable' : symbolTable'[x] \in Values(ops')
    BY <1>2 DEF GenInv, Operable
  <2>2. value' \in {Pending, Null} \cup Values(ops')
    BY <1>2, <1>3
  <2>3. ASSUME NEW d \in DOMAIN stack' PROVE Name(stack'[d].values, ops')
    <3>1. d \in 1..(Len(stack) - 1)
      BY <1>2, <1>3, <1>4
    <3>2. Name(stack[d].values, ops) /\ Name(stack[d].values, o) /\ stack[d].values \in Seq(Nat)
      <4>1. d \in DOMAIN stack /\ stack[d] \in Frame
        BY <3>1, <1>3
      <4> QED BY <4>1, NameMonotone DEF GenInv, Operable, Frame
    <3>3. CASE d < Len(stack) - 1
      BY <3>1, <3>2, <3>3, <1>2, <1>3, <1>4
    <3>4. CASE d = Len(stack) - 1
      <4>1. stack'[d].values = Append(stack[d].values, v)
        BY <3>1, <3>4, <1>2, <1>3, <1>4
      <4>2. Name(Append(stack[d].values, v), o)
        BY <3>2, <1>1, Appended DEF Name
      <4> QED BY <4>1, <4>2, <1>2
    <3> QED BY <3>1, <3>3, <3>4, <1>3
  <2> QED BY <2>1, <2>2, <2>3 DEF Operable
<1> QED BY <1>2, <1>5, <1>6, <1>7 DEF GenInv

LEMMA FailKeeps ==
  ASSUME GenInv, stack # <<>>, Fail
  PROVE  GenInv'
<1>1. stack' = <<>> /\ value' = Null /\ UNCHANGED <<source, fn, stmt, symbolTable, ops, functions, result>>
  BY DEF Fail
<1>2. Types'
  BY <1>1 DEF GenInv, Types, Null
<1>3. Place'
  <2>1. InBody'
    BY <1>1 DEF InBody, Current, GenInv, Place
  <2> QED BY <1>1, <2>1 DEF GenInv, Place
<1>4. Operable'
  BY <1>1 DEF GenInv, Operable
<1> QED BY <1>1, <1>2, <1>3, <1>4 DEF GenInv

LEMMA EmitKeeps ==
  ASSUME GenInv, stack # <<>>, NEW kind \in Kinds \ NoResult, NEW type \in Type, Emit(kind, type)
  PROVE  GenInv'
<1> DEFINE op == Operation(kind, Top.values, type)
           o == Append(ops, op)
<1>1. Top.values \in Seq(Nat) /\ Len(stack) \in DOMAIN stack /\ Top = stack[Len(stack)]
  BY TopShape DEF GenInv, Types
<1>2. op \in Op /\ op.kind \notin NoResult /\ op.ins = Top.values
  BY <1>1, OperationIn
<1>3. Name(op.ins, ops) /\ Dominated(ops) /\ ops \in Seq(Op)
  BY <1>1, <1>2 DEF GenInv, Operable, Types
<1> HIDE DEF op
<1>4. o \in Seq(Op) /\ Values(ops) \subseteq Values(o) /\ Len(ops) + 1 \in Values(o) /\ Dominated(o)
  BY <1>2, <1>3, Grown
<1>5. Yield(Len(ops) + 1, o)
  BY DEF Emit, op
<1> HIDE DEF o
<1> QED BY <1>4, <1>5, YieldKeeps

LEMMA StepToKeeps ==
  ASSUME GenInv, InBody, stack = <<>>, NEW o \in Seq(Op), NEW table, Values(ops) \subseteq Values(o),
         Dominated(o), \A x \in DOMAIN table : table[x] \in Values(o), StepTo(table, o)
  PROVE  GenInv'
<1>1. /\ symbolTable' = table /\ ops' = o /\ stmt' = stmt + 1 /\ value' = Pending
      /\ UNCHANGED <<source, fn, stack, functions, result>>
  BY DEF StepTo
<1>2. stmt \in Nat /\ fn <= Len(source)
  BY StatementShape DEF GenInv, Types
<1>3. Types'
  BY <1>1, <1>2 DEF GenInv, Types
<1>4. Place'
  BY <1>1, <1>2 DEF Place
<1>5. Operable'
  BY <1>1 DEF Operable
<1> QED BY <1>1, <1>3, <1>4, <1>5 DEF GenInv

\* The next function, with functions behind those that are there.
LEMMA LeaveKeeps ==
  ASSUME GenInv, fn <= Len(source), stack = <<>>, NextFunction, value' = Pending,
         UNCHANGED <<source, stack, result>>, functions' \in Seq(Function),
         \A k \in DOMAIN functions' : Dominated(functions'[k].ops)
  PROVE  GenInv'
<1>1. fn' = fn + 1 /\ stmt' = 0 /\ symbolTable' = <<>> /\ ops' = <<>>
  BY DEF NextFunction
<1>2. Types'
  BY <1>1 DEF GenInv, Types
<1>3. Place'
  BY <1>1 DEF Place
<1>4. Operable'
  BY <1>1 DEF Operable
<1>5. Dominated(ops')
  BY <1>1 DEF Dominated
<1> QED BY <1>2, <1>3, <1>4, <1>5 DEF GenInv

LEMMA OneMore ==
  ASSUME GenInv, NEW o \in Seq(Op), Dominated(o), NEW name \in STRING, NEW b \in BOOLEAN,
         functions' = Append(functions, FuncOp(name, o, b))
  PROVE  functions' \in Seq(Function) /\ \A k \in DOMAIN functions' : Dominated(functions'[k].ops)
<1>1. FuncOp(name, o, b) \in Function /\ FuncOp(name, o, b).ops = o
  BY DEF FuncOp, Function
<1>2. functions \in Seq(Function) /\ \A k \in DOMAIN functions : Dominated(functions[k].ops)
  BY DEF GenInv, Types
<1> QED BY <1>1, <1>2, Appended

\* A finished function: o with a return behind it, if there is none.
Closed(o) == IF o # <<>> /\ o[Len(o)].kind = "return" THEN o
             ELSE Append(o, Operation("return", <<>>, Unranked))

LEMMA ClosedShape ==
  ASSUME NEW o \in Seq(Op)
  PROVE  /\ Closed(o) \in Seq(Op) /\ (Dominated(o) => Dominated(Closed(o)))
         /\ Closed(o) # <<>> /\ Closed(o)[Len(Closed(o))].kind = "return"
<1> DEFINE op == Operation("return", <<>>, Unranked)
<1>1. op \in Op /\ op.ins = <<>> /\ op.kind = "return"
  <2>1. "return" \in Kinds /\ Unranked \in Type
    BY TypesIn DEF Kinds, NoResult
  <2>2. <<>> \in Seq(Nat)
    OBVIOUS
  <2> QED BY <2>1, <2>2 DEF Operation, Op
<1>2. Name(op.ins, o)
  BY <1>1 DEF Name
<1> HIDE DEF op
<1>3. Append(o, op) \in Seq(Op) /\ (Dominated(o) => Dominated(Append(o, op)))
  BY <1>1, <1>2, Grown
<1>4. Append(o, op) # <<>> /\ Append(o, op)[Len(Append(o, op))] = op
  BY <1>1, Appended
<1>5. Closed(o) = IF o # <<>> /\ o[Len(o)].kind = "return" THEN o ELSE Append(o, op)
  BY DEF Closed, op
<1> QED BY <1>1, <1>3, <1>4, <1>5

LEMMA FinishKeeps ==
  ASSUME GenInv, fn <= Len(source), stack = <<>>, NEW o \in Seq(Op), Dominated(o), Finish(o)
  PROVE  GenInv'
<1> DEFINE c == Closed(o)
           b == c[Len(c)].ins # <<>>
<1>1. /\ functions' = Append(functions, FuncOp(Current.name, c, b))
      /\ NextFunction /\ value' = Pending /\ UNCHANGED <<source, stack, result>>
  BY DEF Finish, Closed
<1>2. c \in Seq(Op) /\ Dominated(c) /\ Current.name \in STRING /\ b \in BOOLEAN
  BY ClosedShape, CurrentShape DEF GenInv
<1> HIDE DEF c, b
<1>3. functions' \in Seq(Function) /\ \A k \in DOMAIN functions' : Dominated(functions'[k].ops)
  BY <1>1, <1>2, OneMore
<1> QED BY <1>1, <1>3, LeaveKeeps

LEMMA EraseKeeps ==
  ASSUME GenInv, fn <= Len(source), stack = <<>>, Erase
  PROVE  GenInv'
<1>1. functions' = functions /\ NextFunction /\ value' = Pending /\ UNCHANGED <<source, stack, result>>
  BY DEF Erase
<1>2. functions' \in Seq(Function) /\ \A k \in DOMAIN functions' : Dominated(functions'[k].ops)
  BY <1>1 DEF GenInv, Types
<1> QED BY <1>1, <1>2, LeaveKeeps
-----------------------------------------------------------------------------
(* Types and dominance.                                                    *)
LEMMA GenInit == Init => GenInv
<1>1. SUFFICES ASSUME Init PROVE GenInv
  OBVIOUS
<1>2. source \in Seq(FunctionAST)
  BY <1>1, SourceNodes DEF Init
<1>3. Types
  BY <1>1, <1>2 DEF Init, Types, Pending
<1>4. Place /\ Operable
  BY <1>1 DEF Init, Place, Operable
<1>5. Dominated(ops) /\ \A k \in DOMAIN functions : Dominated(functions[k].ops)
  BY <1>1 DEF Init, Dominated
<1> QED BY <1>3, <1>4, <1>5 DEF GenInv

\* The block arguments of a function, and the table that finds them.
LEMMA ArgumentsShape ==
  ASSUME NEW params \in Seq(STRING)
  PROVE  /\ Arguments(params) \in Seq(Op) /\ Len(Arguments(params)) = Len(params)
         /\ \A i \in DOMAIN params : Arguments(params)[i] = Operation("arg", <<>>, Unranked)
         /\ Values(Arguments(params)) = DOMAIN params /\ Dominated(Arguments(params))
<1> DEFINE op == Operation("arg", <<>>, Unranked)
           o == Arguments(params)
<1>1. op \in Op /\ op.ins = <<>> /\ op.kind = "arg"
  <2>1. "arg" \in Kinds /\ Unranked \in Type
    BY TypesIn DEF Kinds, NoResult
  <2>2. <<>> \in Seq(Nat)
    OBVIOUS
  <2> QED BY <2>1, <2>2 DEF Operation, Op
<1>2. o = [k \in DOMAIN params |-> op]
  BY DEF Arguments
<1> HIDE DEF op, o
<1>3. o \in [1..Len(params) -> Op] /\ Len(params) \in Nat /\ DOMAIN params = 1..Len(params)
  BY <1>1, <1>2
<1>4. o \in Seq(Op) /\ Len(o) = Len(params) /\ DOMAIN o = DOMAIN params
  BY <1>3
<1>5. \A i \in DOMAIN params : o[i] = op
  BY <1>2
<1>6. Values(o) = DOMAIN params
  BY <1>1, <1>4, <1>5 DEF Values, NoResult
<1>7. Dominated(o)
  BY <1>1, <1>4, <1>5 DEF Dominated
<1> QED BY <1>4, <1>5, <1>6, <1>7 DEF o, op

LEMMA BeginFunctionKeeps == GenInv /\ BeginFunction => GenInv'
<1>1. SUFFICES ASSUME GenInv, BeginFunction PROVE GenInv'
  OBVIOUS
<1> DEFINE params == Current.params
<1>2. /\ stmt = 0 /\ fn <= Len(source) /\ result = "none"
      /\ ops' = Arguments(params) /\ stmt' = 1
      /\ UNCHANGED <<source, fn, stack, value, functions, result>>
  BY <1>1 DEF BeginFunction
<1>3. params \in Seq(STRING)
  BY <1>1, <1>2, CurrentShape DEF GenInv
<1>4. symbolTable = <<>> /\ stack = <<>> /\ value = Pending
  BY <1>1, <1>2 DEF GenInv, Place, InBody
<1>5. \A x \in DOMAIN symbolTable' : symbolTable'[x] \in DOMAIN params
  <2>1. symbolTable' = [x \in Elements(params) |-> CHOOSE k \in DOMAIN params : params[k] = x]
    BY <1>1, <1>4 DEF BeginFunction
  <2>2. \A x \in Elements(params) : (CHOOSE k \in DOMAIN params : params[k] = x) \in DOMAIN params
    BY DEF Elements
  <2> HIDE DEF params
  <2> QED BY <2>1, <2>2
<1> HIDE DEF params
<1>6. ops' \in Seq(Op) /\ Values(ops') = DOMAIN params /\ Dominated(ops')
  BY <1>2, <1>3, ArgumentsShape
<1>7. Types'
  BY <1>1, <1>2, <1>6 DEF GenInv, Types
<1>8. Place'
  BY <1>2, <1>4 DEF Place
<1>9. Operable'
  BY <1>2, <1>4, <1>5, <1>6 DEF Operable
<1> QED BY <1>1, <1>2, <1>6, <1>7, <1>8, <1>9 DEF GenInv

LEMMA RepeatedKeeps == GenInv /\ RepeatedParameter => GenInv'
<1>1. SUFFICES ASSUME GenInv, RepeatedParameter PROVE GenInv'
  OBVIOUS
<1>2. /\ stmt = 0 /\ fn <= Len(source) /\ functions' = Append(functions, FuncOp(Current.name, <<>>, FALSE))
      /\ NextFunction /\ UNCHANGED <<source, stack, value, result>>
  BY <1>1 DEF RepeatedParameter
<1>3. stack = <<>> /\ value = Pending /\ Current.name \in STRING
  BY <1>1, <1>2, CurrentShape DEF GenInv, Place, InBody
<1>4. <<>> \in Seq(Op) /\ Dominated(<<>>) /\ FALSE \in BOOLEAN
  BY DEF Dominated
<1>5. functions' \in Seq(Function) /\ \A k \in DOMAIN functions' : Dominated(functions'[k].ops)
  BY <1>1, <1>2, <1>3, <1>4, OneMore
<1> QED BY <1>1, <1>2, <1>3, <1>5, LeaveKeeps

LEMMA BeginKeeps == GenInv /\ Begin => GenInv'
<1>1. SUFFICES ASSUME GenInv, Begin PROVE GenInv'
  OBVIOUS
<1> DEFINE f == Activation(Subject(Statement))
<1>2. /\ InBody /\ stack' = <<f>> /\ value = Pending
      /\ UNCHANGED <<source, fn, stmt, symbolTable, value, ops, functions, result>>
  BY <1>1 DEF Begin
<1>3. f \in Frame /\ f.values = <<>>
  <2>1. Subject(Statement) \in Node
    BY <1>1, <1>2, StatementShape DEF GenInv
  <2> QED BY <2>1 DEF Activation, Frame
<1> HIDE DEF f
<1>4. Types'
  BY <1>1, <1>2, <1>3 DEF GenInv, Types
<1>5. Place'
  BY <1>1, <1>2 DEF GenInv, Place, InBody, Current
<1>6. Operable'
  BY <1>1, <1>2, <1>3 DEF GenInv, Operable, Name
<1> QED BY <1>1, <1>2, <1>4, <1>5, <1>6 DEF GenInv

LEMMA GenOperandKeeps == GenInv /\ GenOperand => GenInv'
<1>1. SUFFICES ASSUME GenInv, GenOperand PROVE GenInv'
  OBVIOUS
<1> DEFINE f == Activation(Operand[Len(Top.values) + 1])
<1>2. /\ stack # <<>> /\ Len(Top.values) < Len(Operand) /\ stack' = Append(stack, f)
      /\ UNCHANGED <<source, fn, stmt, symbolTable, value, ops, functions, result>>
  BY <1>1 DEF GenOperand
<1>3. stack \in Seq(Frame) /\ Top.values \in Seq(Nat) /\ Operand \in Seq(Node)
  BY <1>1, <1>2, TopShape DEF GenInv, Types
<1>4. f \in Frame /\ f.values = <<>>
  <2>1. Operand[Len(Top.values) + 1] \in Node
    BY <1>2, <1>3
  <2> QED BY <2>1 DEF Activation, Frame
<1> HIDE DEF f
<1>5. /\ stack' \in Seq(Frame) /\ DOMAIN stack' = 1..(Len(stack) + 1) /\ DOMAIN stack = 1..Len(stack)
      /\ \A d \in 1..Len(stack) : stack'[d] = stack[d]
      /\ stack'[Len(stack) + 1] = f /\ Len(stack) \in Nat
  BY <1>2, <1>3, <1>4, Appended
<1>6. Types'
  BY <1>1, <1>2, <1>5 DEF GenInv, Types
<1>7. Place'
  BY <1>1, <1>2 DEF GenInv, Place, InBody, Current
<1>8. Operable'
  <2>1. \A d \in DOMAIN stack' : Name(stack'[d].values, ops)
    <3>1. \A d \in 1..Len(stack) : Name(stack[d].values, ops)
      BY <1>1, <1>5 DEF GenInv, Operable
    <3>2. Name(f.values, ops)
      BY <1>4 DEF Name
    <3> QED BY <1>5, <3>1, <3>2
  <2> QED BY <1>1, <1>2, <2>1 DEF GenInv, Operable
<1> QED BY <1>1, <1>2, <1>6, <1>7, <1>8 DEF GenInv

LEMMA ExpressionKeeps ==
  ASSUME GenInv,
         GenNumber \/ GenLiteral \/ GenVariable \/ GenBinary \/ GenCall \/ Unhandled
  PROVE  GenInv'
<1>1. stack # <<>>
  BY DEF GenNumber, GenLiteral, GenVariable, GenBinary, GenCall, Unhandled, Generating
<1>2. Top.expr \in Node
  BY <1>1, TopShape DEF GenInv, Types
<1>3. {"constant", "add", "mul", "matmul", "transpose", "generic_call"} \subseteq Kinds \ NoResult
  BY DEF Kinds, Inferable, NoResult
<1>4. CASE GenNumber
  <2>1. Tensor(<<>>) \in Type /\ Emit("constant", Tensor(<<>>))
    BY <1>4, TypesIn DEF GenNumber
  <2> QED BY <2>1, <1>1, <1>3, EmitKeeps
<1>5. CASE GenLiteral
  <2>1. Top.expr.dims \in Seq(Nat)
    BY <1>2, <1>5, SourceNodes DEF GenLiteral, Generating
  <2>2. Tensor(Top.expr.dims) \in Type /\ Emit("constant", Tensor(Top.expr.dims))
    BY <2>1, <1>5, TypesIn DEF GenLiteral
  <2> QED BY <2>2, <1>1, <1>3, EmitKeeps
<1>6. CASE GenVariable
  <2>1. CASE Top.expr.name \in DOMAIN symbolTable
    <3>1. Yield(symbolTable[Top.expr.name], ops)
      BY <1>6, <2>1 DEF GenVariable
    <3>2. symbolTable[Top.expr.name] \in Values(ops) /\ ops \in Seq(Op) /\ Dominated(ops)
      BY <2>1 DEF GenInv, Operable, Types
    <3> QED BY <3>1, <3>2, <1>1, YieldKeeps
  <2>2. CASE Top.expr.name \notin DOMAIN symbolTable
    BY <1>1, <1>6, <2>2, FailKeeps DEF GenVariable
  <2> QED BY <2>1, <2>2
<1>7. CASE GenBinary
  <2>1. CASE Top.expr.op \in DOMAIN BinaryOps
    <3>1. Emit(BinaryOps[Top.expr.op], Unranked)
      BY <1>7, <2>1 DEF GenBinary
    <3>2. BinaryOps[Top.expr.op] \in {"add", "mul", "matmul"}
      BY <2>1 DEF BinaryOps
    <3> QED BY <3>1, <3>2, <1>1, <1>3, TypesIn, EmitKeeps
  <2>2. CASE Top.expr.op \notin DOMAIN BinaryOps
    BY <1>1, <1>7, <2>2, FailKeeps DEF GenBinary
  <2> QED BY <2>1, <2>2
<1>8. CASE GenCall
  <2>1. Emit("generic_call", Unranked) \/ Emit("transpose", Unranked) \/ Fail
    BY <1>8 DEF GenCall
  <2> QED BY <2>1, <1>1, <1>3, TypesIn, EmitKeeps, FailKeeps
<1>9. CASE Unhandled
  BY <1>1, <1>9, FailKeeps DEF Unhandled
<1> QED BY <1>4, <1>5, <1>6, <1>7, <1>8, <1>9

\* An operation of a statement: one operand, the value of its expression.
LEMMA StatementOp ==
  ASSUME GenInv, value \in Values(ops), NEW kind \in Kinds, NEW type \in Type
  PROVE  LET o == Append(ops, Operation(kind, <<value>>, type)) IN
         /\ o \in Seq(Op) /\ Values(ops) \subseteq Values(o) /\ Dominated(o)
         /\ kind \notin NoResult => Len(o) \in Values(o)
<1> DEFINE op == Operation(kind, <<value>>, type)
           o == Append(ops, op)
<1>1. ops \in Seq(Op) /\ Dominated(ops) /\ value \in Nat
  BY ValuesIn DEF GenInv, Types
<1>2. <<value>> \in Seq(Nat)
  BY <1>1
<1>3. op \in Op /\ op.kind = kind /\ op.ins = <<value>>
  BY <1>2 DEF Operation, Op
<1>4. Name(op.ins, ops)
  BY <1>3 DEF Name
<1> HIDE DEF op
<1>5. o \in Seq(Op) /\ Values(ops) \subseteq Values(o) /\ Dominated(o)
      /\ (kind \notin NoResult => Len(ops) + 1 \in Values(o)) /\ Len(o) = Len(ops) + 1
  BY <1>1, <1>3, <1>4, Grown, Appended
<1> QED BY <1>5 DEF op

LEMMA VarDeclKeeps == GenInv /\ VarDecl => GenInv'
<1>1. SUFFICES ASSUME GenInv, VarDecl PROVE GenInv'
  OBVIOUS
<1>2. InBody /\ stack = <<>> /\ value # Pending /\ Statement.node = "VarDecl"
  BY <1>1 DEF VarDecl, Returned
<1>3. fn <= Len(source) /\ Statement.shape \in Seq(Nat)
  BY <1>1, <1>2, StatementShape, SourceNodes DEF GenInv
<1> DEFINE reshaped == IF Statement.shape = <<>> THEN ops
                       ELSE Append(ops, Operation("reshape", <<value>>, GetType(Statement.shape)))
           declared == IF Statement.shape = <<>> THEN value ELSE Len(reshaped)
           table == Declare(symbolTable, Statement.name, declared)
<1>4. CASE value # Null /\ Statement.name \notin DOMAIN symbolTable
  <2>1. StepTo(table, reshaped)
    BY <1>1, <1>4 DEF VarDecl
  <2>2. value \in Values(ops)
    BY <1>1, <1>2, <1>4 DEF GenInv, Operable
  <2>3. /\ reshaped \in Seq(Op) /\ Values(ops) \subseteq Values(reshaped) /\ Dominated(reshaped)
        /\ declared \in Values(reshaped)
    <3>1. "reshape" \in Kinds /\ "reshape" \notin NoResult /\ GetType(Statement.shape) \in Type
      BY <1>3, TypesIn DEF Kinds, NoResult
    <3>2. CASE Statement.shape = <<>>
      BY <1>1, <2>2, <3>2 DEF GenInv, Types
    <3>3. CASE Statement.shape # <<>>
      BY <1>1, <2>2, <3>1, <3>3, StatementOp
    <3> QED BY <3>2, <3>3
  <2> HIDE DEF reshaped, declared
  <2>4. \A x \in DOMAIN table : table[x] \in Values(reshaped)
    BY <1>1, <2>3 DEF Declare, GenInv, Operable
  <2> HIDE DEF table
  <2> QED BY <1>1, <1>2, <2>1, <2>3, <2>4, StepToKeeps
<1>5. CASE ~(value # Null /\ Statement.name \notin DOMAIN symbolTable)
  BY <1>1, <1>2, <1>3, <1>5, EraseKeeps DEF VarDecl
<1> QED BY <1>4, <1>5

LEMMA ReturnKeeps == GenInv /\ Return => GenInv'
<1>1. SUFFICES ASSUME GenInv, Return PROVE GenInv'
  OBVIOUS
<1>2. InBody /\ stack = <<>> /\ fn <= Len(source)
  BY <1>1, StatementShape DEF Return, GenInv
<1>3. "return" \in Kinds /\ Unranked \in Type
  BY TypesIn DEF Kinds, NoResult
<1>4. CASE Finish(ReturnOf(<<>>))
  <2> DEFINE op == Operation("return", <<>>, Unranked)
  <2>1. op \in Op /\ op.ins = <<>> /\ ops \in Seq(Op) /\ Dominated(ops)
    <3>1. <<>> \in Seq(Nat)
      OBVIOUS
    <3> QED BY <1>1, <1>3, <3>1 DEF Operation, Op, GenInv, Types
  <2>2. Name(op.ins, ops)
    BY <2>1 DEF Name
  <2> HIDE DEF op
  <2>3. Append(ops, op) \in Seq(Op) /\ Dominated(Append(ops, op))
    BY <2>1, <2>2, Grown
  <2>4. Finish(Append(ops, op))
    BY <1>4 DEF ReturnOf, op
  <2> QED BY <1>1, <1>2, <2>3, <2>4, FinishKeeps
<1>5. CASE value > Null /\ Finish(ReturnOf(<<value>>))
  <2>1. value \in Values(ops)
    BY <1>1, <1>5 DEF GenInv, Operable, Pending, Null
  <2>2. LET o == Append(ops, Operation("return", <<value>>, Unranked)) IN o \in Seq(Op) /\ Dominated(o)
    BY <1>1, <1>3, <2>1, StatementOp
  <2> QED BY <1>1, <1>2, <1>5, <2>2, FinishKeeps DEF ReturnOf
<1>6. CASE Erase
  BY <1>1, <1>2, <1>6, EraseKeeps
<1> QED BY <1>1, <1>4, <1>5, <1>6 DEF Return

LEMMA PrintKeeps == GenInv /\ PrintStatement => GenInv'
<1>1. SUFFICES ASSUME GenInv, PrintStatement PROVE GenInv'
  OBVIOUS
<1>2. InBody /\ stack = <<>> /\ value # Pending /\ fn <= Len(source)
  BY <1>1, StatementShape DEF PrintStatement, Returned, GenInv
<1>3. ops \in Seq(Op) /\ Dominated(ops) /\ \A x \in DOMAIN symbolTable : symbolTable[x] \in Values(ops)
  BY <1>1 DEF GenInv, Types, Operable
<1>4. CASE value # Null
  <2> DEFINE o == Append(ops, Operation("print", <<value>>, Unranked))
  <2>1. value \in Values(ops) /\ StepTo(symbolTable, o)
    BY <1>1, <1>2, <1>4 DEF GenInv, Operable, PrintStatement
  <2>2. "print" \in Kinds /\ Unranked \in Type
    BY TypesIn DEF Kinds, NoResult
  <2>3. o \in Seq(Op) /\ Values(ops) \subseteq Values(o) /\ Dominated(o)
    BY <1>1, <2>1, <2>2, StatementOp
  <2> HIDE DEF o
  <2> QED BY <1>1, <1>2, <1>3, <2>1, <2>3, StepToKeeps
<1>5. CASE value = Null
  BY <1>1, <1>2, <1>3, <1>5, FinishKeeps DEF PrintStatement
<1> QED BY <1>4, <1>5

LEMMA StatementKeeps == GenInv /\ (Expression \/ EndBody) => GenInv'
<1>1. SUFFICES ASSUME GenInv, Expression \/ EndBody PROVE GenInv'
  OBVIOUS
<1>2. stack = <<>> /\ fn <= Len(source)
  BY <1>1 DEF Expression, EndBody, Returned, InBody, GenInv, Place, Types
<1>3. ops \in Seq(Op) /\ Dominated(ops) /\ \A x \in DOMAIN symbolTable : symbolTable[x] \in Values(ops)
  BY <1>1 DEF GenInv, Types, Operable
<1>4. CASE Expression
  <2>1. InBody /\ (StepTo(symbolTable, ops) \/ Erase)
    BY <1>4 DEF Expression, Returned
  <2> QED BY <1>1, <1>2, <1>3, <2>1, StepToKeeps, EraseKeeps
<1>5. CASE EndBody
  BY <1>1, <1>2, <1>3, <1>5, FinishKeeps DEF EndBody
<1> QED BY <1>1, <1>4, <1>5

LEMMA GenNext == GenInv /\ [Next]_vars => GenInv'
<1>1. SUFFICES ASSUME GenInv, [Next]_vars PROVE GenInv'
  OBVIOUS
<1>2. CASE VerifyModule
  <2>1. /\ result' \in {"module", "nullptr"} /\ result = "none" /\ stmt = 0
        /\ UNCHANGED <<source, fn, stmt, symbolTable, stack, value, ops, functions>>
    BY <1>2 DEF VerifyModule
  <2>2. stack = <<>> /\ value = Pending
    BY <1>1, <2>1 DEF GenInv, Place, InBody
  <2> QED BY <1>1, <2>1, <2>2 DEF GenInv, Types, Place, Operable
<1>3. CASE UNCHANGED vars
  BY <1>1, <1>3 DEF GenInv, Types, Place, Operable, InBody, Current, vars
<1> QED
  BY <1>1, <1>2, <1>3, BeginFunctionKeeps, RepeatedKeeps, BeginKeeps, GenOperandKeeps, ExpressionKeeps,
     VarDeclKeeps, ReturnKeeps, PrintKeeps, StatementKeeps DEF Next

\* The types, and dominance: an operation uses values of its own function that
\* stand before it, in whatever order MLIRGen.cpp goes through a source.
LEMMA GenHolds == GenInv => UsesDominated
<1>1. SUFFICES ASSUME GenInv PROVE UsesDominated
  OBVIOUS
<1>2. TypeOK
  <2>1. Values(ops) \subseteq DOMAIN ops
    BY DEF Values
  <2>2. \A d \in DOMAIN stack : Elements(stack[d].values) \subseteq DOMAIN ops
    BY <1>1, <2>1 DEF GenInv, Operable, Name, Elements
  <2> QED BY <1>1, <2>1, <2>2 DEF GenInv, Types, Operable, TypeOK
<1>3. \A o \in {ops} \cup {functions[k].ops : k \in DOMAIN functions} : Dominated(o)
  BY <1>1 DEF GenInv
<1> QED BY <1>2, <1>3 DEF UsesDominated, Dominated, Values

\* UsesDominated, for every set of sources.
THEOREM OperandsDominate == Spec => []UsesDominated
<1>1. Spec => []GenInv
  BY GenInit, GenNext, PTL DEF Spec
<1> QED BY <1>1, GenHolds, PTL
-----------------------------------------------------------------------------
(***************************************************************************)
(* Why a function is missing.  While a body is generated, every statement  *)
(* so far was sound, no return is behind it, and the symbol table holds    *)
(* just what is in sight; every operand that has been generated is sound;  *)
(* and a value that a statement gets says whether its expression is.       *)
(***************************************************************************)
ScopeOf(f, k, names) ==
  /\ k <= Len(f.body) + 1 /\ names = InSight(f, k)
  /\ \A j \in 1..(k - 1) : StatementSound(f, j) /\ f.body[j].node # "Return"

BeforeReturn == stmt > 0 => ScopeOf(Current, stmt, DOMAIN symbolTable)

\* The operand that the activation f is at.
OperandAt(f) == Children(f.expr)[Len(f.values) + 1]
Called(s) == \A d \in 1..(Len(s) - 1) : Len(s[d].values) < Len(Children(s[d].expr)) /\ s[d + 1].expr = OperandAt(s[d])
SoundSoFar(f, names) == /\ Len(f.values) <= Len(Children(f.expr))
                        /\ \A k \in 1..Len(f.values) : Sound(Children(f.expr)[k], names)

\* An activation is of a node of the tree of the statement.
InTree(s, root) == /\ s[1].expr = root
                   /\ \A d \in 1..Len(s) : Within[s[d].expr] \subseteq Within[root]

Waiting == stack # <<>> =>
  /\ InTree(stack, Subject(Statement)) /\ Called(stack)
  /\ \A d \in 1..Len(stack) : SoundSoFar(stack[d], DOMAIN symbolTable)

HasExpression == ~(Statement.node = "Return" /\ Statement.expr = None)
Judged ==
  /\ stack # <<>> \/ value # Pending => HasExpression
  /\ value # Pending => (value # Null <=> Sound(Subject(Statement), DOMAIN symbolTable))

\* What has become of the function f of the source, in the module fs.
IsIn(f, fs) == \E j \in DOMAIN fs : fs[j].name = f.name
Explained(f, fs) ==
  \/ \E j \in DOMAIN fs : fs[j].name = f.name /\ fs[j].ops = <<>>
  \/ ~IsIn(f, fs) /\ ~FunctionSound(f)
  \/ IsIn(f, fs) /\ (FunctionSound(f) \/ f.body[FirstUnsound(f)].node = "Print")

Past ==
  /\ \A j \in DOMAIN functions : \E k \in 1..(fn - 1) : functions[j].name = source[k].name
  /\ DistinctNames(source) => \A k \in 1..(fn - 1) : Explained(source[k], functions)

Verified ==
  result = "module" => /\ fn = Len(source) + 1
                       /\ \A k \in DOMAIN functions : functions[k].ops # <<>>

LossInv == GenInv /\ BeforeReturn /\ Waiting /\ Judged /\ Past /\ Verified
-----------------------------------------------------------------------------
(* Soundness of trees and of bodies.                                       *)
LEMMA SoundUp ==
  ASSUME NEW n \in Node, NEW names, Fits(n, names),
         \A k \in 1..Len(Children(n)) : Sound(Children(n)[k], names)
  PROVE  Sound(n, names)
<1>1. SUFFICES ASSUME NEW d \in Within[n] PROVE Fits(d, names)
  BY DEF Sound
<1>2. CASE d = n
  BY <1>2
<1>3. CASE \E k \in DOMAIN Children(n) : d \in Within[Children(n)[k]]
  <2>1. PICK k \in DOMAIN Children(n) : d \in Within[Children(n)[k]]
    BY <1>3
  <2>2. k \in 1..Len(Children(n))
    BY <2>1, SourceNodes
  <2> QED BY <2>1, <2>2 DEF Sound
<1> QED BY <1>1, <1>2, <1>3, SourceNodes

LEMMA WithinChild ==
  ASSUME NEW n \in Node, NEW k \in 1..Len(Children(n))
  PROVE  Children(n)[k] \in Node /\ Within[Children(n)[k]] \subseteq Within[n] /\ n \in Within[n]
<1>1. Children(n) \in Seq(Node) /\ k \in DOMAIN Children(n)
  BY SourceNodes
<1> QED BY <1>1, SourceNodes

LEMMA UnfitIsUnsound ==
  ASSUME NEW n \in Node, NEW root \in Node, NEW names, Within[n] \subseteq Within[root], ~Fits(n, names)
  PROVE  ~Sound(root, names)
<1>1. n \in Within[n]
  BY SourceNodes
<1> QED BY <1>1 DEF Sound

\* A statement is sound if its expression is and its name is new.
LEMMA StatementSoundness ==
  ASSUME NEW f, NEW k
  PROVE  LET s == f.body[k] IN
         StatementSound(f, k) <=>
           /\ s.node = "VarDecl" => s.name \notin InSight(f, k)
           /\ ~(s.node = "Return" /\ s.expr = None) => Sound(Subject(s), InSight(f, k))
BY DEF StatementSound, Subject

LEMMA InSightGrows ==
  ASSUME NEW f, NEW k \in Nat \ {0}
  PROVE  InSight(f, k + 1) = InSight(f, k) \cup Declares(f, k)
<1>1. 1..(k + 1 - 1) = 1..(k - 1) \cup {k}
  OBVIOUS
<1>2. \A S : UNION {Declares(f, j) : j \in S \cup {k}} = (UNION {Declares(f, j) : j \in S}) \cup Declares(f, k)
  OBVIOUS
<1> QED BY <1>1, <1>2 DEF InSight

LEMMA FirstIs ==
  ASSUME NEW f, f.body \in Seq(Node), NEW k \in Reached(f), ~StatementSound(f, k),
         \A j \in 1..(k - 1) : StatementSound(f, j)
  PROVE  FirstUnsound(f) = k /\ ~FunctionSound(f)
<1> DEFINE P(i) == ~StatementSound(f, i) /\ \A j \in 1..(i - 1) : StatementSound(f, j)
<1>1. Reached(f) \subseteq Nat \ {0}
  BY DEF Reached
<1>2. \A i \in Reached(f) : P(i) => i = k
  <2>1. SUFFICES ASSUME NEW i \in Reached(f), P(i), i # k PROVE FALSE
    OBVIOUS
  <2>2. CASE i < k
    BY <1>1, <2>1, <2>2
  <2>3. CASE k < i
    BY <1>1, <2>1, <2>3
  <2> QED BY <1>1, <2>1, <2>2, <2>3
<1>3. FirstUnsound(f) = CHOOSE i \in Reached(f) : P(i)
  BY DEF FirstUnsound
<1>4. k \in Reached(f) /\ P(k)
  OBVIOUS
<1> HIDE DEF P
<1> QED BY <1>2, <1>3, <1>4 DEF FunctionSound
-----------------------------------------------------------------------------
(* Soundness of what is being generated.                                   *)
LEMMA SameStatement ==
  ASSUME BeforeReturn, Past, Verified, UNCHANGED <<source, fn, stmt, symbolTable, functions, result>>
  PROVE  BeforeReturn' /\ Past' /\ Verified' /\ Statement' = Statement
BY DEF BeforeReturn, Past, Verified, Statement, Current

LEMMA TopIsSound ==
  ASSUME LossInv, stack # <<>>, Len(Top.values) = Len(Operand), Fits(Top.expr, DOMAIN symbolTable)
  PROVE  Sound(Top.expr, DOMAIN symbolTable)
<1>1. Len(stack) \in 1..Len(stack) /\ Top = stack[Len(stack)] /\ Top.expr \in Node
  BY TopShape DEF LossInv, GenInv, Types
<1>2. SoundSoFar(Top, DOMAIN symbolTable)
  BY <1>1 DEF LossInv, Waiting
<1>3. \A k \in 1..Len(Children(Top.expr)) : Sound(Children(Top.expr)[k], DOMAIN symbolTable)
  BY <1>2 DEF SoundSoFar, Operand
<1> QED BY <1>1, <1>3, SoundUp

LEMMA YieldSound ==
  ASSUME LossInv, stack # <<>>, NEW o, NEW v \in Nat \ {0}, Yield(v, o),
         Sound(Top.expr, DOMAIN symbolTable)
  PROVE  Waiting' /\ Judged'
<1> DEFINE n == Len(stack)
           names == DOMAIN symbolTable
           root == Subject(Statement)
<1>1. /\ stack' = Resumed(v) /\ value' = (IF n = 1 THEN v ELSE value)
      /\ symbolTable' = symbolTable /\ Statement' = Statement
  BY DEF Yield, Statement, Current
<1>2. /\ n \in Nat \ {0} /\ Top = stack[n] /\ stack \in Seq(Frame) /\ v # Null /\ v # Pending
      /\ \A d \in 1..n : stack[d] \in Frame
  BY TopShape DEF LossInv, GenInv, Types, Null, Pending
<1>3. /\ Resumed(v) \in Seq(Frame) /\ Len(Resumed(v)) = n - 1
      /\ \A d \in 1..(n - 1) : Resumed(v)[d].expr = stack[d].expr
      /\ \A d \in 1..(n - 2) : Resumed(v)[d] = stack[d]
      /\ n > 1 => Resumed(v)[n - 1].values = Append(stack[n - 1].values, v)
  BY <1>2, ResumedShape
<1>4. /\ InTree(stack, root) /\ Called(stack)
      /\ \A d \in 1..n : SoundSoFar(stack[d], names)
      /\ value = Pending /\ HasExpression
  BY DEF LossInv, Waiting, GenInv, Place, Judged
<1>5. HasExpression'
  BY <1>1, <1>4 DEF HasExpression
<1>6. CASE n = 1
  <2>1. stack' = <<>> /\ value' = v
    BY <1>1, <1>3, <1>6
  <2>2. Top.expr = root
    BY <1>2, <1>4, <1>6 DEF InTree
  <2> QED BY <2>1, <2>2, <1>1, <1>2, <1>5 DEF Waiting, Judged
<1>7. CASE n > 1
  <2> DEFINE s == Resumed(v)
  <2>1. s # <<>>
    BY <1>2, <1>3, <1>7
  <2> HIDE DEF s
  <2>2. InTree(s, root)
    <3>1. s[1].expr = root
      BY <1>2, <1>3, <1>4, <1>7 DEF InTree, s
    <3>2. ASSUME NEW d \in 1..Len(s) PROVE Within[s[d].expr] \subseteq Within[root]
      BY <1>2, <1>3, <1>4, <3>2 DEF InTree, s
    <3> QED BY <3>1, <3>2 DEF InTree
  <2>3. Called(s)
    <3>1. SUFFICES ASSUME NEW d \in 1..(Len(s) - 1)
                   PROVE  Len(s[d].values) < Len(Children(s[d].expr)) /\ s[d + 1].expr = OperandAt(s[d])
      BY DEF Called
    <3>2. d \in 1..(n - 2) /\ d + 1 \in 1..(n - 1) /\ d \in 1..(n - 1)
      BY <1>2, <1>3, <3>1 DEF s
    <3>3. s[d] = stack[d] /\ s[d + 1].expr = stack[d + 1].expr
      BY <1>3, <3>2 DEF s
    <3>4. Len(stack[d].values) < Len(Children(stack[d].expr)) /\ stack[d + 1].expr = OperandAt(stack[d])
      BY <1>4, <3>2 DEF Called
    <3> QED BY <3>3, <3>4
  <2>4. ASSUME NEW d \in 1..Len(s) PROVE SoundSoFar(s[d], names)
    <3>1. d \in 1..(n - 1) /\ d \in 1..n /\ SoundSoFar(stack[d], names)
      BY <1>2, <1>3, <1>4 DEF s
    <3>2. CASE d < n - 1
      <4>1. s[d] = stack[d]
        BY <1>2, <1>3, <3>1, <3>2 DEF s
      <4> QED BY <3>1, <4>1
    <3>3. CASE d = n - 1
      <4> DEFINE f == stack[d]
      <4>1. f.values \in Seq(Nat) /\ Len(f.values) \in Nat
        BY <1>2, <3>1 DEF Frame
      <4>2. s[d].expr = f.expr /\ s[d].values = Append(f.values, v)
        BY <1>3, <1>7, <3>1, <3>3 DEF s
      <4>3. Len(s[d].values) = Len(f.values) + 1
        BY <4>1, <4>2
      <4>4. Len(f.values) < Len(Children(f.expr)) /\ Children(f.expr)[Len(f.values) + 1] = Top.expr
        BY <1>2, <1>4, <3>1, <3>3 DEF Called, OperandAt
      <4>5. Len(Children(f.expr)) \in Nat
        <5>1. f.expr \in Node
          BY <1>2, <3>1 DEF Frame
        <5> QED BY <5>1, SourceNodes
      <4>6. \A k \in 1..Len(f.values) : Sound(Children(f.expr)[k], names)
        BY <3>1 DEF SoundSoFar
      <4> HIDE DEF f
      <4>7. \A k \in 1..(Len(f.values) + 1) : Sound(Children(f.expr)[k], names)
        BY <4>1, <4>4, <4>6
      <4> QED BY <4>1, <4>2, <4>3, <4>4, <4>5, <4>7 DEF SoundSoFar
    <3> QED BY <3>1, <3>2, <3>3, <1>2
  <2>5. stack' = s /\ value' = Pending
    BY <1>1, <1>4, <1>7 DEF s
  <2> QED BY <2>1, <2>2, <2>3, <2>4, <2>5, <1>1, <1>5 DEF Waiting, Judged
<1>8. n = 1 \/ n > 1
  <2>1. \A m \in Nat \ {0} : m = 1 \/ m > 1
    OBVIOUS
  <2>2. n \in Nat \ {0}
    BY <1>2
  <2> HIDE DEF n
  <2> QED BY <2>1, <2>2
<1> QED BY <1>6, <1>7, <1>8

LEMMA FailUnsound ==
  ASSUME LossInv, stack # <<>>, Fail, ~Fits(Top.expr, DOMAIN symbolTable)
  PROVE  Waiting' /\ Judged'
<1>1. /\ stack' = <<>> /\ value' = Null /\ symbolTable' = symbolTable /\ Statement' = Statement
  BY DEF Fail, Statement, Current
<1>2. Len(stack) \in 1..Len(stack) /\ Top = stack[Len(stack)] /\ Top.expr \in Node /\ InBody
  BY TopShape DEF LossInv, GenInv, Types, Place
<1>3. Within[Top.expr] \subseteq Within[Subject(Statement)] /\ Subject(Statement) \in Node /\ HasExpression
  BY <1>2, StatementShape DEF LossInv, Waiting, InTree, Judged, GenInv
<1>4. ~Sound(Subject(Statement), DOMAIN symbolTable)
  BY <1>2, <1>3, UnfitIsUnsound
<1>5. HasExpression'
  BY <1>1, <1>3 DEF HasExpression
<1> QED BY <1>1, <1>4, <1>5 DEF Waiting, Judged

LEMMA ExpressionSound ==
  ASSUME LossInv,
         GenNumber \/ GenLiteral \/ GenVariable \/ GenBinary \/ GenCall \/ Unhandled
  PROVE  Waiting' /\ Judged' /\ UNCHANGED <<source, fn, stmt, symbolTable, functions, result>>
<1> DEFINE names == DOMAIN symbolTable
           e == Top.expr
<1>1. stack # <<>>
  BY DEF GenNumber, GenLiteral, GenVariable, GenBinary, GenCall, Unhandled, Generating
<1>2. e \in Node /\ Len(ops) + 1 \in Nat \ {0} /\ Len(Operand) = Len(Children(e))
  BY <1>1, TopShape DEF LossInv, GenInv, Types, Operand
<1>3. \A kind, type : Emit(kind, type) /\ Len(Top.values) = Len(Operand) /\ Fits(e, names) => Waiting' /\ Judged'
  BY <1>1, <1>2, TopIsSound, YieldSound DEF Emit
<1>4. Fail /\ ~Fits(e, names) => Waiting' /\ Judged'
  BY <1>1, FailUnsound
<1>5. CASE GenNumber
  <2>1. Fits(e, names) /\ Emit("constant", Tensor(<<>>)) /\ Len(Top.values) = Len(Operand)
    BY <1>5 DEF GenNumber, Generating, Fits
  <2> QED BY <2>1, <1>3 DEF Emit, Yield
<1>6. CASE GenLiteral
  <2>1. Fits(e, names) /\ Emit("constant", Tensor(e.dims)) /\ Len(Top.values) = Len(Operand)
    BY <1>6 DEF GenLiteral, Generating, Fits
  <2> QED BY <2>1, <1>3 DEF Emit, Yield
<1>7. CASE GenVariable
  <2>1. Fits(e, names) <=> e.name \in names
    BY <1>7 DEF GenVariable, Generating, Fits
  <2>2. CASE e.name \in names
    <3>1. Yield(symbolTable[e.name], ops)
      BY <1>7, <2>2 DEF GenVariable
    <3>2. symbolTable[e.name] \in Nat \ {0}
      BY <2>2, ValuesIn DEF LossInv, GenInv, Operable, Types
    <3>3. Sound(e, names)
      BY <1>1, <1>7, <2>1, <2>2, TopIsSound DEF GenVariable, Generating
    <3> QED BY <1>1, <3>1, <3>2, <3>3, YieldSound DEF Yield
  <2>3. CASE e.name \notin names
    BY <1>4, <1>7, <2>1, <2>3 DEF GenVariable, Fail
  <2> QED BY <2>2, <2>3
<1>8. CASE GenBinary
  <2>1. Fits(e, names) <=> e.op \in DOMAIN BinaryOps
    BY <1>2, <1>8, SourceNodes DEF GenBinary, Generating, Fits, BinaryOps
  <2>2. CASE e.op \in DOMAIN BinaryOps
    <3>1. Emit(BinaryOps[e.op], Unranked) /\ Len(Top.values) = Len(Operand)
      BY <1>8, <2>2 DEF GenBinary, Generating
    <3> QED BY <3>1, <2>1, <2>2, <1>3 DEF Emit, Yield
  <2>3. CASE e.op \notin DOMAIN BinaryOps
    BY <1>4, <1>8, <2>1, <2>3 DEF GenBinary, Fail
  <2> QED BY <2>2, <2>3
<1>9. CASE GenCall
  <2>1. Fits(e, names) <=> (e.callee = "transpose" => Len(Operand) = 1)
    BY <1>2, <1>9 DEF GenCall, Generating, Fits, Children
  <2>2. CASE e.callee = "transpose" /\ Len(Operand) # 1
    BY <1>4, <1>9, <2>1, <2>2 DEF GenCall, Fail
  <2>3. CASE ~(e.callee = "transpose" /\ Len(Operand) # 1)
    <3>1. (Emit("generic_call", Unranked) \/ Emit("transpose", Unranked)) /\ Len(Top.values) = Len(Operand)
      BY <1>9, <2>3 DEF GenCall, Generating
    <3> QED BY <3>1, <2>1, <2>3, <1>3 DEF Emit, Yield
  <2> QED BY <2>2, <2>3
<1>10. CASE Unhandled
  <2>1. ~Fits(e, names)
    BY <1>10 DEF Unhandled, Fits
  <2> QED BY <2>1, <1>4, <1>10 DEF Unhandled, Fail
<1> QED BY <1>5, <1>6, <1>7, <1>8, <1>9, <1>10

LEMMA BeginSound ==
  ASSUME LossInv, Begin
  PROVE  Waiting' /\ Judged' /\ UNCHANGED <<source, fn, stmt, symbolTable, functions, result>>
<1> DEFINE root == Subject(Statement)
           f == Activation(root)
<1>1. /\ InBody /\ stack' = <<f>> /\ value' = Pending /\ HasExpression
      /\ UNCHANGED <<source, fn, stmt, symbolTable, functions, result>>
  BY DEF Begin, HasExpression
<1>2. Statement' = Statement /\ root \in Node
  BY <1>1, StatementShape DEF LossInv, GenInv, Statement, Current
<1>3. f.expr = root /\ f.values = <<>> /\ Len(Children(root)) \in Nat
  BY <1>2, SourceNodes DEF Activation
<1> HIDE DEF f, root
<1>4. InTree(<<f>>, root) /\ Called(<<f>>)
  BY <1>3 DEF InTree, Called
<1>5. SoundSoFar(f, DOMAIN symbolTable)
  BY <1>3 DEF SoundSoFar
<1> QED BY <1>1, <1>2, <1>4, <1>5 DEF Waiting, Judged, HasExpression, root

LEMMA GenOperandSound ==
  ASSUME LossInv, GenOperand
  PROVE  Waiting' /\ Judged' /\ UNCHANGED <<source, fn, stmt, symbolTable, functions, result>>
<1> DEFINE n == Len(stack)
           e == OperandAt(Top)
           f == Activation(e)
           s == Append(stack, f)
           root == Subject(Statement)
<1>1. /\ stack # <<>> /\ Len(Top.values) < Len(Operand) /\ stack' = s
      /\ UNCHANGED <<source, fn, stmt, symbolTable, value, functions, result>>
  BY DEF GenOperand, OperandAt, Operand
<1>2. /\ n \in Nat \ {0} /\ Top = stack[n] /\ Top.expr \in Node /\ Top.values \in Seq(Nat)
      /\ stack \in Seq(Frame)
  BY <1>1, TopShape DEF LossInv, GenInv, Types
<1>3. e \in Node /\ Within[e] \subseteq Within[Top.expr]
  <2>1. Len(Top.values) + 1 \in 1..Len(Children(Top.expr))
    BY <1>1, <1>2, SourceNodes DEF Operand
  <2> QED BY <2>1, <1>2, WithinChild DEF OperandAt
<1>4. f \in Frame /\ f.expr = e /\ f.values = <<>>
  BY <1>3 DEF Activation, Frame
<1>5. Len(s) = n + 1 /\ (\A d \in 1..n : s[d] = stack[d]) /\ s[n + 1] = f /\ s # <<>>
  <2> HIDE DEF f
  <2> QED BY <1>2, <1>4, Appended
<1>6. InTree(stack, root) /\ Called(stack) /\ \A d \in 1..n : SoundSoFar(stack[d], DOMAIN symbolTable)
  BY <1>1 DEF LossInv, Waiting
<1>7. Statement' = Statement /\ HasExpression /\ value = Pending
  BY <1>1 DEF Statement, Current, LossInv, Judged, GenInv, Place
<1>8. Len(Children(e)) \in Nat
  BY <1>3, SourceNodes
<1> HIDE DEF s, f, e
<1>9. InTree(s, root)
  <2>1. s[1].expr = root
    BY <1>2, <1>5, <1>6 DEF InTree
  <2>2. ASSUME NEW d \in 1..Len(s) PROVE Within[s[d].expr] \subseteq Within[root]
    <3>1. CASE d \in 1..n
      BY <1>5, <1>6, <3>1 DEF InTree
    <3>2. CASE d = n + 1
      <4>1. Within[Top.expr] \subseteq Within[root]
        BY <1>2, <1>6 DEF InTree
      <4> QED BY <1>3, <1>4, <1>5, <3>2, <4>1
    <3> QED BY <1>2, <1>5, <2>2, <3>1, <3>2
  <2> QED BY <2>1, <2>2 DEF InTree
<1>10. Called(s)
  <2>1. SUFFICES ASSUME NEW d \in 1..(Len(s) - 1)
                 PROVE  Len(s[d].values) < Len(Children(s[d].expr)) /\ s[d + 1].expr = OperandAt(s[d])
    BY DEF Called
  <2>2. CASE d < n
    <3>1. d \in 1..(n - 1) /\ d \in 1..n /\ d + 1 \in 1..n
      BY <1>2, <1>5, <2>1, <2>2
    <3>2. s[d] = stack[d] /\ s[d + 1] = stack[d + 1]
      BY <1>5, <3>1
    <3>3. Len(stack[d].values) < Len(Children(stack[d].expr)) /\ stack[d + 1].expr = OperandAt(stack[d])
      BY <1>6, <3>1 DEF Called
    <3> QED BY <3>2, <3>3
  <2>3. CASE d = n
    BY <1>1, <1>2, <1>4, <1>5, <2>3 DEF e, Operand
  <2> QED BY <1>2, <1>5, <2>1, <2>2, <2>3
<1>11. \A d \in 1..Len(s) : SoundSoFar(s[d], DOMAIN symbolTable)
  <2>1. SoundSoFar(f, DOMAIN symbolTable)
    BY <1>4, <1>8 DEF SoundSoFar
  <2> QED BY <1>2, <1>5, <1>6, <2>1
<1> QED BY <1>1, <1>7, <1>9, <1>10, <1>11 DEF Waiting, Judged, HasExpression
-----------------------------------------------------------------------------
(* Soundness of what the statements do.                                    *)
LEMMA ScopeFacts ==
  ASSUME LossInv, InBody
  PROVE  /\ stmt \in Nat \ {0} /\ stmt \in DOMAIN Current.body /\ Current.body \in Seq(Node)
         /\ fn <= Len(source) /\ Statement = Current.body[stmt]
         /\ DOMAIN symbolTable = InSight(Current, stmt)
         /\ \A j \in 1..(stmt - 1) : StatementSound(Current, j) /\ Current.body[j].node # "Return"
         /\ stmt \in Reached(Current)
<1>1. stmt \in Nat \ {0} /\ stmt \in DOMAIN Current.body /\ fn <= Len(source)
  BY StatementShape DEF LossInv, GenInv, Types, InBody
<1>2. Current.body \in Seq(Node)
  BY <1>1, CurrentShape DEF LossInv, GenInv
<1>3. ScopeOf(Current, stmt, DOMAIN symbolTable)
  BY <1>1 DEF LossInv, BeforeReturn
<1> QED BY <1>1, <1>2, <1>3 DEF ScopeOf, Statement, Reached

\* The value of the expression tells whether the statement is sound.
LEMMA ValueTells ==
  ASSUME LossInv, Returned
  PROVE  StatementSound(Current, stmt) <=>
           /\ value # Null
           /\ Statement.node = "VarDecl" => Statement.name \notin DOMAIN symbolTable
<1>1. InBody /\ value # Pending
  BY DEF Returned
<1>2. Statement = Current.body[stmt] /\ DOMAIN symbolTable = InSight(Current, stmt)
  BY <1>1, ScopeFacts
<1>3. HasExpression /\ (value # Null <=> Sound(Subject(Statement), DOMAIN symbolTable))
  BY <1>1 DEF LossInv, Judged
<1> QED BY <1>2, <1>3, StatementSoundness DEF HasExpression

LEMMA StepToSound ==
  ASSUME LossInv, InBody, stack = <<>>, NEW table, NEW o, StepTo(table, o),
         StatementSound(Current, stmt), Statement.node # "Return",
         DOMAIN table = DOMAIN symbolTable \cup Declares(Current, stmt)
  PROVE  BeforeReturn' /\ Waiting' /\ Judged' /\ Past' /\ Verified'
<1>1. /\ symbolTable' = table /\ stmt' = stmt + 1 /\ value' = Pending /\ stack' = <<>>
      /\ UNCHANGED <<source, fn, functions, result>>
  BY DEF StepTo
<1>2. /\ stmt \in Nat \ {0} /\ stmt \in DOMAIN Current.body /\ Current.body \in Seq(Node)
      /\ Statement = Current.body[stmt] /\ DOMAIN symbolTable = InSight(Current, stmt)
      /\ \A j \in 1..(stmt - 1) : StatementSound(Current, j) /\ Current.body[j].node # "Return"
  BY ScopeFacts
<1>3. ScopeOf(Current, stmt + 1, DOMAIN table)
  <2>1. stmt + 1 <= Len(Current.body) + 1
    BY <1>2
  <2>2. DOMAIN table = InSight(Current, stmt + 1)
    BY <1>2, InSightGrows
  <2>3. \A j \in 1..(stmt + 1 - 1) : j \in 1..(stmt - 1) \/ j = stmt
    BY <1>2
  <2> QED BY <1>2, <2>1, <2>2, <2>3 DEF ScopeOf
<1>4. BeforeReturn'
  BY <1>1, <1>3 DEF BeforeReturn, Current
<1>5. Past' /\ Verified'
  BY <1>1 DEF LossInv, Past, Verified
<1> QED BY <1>1, <1>4, <1>5 DEF Waiting, Judged

\* A function that is finished, with the module as it was or one function more.
Settled(f) ==
  \/ functions' = functions /\ ~FunctionSound(f)
  \/ \E g \in Function :
       /\ functions' = Append(functions, g) /\ g.name = f.name
       /\ g.ops = <<>> \/ FunctionSound(f) \/ f.body[FirstUnsound(f)].node = "Print"

LEMMA LeavePast ==
  ASSUME LossInv, fn <= Len(source), NextFunction, source' = source, Settled(Current)
  PROVE  Past'
<1>1. /\ fn' = fn + 1 /\ fn \in 1..Len(source) /\ functions \in Seq(Function)
      /\ 1..(fn + 1 - 1) = 1..(fn - 1) \cup {fn} /\ 1..(fn - 1) \subseteq DOMAIN source
      /\ source \in Seq(FunctionAST) /\ fn \in DOMAIN source
  <2>1. fn' = fn + 1 /\ functions \in Seq(Function) /\ source \in Seq(FunctionAST) /\ fn \in Nat \ {0}
    BY DEF NextFunction, LossInv, GenInv, Types
  <2>2. Len(source) \in Nat /\ DOMAIN source = 1..Len(source)
    BY <2>1
  <2>3. 1..(fn + 1 - 1) = 1..(fn - 1) \cup {fn} /\ 1..(fn - 1) \subseteq 1..Len(source) /\ fn \in 1..Len(source)
    BY <2>1, <2>2
  <2> QED BY <2>1, <2>2, <2>3
<1>2. /\ \A j \in DOMAIN functions : \E k \in 1..(fn - 1) : functions[j].name = source[k].name
      /\ DistinctNames(source) => \A k \in 1..(fn - 1) : Explained(source[k], functions)
  BY DEF LossInv, Past
<1>3. DistinctNames(source) => \A k \in 1..(fn - 1) : source[k].name # Current.name
  <2>1. SUFFICES ASSUME DistinctNames(source), NEW k \in 1..(fn - 1), source[k].name = Current.name PROVE FALSE
    OBVIOUS
  <2>2. k \in DOMAIN source /\ k # fn
    BY <1>1
  <2>3. \A i, j \in DOMAIN source : source[i].name = source[j].name => i = j
    BY <2>1 DEF DistinctNames, Distinct
  <2> QED BY <1>1, <2>1, <2>2, <2>3 DEF Current
<1>4. DistinctNames(source) => ~IsIn(Current, functions)
  <2>1. SUFFICES ASSUME DistinctNames(source), NEW j \in DOMAIN functions, functions[j].name = Current.name PROVE FALSE
    BY DEF IsIn
  <2>2. PICK k \in 1..(fn - 1) : functions[j].name = source[k].name
    BY <1>2
  <2> QED BY <1>3, <2>1, <2>2
<1>5. CASE functions' = functions /\ ~FunctionSound(Current)
  <2>1. DistinctNames(source) => Explained(Current, functions)
    BY <1>4, <1>5 DEF Explained
  <2> QED BY <1>1, <1>2, <1>5, <2>1 DEF Past, Current
<1>6. ASSUME NEW g \in Function, functions' = Append(functions, g), g.name = Current.name,
             g.ops = <<>> \/ FunctionSound(Current) \/ Current.body[FirstUnsound(Current)].node = "Print"
      PROVE  Past'
  <2> DEFINE fs == Append(functions, g)
  <2>1. /\ DOMAIN functions = 1..Len(functions) /\ DOMAIN fs = 1..(Len(functions) + 1) /\ Len(functions) \in Nat
        /\ \A j \in 1..Len(functions) : fs[j] = functions[j]
        /\ fs[Len(functions) + 1] = g
    BY <1>1, Appended
  <2> HIDE DEF fs
  <2>2. \A f : IsIn(f, fs) <=> IsIn(f, functions) \/ f.name = g.name
    BY <2>1 DEF IsIn
  <2>3. Explained(Current, fs)
    <3>1. IsIn(Current, fs)
      BY <1>6, <2>2
    <3>2. g.ops = <<>> => \E j \in DOMAIN fs : fs[j].name = Current.name /\ fs[j].ops = <<>>
      BY <1>6, <2>1
    <3> QED BY <1>6, <3>1, <3>2 DEF Explained
  <2>4. ASSUME DistinctNames(source), NEW k \in 1..(fn - 1) PROVE Explained(source[k], fs)
    <3>1. Explained(source[k], functions) /\ source[k].name # g.name
      BY <1>2, <1>3, <1>6, <2>4
    <3>2. IsIn(source[k], fs) <=> IsIn(source[k], functions)
      BY <2>2, <3>1
    <3>3. (\E j \in DOMAIN functions : functions[j].name = source[k].name /\ functions[j].ops = <<>>)
            => \E j \in DOMAIN fs : fs[j].name = source[k].name /\ fs[j].ops = <<>>
      BY <2>1
    <3> QED BY <3>1, <3>2, <3>3 DEF Explained
  <2>5. \A j \in DOMAIN fs : \E k \in 1..fn : fs[j].name = source[k].name
    <3>1. SUFFICES ASSUME NEW j \in DOMAIN fs PROVE \E k \in 1..fn : fs[j].name = source[k].name
      OBVIOUS
    <3>2. CASE j = Len(functions) + 1
      BY <1>1, <1>6, <2>1, <3>2 DEF Current
    <3>3. CASE j \in DOMAIN functions
      <4>1. PICK k \in 1..(fn - 1) : functions[j].name = source[k].name
        BY <1>2, <3>3
      <4>2. k \in 1..fn
        BY <1>1
      <4> QED BY <2>1, <3>3, <4>1, <4>2
    <3> QED BY <2>1, <3>1, <3>2, <3>3
  <2>6. functions' = fs
    BY <1>6 DEF fs
  <2>7. fn + 1 - 1 = fn
    BY <1>1
  <2>8. DistinctNames(source) => \A k \in 1..fn : Explained(source[k], fs)
    BY <1>1, <2>3, <2>4, <2>7 DEF Current
  <2> QED BY <1>1, <2>5, <2>6, <2>7, <2>8 DEF Past
<1> QED BY <1>5, <1>6 DEF Settled

LEMMA LeaveSound ==
  ASSUME LossInv, fn <= Len(source), result = "none", stack = <<>>, NextFunction, value' = Pending,
         UNCHANGED <<source, stack, result>>, Settled(Current)
  PROVE  BeforeReturn' /\ Waiting' /\ Judged' /\ Past' /\ Verified'
<1>1. Past'
  BY LeavePast
<1>2. stmt' = 0 /\ stack' = <<>> /\ result' = "none"
  BY DEF NextFunction
<1> QED BY <1>1, <1>2 DEF BeforeReturn, Waiting, Judged, Verified

LEMMA FinishSound ==
  ASSUME LossInv, fn <= Len(source), result = "none", stack = <<>>, NEW o \in Seq(Op), Finish(o),
         FunctionSound(Current) \/ Current.body[FirstUnsound(Current)].node = "Print"
  PROVE  BeforeReturn' /\ Waiting' /\ Judged' /\ Past' /\ Verified'
<1> DEFINE c == Closed(o)
           b == c[Len(c)].ins # <<>>
           g == FuncOp(Current.name, c, b)
<1>1. /\ functions' = Append(functions, g) /\ NextFunction /\ value' = Pending
      /\ UNCHANGED <<source, stack, result>>
  BY DEF Finish, Closed
<1>2. c \in Seq(Op) /\ Current.name \in STRING /\ b \in BOOLEAN
  BY ClosedShape, CurrentShape DEF LossInv, GenInv
<1>3. g \in Function /\ g.name = Current.name
  BY <1>2 DEF FuncOp, Function
<1>4. Settled(Current)
  BY <1>1, <1>3 DEF Settled
<1> QED BY <1>1, <1>4, LeaveSound

LEMMA EraseSound ==
  ASSUME LossInv, fn <= Len(source), result = "none", stack = <<>>, Erase, ~FunctionSound(Current)
  PROVE  BeforeReturn' /\ Waiting' /\ Judged' /\ Past' /\ Verified'
<1>1. functions' = functions /\ NextFunction /\ value' = Pending /\ UNCHANGED <<source, stack, result>>
  BY DEF Erase
<1> QED BY <1>1, LeaveSound DEF Settled

LEMMA UnsoundHere ==
  ASSUME LossInv, InBody, ~StatementSound(Current, stmt)
  PROVE  FirstUnsound(Current) = stmt /\ ~FunctionSound(Current)
BY ScopeFacts, FirstIs

LEMMA VarDeclSound ==
  ASSUME LossInv, VarDecl
  PROVE  BeforeReturn' /\ Waiting' /\ Judged' /\ Past' /\ Verified'
<1>1. Returned /\ InBody /\ stack = <<>> /\ Statement.node = "VarDecl"
  BY DEF VarDecl, Returned
<1>2. Statement = Current.body[stmt] /\ fn <= Len(source) /\ result = "none"
  BY <1>1, ScopeFacts DEF InBody
<1> DEFINE reshaped == IF Statement.shape = <<>> THEN ops
                       ELSE Append(ops, Operation("reshape", <<value>>, GetType(Statement.shape)))
           declared == IF Statement.shape = <<>> THEN value ELSE Len(reshaped)
           table == Declare(symbolTable, Statement.name, declared)
<1>3. CASE value # Null /\ Statement.name \notin DOMAIN symbolTable
  <2>1. StepTo(table, reshaped)
    BY <1>3 DEF VarDecl
  <2>2. DOMAIN table = DOMAIN symbolTable \cup Declares(Current, stmt)
    BY <1>1, <1>2 DEF Declare, Declares
  <2>3. StatementSound(Current, stmt)
    BY <1>1, <1>3, ValueTells
  <2> HIDE DEF table, reshaped
  <2> QED BY <1>1, <2>1, <2>2, <2>3, StepToSound
<1>4. CASE ~(value # Null /\ Statement.name \notin DOMAIN symbolTable)
  <2>1. Erase
    BY <1>4 DEF VarDecl
  <2>2. ~StatementSound(Current, stmt)
    BY <1>1, <1>4, ValueTells
  <2> QED BY <1>1, <1>2, <2>1, <2>2, UnsoundHere, EraseSound
<1> QED BY <1>3, <1>4

\* A return closes what is reached of its function.
LEMMA ReturnEnds ==
  ASSUME LossInv, InBody, Statement.node = "Return", StatementSound(Current, stmt)
  PROVE  FunctionSound(Current)
<1>1. /\ stmt \in Nat \ {0} /\ Statement = Current.body[stmt] /\ Current.body \in Seq(Node)
      /\ \A j \in 1..(stmt - 1) : StatementSound(Current, j)
  BY ScopeFacts
<1>2. SUFFICES ASSUME NEW k \in Reached(Current) PROVE StatementSound(Current, k)
  BY DEF FunctionSound
<1>3. k \in Nat \ {0} /\ \A j \in 1..(k - 1) : Current.body[j].node # "Return"
  BY <1>1 DEF Reached
<1>4. k <= stmt
  <2>1. SUFFICES ASSUME stmt < k PROVE FALSE
    BY <1>1, <1>3
  <2>2. stmt \in 1..(k - 1)
    BY <1>1, <1>3, <2>1
  <2> QED BY <1>1, <1>3, <2>2
<1>5. k = stmt \/ k \in 1..(stmt - 1)
  BY <1>1, <1>3, <1>4
<1> QED BY <1>1, <1>5

LEMMA ReturnSound ==
  ASSUME LossInv, Return
  PROVE  BeforeReturn' /\ Waiting' /\ Judged' /\ Past' /\ Verified'
<1>1. InBody /\ stack = <<>> /\ Statement.node = "Return"
  BY DEF Return
<1>2. Statement = Current.body[stmt] /\ fn <= Len(source) /\ result = "none"
  BY <1>1, ScopeFacts DEF InBody
<1>3. ops \in Seq(Op) /\ value \in {Pending, Null} \cup Values(ops) /\ "return" \in Kinds /\ Unranked \in Type
  BY TypesIn DEF LossInv, GenInv, Types, Operable, Kinds, NoResult
<1>4. CASE Statement.expr = None /\ Finish(ReturnOf(<<>>))
  <2> DEFINE op == Operation("return", <<>>, Unranked)
  <2>1. op \in Op
    <3>1. <<>> \in Seq(Nat)
      OBVIOUS
    <3> QED BY <1>3, <3>1 DEF Operation, Op
  <2> HIDE DEF op
  <2>2. Append(ops, op) \in Seq(Op)
    BY <1>3, <2>1, Appended
  <2>3. ReturnOf(<<>>) \in Seq(Op)
    BY <2>2 DEF ReturnOf, op
  <2>4. StatementSound(Current, stmt)
    BY <1>1, <1>2, <1>4, StatementSoundness
  <2> QED BY <1>1, <1>2, <1>4, <2>3, <2>4, ReturnEnds, FinishSound
<1>5. CASE value > Null /\ Finish(ReturnOf(<<value>>))
  <2>1. value # Pending /\ value # Null /\ value \in Values(ops)
    BY <1>3, <1>5 DEF Pending, Null
  <2>2. ReturnOf(<<value>>) \in Seq(Op)
    BY <1>3, <2>1, StatementOp DEF ReturnOf, LossInv
  <2>3. StatementSound(Current, stmt)
    BY <1>1, <2>1, ValueTells DEF Returned
  <2> QED BY <1>1, <1>2, <1>5, <2>2, <2>3, ReturnEnds, FinishSound
<1>6. CASE value = Null /\ Erase
  <2>1. ~StatementSound(Current, stmt)
    BY <1>1, <1>6, ValueTells DEF Returned, Null, Pending
  <2> QED BY <1>1, <1>2, <1>6, <2>1, UnsoundHere, EraseSound
<1> QED BY <1>4, <1>5, <1>6 DEF Return

LEMMA PrintSound ==
  ASSUME LossInv, PrintStatement
  PROVE  BeforeReturn' /\ Waiting' /\ Judged' /\ Past' /\ Verified'
<1>1. Returned /\ InBody /\ stack = <<>> /\ Statement.node = "Print"
  BY DEF PrintStatement, Returned
<1>2. Statement = Current.body[stmt] /\ fn <= Len(source) /\ result = "none" /\ ops \in Seq(Op)
  BY <1>1, ScopeFacts DEF InBody, LossInv, GenInv, Types
<1>3. CASE value # Null
  <2> DEFINE o == Append(ops, Operation("print", <<value>>, Unranked))
  <2>1. StepTo(symbolTable, o)
    BY <1>3 DEF PrintStatement
  <2>2. DOMAIN symbolTable = DOMAIN symbolTable \cup Declares(Current, stmt)
    BY <1>1, <1>2 DEF Declares
  <2>3. StatementSound(Current, stmt)
    BY <1>1, <1>3, ValueTells
  <2> HIDE DEF o
  <2> QED BY <1>1, <2>1, <2>2, <2>3, StepToSound
<1>4. CASE value = Null
  <2>1. ~StatementSound(Current, stmt) /\ Finish(ops)
    BY <1>1, <1>4, ValueTells DEF PrintStatement
  <2>2. Current.body[FirstUnsound(Current)].node = "Print"
    BY <1>1, <1>2, <2>1, UnsoundHere
  <2> QED BY <1>1, <1>2, <2>1, <2>2, FinishSound
<1> QED BY <1>3, <1>4

LEMMA StatementStepSound ==
  ASSUME LossInv, Expression \/ EndBody
  PROVE  BeforeReturn' /\ Waiting' /\ Judged' /\ Past' /\ Verified'
<1>1. CASE Expression
  <2>1. Returned /\ InBody /\ stack = <<>> /\ Statement.node \notin {"VarDecl", "Return", "Print"}
    BY <1>1 DEF Expression, Returned
  <2>2. Statement = Current.body[stmt] /\ fn <= Len(source) /\ result = "none"
    BY <2>1, ScopeFacts DEF InBody
  <2>3. StatementSound(Current, stmt) <=> value # Null
    BY <2>1, ValueTells
  <2>4. DOMAIN symbolTable = DOMAIN symbolTable \cup Declares(Current, stmt)
    BY <2>1, <2>2 DEF Declares
  <2>5. IF value # Null THEN StepTo(symbolTable, ops) ELSE Erase
    BY <1>1 DEF Expression
  <2> QED BY <2>1, <2>2, <2>3, <2>4, <2>5, StepToSound, UnsoundHere, EraseSound
<1>2. CASE EndBody
  <2>1. /\ result = "none" /\ stmt > Len(Current.body) /\ Finish(ops) /\ stmt \in Nat \ {0}
        /\ fn <= Len(source) /\ ops \in Seq(Op) /\ stack = <<>>
    BY <1>2 DEF EndBody, LossInv, GenInv, Types, Place, InBody
  <2>2. ScopeOf(Current, stmt, DOMAIN symbolTable)
    BY <2>1 DEF LossInv, BeforeReturn
  <2>3. \A k \in Reached(Current) : k \in 1..(stmt - 1)
    <3>1. Current.body \in Seq(Node)
      BY <2>1, CurrentShape DEF LossInv, GenInv
    <3> QED BY <2>1, <3>1 DEF Reached
  <2>4. FunctionSound(Current)
    BY <2>2, <2>3 DEF FunctionSound, ScopeOf
  <2> QED BY <2>1, <2>4, FinishSound
<1> QED BY <1>1, <1>2

LEMMA BeginFunctionSound ==
  ASSUME LossInv, BeginFunction
  PROVE  BeforeReturn' /\ Waiting' /\ Judged' /\ Past' /\ Verified'
<1> DEFINE params == Current.params
<1>1. /\ stmt = 0 /\ fn <= Len(source) /\ result = "none" /\ stmt' = 1
      /\ UNCHANGED <<source, fn, stack, value, functions, result>>
  BY DEF BeginFunction
<1>2. symbolTable = <<>> /\ stack = <<>> /\ value = Pending
  BY <1>1 DEF LossInv, GenInv, Place, InBody
<1>3. DOMAIN symbolTable' = Elements(params)
  BY <1>2 DEF BeginFunction
<1>4. InSight(Current, 1) = Elements(params)
  <2>1. 1..(1 - 1) = {}
    OBVIOUS
  <2> QED BY <2>1 DEF InSight
<1>5. ScopeOf(Current, 1, DOMAIN symbolTable')
  <2>1. Len(Current.body) \in Nat
    BY <1>1, CurrentShape DEF LossInv, GenInv
  <2> QED BY <1>3, <1>4, <2>1 DEF ScopeOf
<1>6. BeforeReturn'
  BY <1>1, <1>5 DEF BeforeReturn, Current
<1> QED BY <1>1, <1>2, <1>6 DEF LossInv, Waiting, Judged, Past, Verified

LEMMA RepeatedSound ==
  ASSUME LossInv, RepeatedParameter
  PROVE  BeforeReturn' /\ Waiting' /\ Judged' /\ Past' /\ Verified'
<1> DEFINE g == FuncOp(Current.name, <<>>, FALSE)
<1>1. /\ stmt = 0 /\ fn <= Len(source) /\ result = "none" /\ functions' = Append(functions, g)
      /\ NextFunction /\ UNCHANGED <<source, stack, value, result>>
  BY DEF RepeatedParameter
<1>2. stack = <<>> /\ value = Pending
  BY <1>1 DEF LossInv, GenInv, Place, InBody
<1>3. g \in Function /\ g.name = Current.name /\ g.ops = <<>>
  <2>1. <<>> \in Seq(Op)
    OBVIOUS
  <2> QED BY <1>1, <2>1, CurrentShape DEF FuncOp, Function, LossInv, GenInv
<1>4. Settled(Current)
  BY <1>1, <1>3 DEF Settled
<1> QED BY <1>1, <1>2, <1>4, LeaveSound

LEMMA LossInit == Init => LossInv
<1>1. SUFFICES ASSUME Init PROVE LossInv
  OBVIOUS
<1>2. GenInv
  BY <1>1, GenInit
<1>3. BeforeReturn /\ Waiting /\ Judged /\ Verified
  BY <1>1 DEF Init, BeforeReturn, Waiting, Judged, Verified
<1>4. Past
  <2>1. functions = <<>> /\ fn = 1
    BY <1>1 DEF Init
  <2>2. 1..(1 - 1) = {}
    OBVIOUS
  <2> QED BY <2>1, <2>2 DEF Past
<1> QED BY <1>2, <1>3, <1>4 DEF LossInv

LEMMA LossNext == LossInv /\ [Next]_vars => LossInv'
<1>1. SUFFICES ASSUME LossInv, [Next]_vars PROVE LossInv'
  OBVIOUS
<1>2. GenInv'
  BY <1>1, GenNext DEF LossInv
<1>3. SUFFICES BeforeReturn' /\ Waiting' /\ Judged' /\ Past' /\ Verified'
  BY <1>2 DEF LossInv
<1>4. CASE Begin \/ GenOperand \/ GenNumber \/ GenLiteral \/ GenVariable \/ GenBinary \/ GenCall \/ Unhandled
  <2>1. Waiting' /\ Judged' /\ UNCHANGED <<source, fn, stmt, symbolTable, functions, result>>
    BY <1>1, <1>4, BeginSound, GenOperandSound, ExpressionSound
  <2>2. BeforeReturn /\ Past /\ Verified
    BY <1>1 DEF LossInv
  <2> QED BY <2>1, <2>2, SameStatement
<1>5. CASE VerifyModule
  <2>1. /\ result = "none" /\ stmt = 0 /\ fn > Len(source)
        /\ UNCHANGED <<source, fn, stmt, symbolTable, stack, value, ops, functions>>
        /\ result' = "module" => \A k \in DOMAIN functions : FunctionVerifies(functions[k])
    BY <1>5 DEF VerifyModule
  <2>2. stack = <<>> /\ value = Pending
    BY <1>1, <2>1 DEF LossInv, GenInv, Place, InBody
  <2>3. fn = Len(source) + 1
    <3>1. fn \in 1..(Len(source) + 1) /\ source \in Seq(FunctionAST)
      BY <1>1 DEF LossInv, GenInv, Types
    <3> QED BY <2>1, <3>1
  <2>4. Verified'
    BY <2>1, <2>3 DEF Verified, FunctionVerifies
  <2> QED BY <1>1, <2>1, <2>2, <2>4 DEF LossInv, BeforeReturn, Waiting, Judged, Past
<1>6. CASE UNCHANGED vars
  BY <1>1, <1>6 DEF vars, LossInv, BeforeReturn, Waiting, Judged, Past, Verified, HasExpression, Statement, Current
<1> QED
  BY <1>1, <1>4, <1>5, <1>6, BeginFunctionSound, RepeatedSound, VarDeclSound, ReturnSound, PrintSound,
     StatementStepSound DEF Next

\* A function that the module lacks has an error of the source; one that lost
\* statements lost them to a print that failed.
LEMMA LossHolds == LossInv => LossHasAReason
<1>1. SUFFICES ASSUME LossInv, result = "module", DistinctNames(source), NEW k \in DOMAIN source
               PROVE  LET f == source[k] IN
                      /\ f.name \notin Emitted => ~FunctionSound(f)
                      /\ f.name \in Emitted /\ ~FunctionSound(f) => f.body[FirstUnsound(f)].node = "Print"
  BY DEF LossHasAReason
<1> DEFINE f == source[k]
<1>2. k \in 1..(fn - 1)
  <2>1. source \in Seq(FunctionAST) /\ fn = Len(source) + 1
    BY <1>1 DEF LossInv, GenInv, Types, Verified
  <2> QED BY <2>1
<1>3. Explained(f, functions) /\ \A j \in DOMAIN functions : functions[j].ops # <<>>
  BY <1>1, <1>2 DEF LossInv, Past, Verified
<1>4. f.name \in Emitted <=> IsIn(f, functions)
  BY DEF Emitted, IsIn
<1> HIDE DEF f
<1>5. (f.name \notin Emitted => ~FunctionSound(f))
      /\ (f.name \in Emitted /\ ~FunctionSound(f) => f.body[FirstUnsound(f)].node = "Print")
  BY <1>3, <1>4 DEF Explained
<1> QED BY <1>5 DEF f

\* LossHasAReason, for every set of sources: MLIRGen.cpp drops a function only
\* for an error, and cuts one off only at a print.
THEOREM LossesExplained == Spec => []LossHasAReason
<1>1. Spec => []LossInv
  BY LossInit, LossNext, PTL DEF Spec
<1> QED BY <1>1, LossHolds, PTL
-----------------------------------------------------------------------------
(***************************************************************************)
(* What a sound module becomes.  The operations of a body in progress are  *)
(* without a return and a cast, a transpose has no shape yet, and there is *)
(* one print for each print of the text; so a function that is finished    *)
(* can fail the verifier by a matmul only.                                 *)
(***************************************************************************)
Plain(o) == \A i \in DOMAIN o : /\ o[i].kind # "cast"
                                /\ o[i].kind = "transpose" => ~o[i].type.ranked
Unclosed(o) == \A i \in DOMAIN o : o[i].kind # "return"
PrintsUpTo(f, k) == {j \in 1..k : f.body[j].node = "Print"}

Producing == stmt > 0 =>
  /\ Plain(ops) /\ Unclosed(ops)
  /\ Count(ops, "print") = Cardinality(PrintsUpTo(Current, stmt - 1))

AllSound == /\ DistinctNames(source)
            /\ \A k \in DOMAIN source : Distinct(source[k].params) /\ FunctionSound(source[k])

\* g is what the language makes of the function f.
Complete(f, g) ==
  /\ g.name = f.name
  /\ Count(g.ops, "print") = Cardinality({j \in Reached(f) : f.body[j].node = "Print"})
  /\ g.hasResult = \E j \in Reached(f) : f.body[j].node = "Return" /\ f.body[j].expr # None
  /\ Count(g.ops, "matmul") = 0 => FunctionVerifies(g)

Kept == AllSound => /\ Len(functions) = fn - 1
                    /\ \A k \in 1..(fn - 1) : Complete(source[k], functions[k])

Verdict == result # "none" =>
  /\ fn = Len(source) + 1
  /\ AllSound /\ result = "nullptr" => \E k \in DOMAIN functions : ~FunctionVerifies(functions[k])

AcceptInv == LossInv /\ Producing /\ Kept /\ Verdict
-----------------------------------------------------------------------------
(* Counting operations.                                                    *)
LEMMA CountIsNat ==
  ASSUME NEW o \in Seq(Op), NEW kind
  PROVE  /\ IsFiniteSet({i \in DOMAIN o : o[i].kind = kind}) /\ Count(o, kind) \in Nat
         /\ Count(o, kind) = 0 <=> \A i \in DOMAIN o : o[i].kind # kind
<1> DEFINE S == {i \in DOMAIN o : o[i].kind = kind}
<1>1. S \subseteq 1..Len(o) /\ Len(o) \in Nat
  OBVIOUS
<1>2. IsFiniteSet(S)
  <2>1. IsFiniteSet(1..Len(o))
    BY <1>1, FS_Interval
  <2> QED BY <1>1, <2>1, FS_Subset
<1>3. Cardinality(S) \in Nat /\ (Cardinality(S) = 0 <=> S = {})
  BY <1>2, FS_CardinalityType, FS_EmptySet
<1> QED BY <1>2, <1>3 DEF Count

LEMMA CountAppend ==
  ASSUME NEW o \in Seq(Op), NEW op \in Op, NEW kind
  PROVE  Count(Append(o, op), kind) = IF op.kind = kind THEN Count(o, kind) + 1 ELSE Count(o, kind)
<1> DEFINE p == Append(o, op)
           S == {i \in DOMAIN o : o[i].kind = kind}
           T == {i \in DOMAIN p : p[i].kind = kind}
<1>1. /\ DOMAIN o = 1..Len(o) /\ DOMAIN p = 1..(Len(o) + 1) /\ Len(o) \in Nat
      /\ \A i \in 1..Len(o) : p[i] = o[i]
      /\ p[Len(o) + 1] = op
  BY Appended
<1> HIDE DEF p
<1>2. T = IF op.kind = kind THEN S \cup {Len(o) + 1} ELSE S
  BY <1>1
<1>3. IsFiniteSet(S) /\ Len(o) + 1 \notin S
  <2>1. Len(o) + 1 \notin DOMAIN o
    BY <1>1
  <2> QED BY <2>1, CountIsNat
<1>4. Cardinality(S \cup {Len(o) + 1}) = Cardinality(S) + 1
  BY <1>3, FS_AddElement
<1>5. Count(o, kind) = Cardinality(S) /\ Count(p, kind) = Cardinality(T)
  BY DEF Count
<1> HIDE DEF S, T
<1> QED BY <1>2, <1>4, <1>5 DEF p

LEMMA PlainAppend ==
  ASSUME NEW o \in Seq(Op), NEW op \in Op, Plain(o), Unclosed(o), op.kind # "cast",
         op.kind = "transpose" => ~op.type.ranked
  PROVE  Plain(Append(o, op)) /\ (op.kind # "return" => Unclosed(Append(o, op)))
<1> DEFINE p == Append(o, op)
<1>1. /\ DOMAIN o = 1..Len(o) /\ DOMAIN p = 1..(Len(o) + 1) /\ Len(o) \in Nat
      /\ \A i \in 1..Len(o) : p[i] = o[i]
      /\ p[Len(o) + 1] = op
  BY Appended
<1> HIDE DEF p
<1>2. Plain(p)
  BY <1>1 DEF Plain
<1>3. op.kind # "return" => Unclosed(p)
  BY <1>1 DEF Unclosed
<1> QED BY <1>2, <1>3 DEF p

LEMMA PrintsGrow ==
  ASSUME NEW f, NEW k \in Nat \ {0}
  PROVE  Cardinality(PrintsUpTo(f, k)) = IF f.body[k].node = "Print" THEN Cardinality(PrintsUpTo(f, k - 1)) + 1
                                         ELSE Cardinality(PrintsUpTo(f, k - 1))
<1> DEFINE S == PrintsUpTo(f, k - 1)
<1>1. PrintsUpTo(f, k) = IF f.body[k].node = "Print" THEN S \cup {k} ELSE S
  <2>1. 1..k = 1..(k - 1) \cup {k}
    OBVIOUS
  <2> QED BY <2>1 DEF PrintsUpTo
<1>2. IsFiniteSet(S) /\ k \notin S
  <2>1. IsFiniteSet(1..(k - 1)) /\ S \subseteq 1..(k - 1) /\ k \notin 1..(k - 1)
    BY FS_Interval DEF PrintsUpTo
  <2> QED BY <2>1, FS_Subset
<1>3. Cardinality(S \cup {k}) = Cardinality(S) + 1
  BY <1>2, FS_AddElement
<1> HIDE DEF S
<1> QED BY <1>1, <1>3 DEF S
-----------------------------------------------------------------------------
(* The operations in progress.                                             *)
LEMMA EmitProduces ==
  ASSUME AcceptInv, stack # <<>>, NEW kind \in Kinds \ (NoResult \cup {"cast"}), NEW type \in Type,
         kind = "transpose" => ~type.ranked, Emit(kind, type)
  PROVE  Producing'
<1> DEFINE op == Operation(kind, Top.values, type)
<1>1. Top.values \in Seq(Nat) /\ ops \in Seq(Op) /\ InBody
  BY TopShape DEF AcceptInv, LossInv, GenInv, Types, Place
<1>2. op \in Op /\ op.kind = kind /\ op.type = type
  BY <1>1 DEF Operation, Op
<1>3. ops' = Append(ops, op) /\ UNCHANGED <<source, fn, stmt>>
  BY DEF Emit, Yield
<1>4. Plain(ops) /\ Unclosed(ops) /\ Count(ops, "print") = Cardinality(PrintsUpTo(Current, stmt - 1)) /\ stmt > 0
  BY <1>1 DEF AcceptInv, Producing, InBody
<1> HIDE DEF op
<1>5. kind # "cast" /\ kind # "return" /\ kind # "print"
  BY DEF NoResult
<1>6. Plain(ops') /\ Unclosed(ops') /\ Count(ops', "print") = Count(ops, "print")
  BY <1>1, <1>2, <1>3, <1>4, <1>5, PlainAppend, CountAppend
<1> QED BY <1>3, <1>4, <1>6 DEF Producing, Current

LEMMA ExpressionProduces ==
  ASSUME AcceptInv, GenNumber \/ GenLiteral \/ GenVariable \/ GenBinary \/ GenCall \/ Unhandled
  PROVE  Producing'
<1>1. stack # <<>>
  BY DEF GenNumber, GenLiteral, GenVariable, GenBinary, GenCall, Unhandled, Generating
<1>2. UNCHANGED <<source, fn, stmt, ops>> => Producing'
  BY DEF AcceptInv, Producing, Current
<1>3. /\ "constant" \in Kinds \ (NoResult \cup {"cast"}) /\ "generic_call" \in Kinds \ (NoResult \cup {"cast"})
      /\ "transpose" \in Kinds \ (NoResult \cup {"cast"})
      /\ \A x \in {"add", "mul", "matmul"} : x \in Kinds \ (NoResult \cup {"cast"}) /\ x # "transpose"
  BY DEF Kinds, NoResult, Inferable
<1>4. ~Unranked.ranked /\ Unranked \in Type /\ Tensor(<<>>) \in Type
  BY TypesIn DEF Unranked
<1>5. CASE GenNumber
  <2>1. Emit("constant", Tensor(<<>>))
    BY <1>5 DEF GenNumber
  <2> QED BY <2>1, <1>1, <1>3, <1>4, EmitProduces
<1>6. CASE GenLiteral
  <2>1. Emit("constant", Tensor(Top.expr.dims)) /\ Top.expr.node = "Literal"
    BY <1>6 DEF GenLiteral, Generating
  <2>2. Top.expr \in Node
    BY <1>1, TopShape DEF AcceptInv, LossInv, GenInv, Types
  <2>3. Tensor(Top.expr.dims) \in Type
    BY <2>1, <2>2, SourceNodes, TypesIn
  <2> QED BY <2>1, <2>3, <1>1, <1>3, EmitProduces
<1>7. CASE GenVariable
  BY <1>2, <1>7 DEF GenVariable, Yield, Fail
<1>8. CASE GenBinary
  <2>1. CASE Top.expr.op \in DOMAIN BinaryOps
    <3>1. Emit(BinaryOps[Top.expr.op], Unranked)
      BY <1>8, <2>1 DEF GenBinary
    <3>2. BinaryOps[Top.expr.op] \in {"add", "mul", "matmul"}
      BY <2>1 DEF BinaryOps
    <3> QED BY <3>1, <3>2, <1>1, <1>3, <1>4, EmitProduces
  <2>2. CASE Top.expr.op \notin DOMAIN BinaryOps
    BY <1>2, <1>8, <2>2 DEF GenBinary, Fail
  <2> QED BY <2>1, <2>2
<1>9. CASE GenCall
  <2>1. Emit("generic_call", Unranked) \/ Emit("transpose", Unranked) \/ Fail
    BY <1>9 DEF GenCall
  <2>2. Fail => Producing'
    BY <1>2 DEF Fail
  <2> QED BY <2>1, <2>2, <1>1, <1>3, <1>4, EmitProduces
<1>10. CASE Unhandled
  BY <1>2, <1>10 DEF Unhandled, Fail
<1> QED BY <1>5, <1>6, <1>7, <1>8, <1>9, <1>10

\* A statement that adds op to the operations, or nothing.
LEMMA StepToProduces ==
  ASSUME AcceptInv, InBody, NEW table, NEW o, StepTo(table, o),
         \/ o = ops /\ Statement.node # "Print"
         \/ \E op \in Op : /\ o = Append(ops, op)
                           /\ op.kind \notin {"cast", "return", "transpose"}
                           /\ op.kind = "print" <=> Statement.node = "Print"
  PROVE  Producing'
<1>1. ops' = o /\ stmt' = stmt + 1 /\ UNCHANGED <<source, fn>>
  BY DEF StepTo
<1>2. stmt \in Nat \ {0} /\ Statement = Current.body[stmt] /\ ops \in Seq(Op)
  BY ScopeFacts DEF AcceptInv, LossInv, GenInv, Types
<1>3. Plain(ops) /\ Unclosed(ops) /\ Count(ops, "print") = Cardinality(PrintsUpTo(Current, stmt - 1))
  BY <1>2 DEF AcceptInv, Producing
<1>4. Plain(o) /\ Unclosed(o)
      /\ Count(o, "print") = IF Statement.node = "Print" THEN Count(ops, "print") + 1 ELSE Count(ops, "print")
  <2>1. CASE o = ops /\ Statement.node # "Print"
    BY <1>3, <2>1
  <2>2. ASSUME NEW op \in Op, o = Append(ops, op), op.kind \notin {"cast", "return", "transpose"},
               op.kind = "print" <=> Statement.node = "Print"
        PROVE  Plain(o) /\ Unclosed(o)
               /\ Count(o, "print") = IF Statement.node = "Print" THEN Count(ops, "print") + 1 ELSE Count(ops, "print")
    BY <1>2, <1>3, <2>2, PlainAppend, CountAppend
  <2> QED BY <2>1, <2>2
<1>5. Count(o, "print") = Cardinality(PrintsUpTo(Current, stmt))
  BY <1>2, <1>3, <1>4, PrintsGrow
<1>6. stmt' - 1 = stmt /\ Current' = Current
  BY <1>1, <1>2 DEF Current
<1>7. PrintsUpTo(Current', stmt' - 1) = PrintsUpTo(Current, stmt)
  BY <1>6
<1> QED BY <1>1, <1>4, <1>5, <1>7 DEF Producing
-----------------------------------------------------------------------------
(* The functions that are finished.                                        *)
LEMMA Completes ==
  ASSUME NEW f, NEW o \in Seq(Op), NEW op \in Op, Plain(o), Unclosed(o), op.kind = "return",
         Count(o, "print") = Cardinality({j \in Reached(f) : f.body[j].node = "Print"}),
         (op.ins # <<>>) = (\E j \in Reached(f) : f.body[j].node = "Return" /\ f.body[j].expr # None)
  PROVE  Complete(f, FuncOp(f.name, Append(o, op), op.ins # <<>>))
<1> DEFINE p == Append(o, op)
           g == FuncOp(f.name, p, op.ins # <<>>)
<1>1. g.name = f.name /\ g.ops = p /\ g.hasResult = (op.ins # <<>>)
  BY DEF FuncOp
<1>2. /\ p \in Seq(Op) /\ p # <<>> /\ Len(p) = Len(o) + 1 /\ DOMAIN p = 1..(Len(o) + 1) /\ Len(o) \in Nat
      /\ \A i \in 1..Len(o) : p[i] = o[i] /\ i \in DOMAIN o
      /\ p[Len(o) + 1] = op
  BY Appended
<1>3. Count(p, "print") = Count(o, "print") /\ Plain(p)
  BY CountAppend, PlainAppend
<1> HIDE DEF p, g
<1>4. ASSUME Count(p, "matmul") = 0 PROVE FunctionVerifies(g)
  <2>1. \A i \in DOMAIN p : p[i].kind # "matmul"
    BY <1>2, <1>4, CountIsNat
  <2>2. \A i \in DOMAIN p : p[i].kind = "return" => i = Len(p) /\ p[i].ins = op.ins
    BY <1>2 DEF Unclosed
  <2>3. ASSUME NEW i \in DOMAIN p, NEW ts PROVE Verifies(p[i].kind, ts, p[i].type)
    <3>1. p[i].kind # "cast" /\ (p[i].kind = "transpose" => ~p[i].type.ranked)
      BY <1>3 DEF Plain
    <3> QED BY <2>1, <3>1 DEF Verifies
  <2>4. p[Len(p)].kind = "return"
    BY <1>2
  <2> QED BY <1>1, <1>2, <2>2, <2>3, <2>4 DEF FunctionVerifies
<1> QED BY <1>1, <1>3, <1>4 DEF Complete, p, g

\* Whatever ends a body puts one return behind the operations in progress.
LEMMA FinishAs ==
  ASSUME ops \in Seq(Op), Unclosed(ops), NEW ins \in Seq(Nat),
         Finish(ReturnOf(ins)) \/ (ins = <<>> /\ Finish(ops))
  PROVE  LET op == Operation("return", ins, Unranked) IN
         /\ op \in Op /\ op.kind = "return" /\ op.ins = ins
         /\ functions' = Append(functions, FuncOp(Current.name, Append(ops, op), op.ins # <<>>))
         /\ NextFunction /\ source' = source
<1> DEFINE op == Operation("return", ins, Unranked)
           p == Append(ops, op)
<1>1. op \in Op /\ op.kind = "return" /\ op.ins = ins
  BY TypesIn DEF Operation, Op, Kinds, NoResult
<1> HIDE DEF op
<1>2. p # <<>> /\ p[Len(p)] = op
  <2>1. Len(p) = Len(ops) + 1 /\ p[Len(ops) + 1] = op /\ p # <<>>
    BY <1>1, Appended
  <2> QED BY <2>1
<1> HIDE DEF p
<1>3. CASE Finish(ReturnOf(ins))
  <2>1. ReturnOf(ins) = p
    BY DEF ReturnOf, p, op
  <2>2. functions' = Append(functions, FuncOp(Current.name, p, op.ins # <<>>)) /\ NextFunction /\ source' = source
    BY <1>1, <1>2, <1>3, <2>1 DEF Finish
  <2> QED BY <1>1, <2>2 DEF op, p
<1>4. CASE ins = <<>> /\ Finish(ops)
  <2>1. ~(ops # <<>> /\ ops[Len(ops)].kind = "return")
    <3>1. ops # <<>> => Len(ops) \in DOMAIN ops
      OBVIOUS
    <3> QED BY <3>1 DEF Unclosed
  <2>2. Append(ops, Operation("return", <<>>, Unranked)) = p
    BY <1>4 DEF p, op
  <2>3. functions' = Append(functions, FuncOp(Current.name, p, op.ins # <<>>)) /\ NextFunction /\ source' = source
    BY <1>1, <1>2, <1>4, <2>1, <2>2 DEF Finish
  <2> QED BY <1>1, <2>3 DEF op, p
<1> QED BY <1>3, <1>4

LEMMA LeaveKept ==
  ASSUME AcceptInv, fn <= Len(source), NextFunction, source' = source, NEW g \in Function,
         functions' = Append(functions, g), AllSound => Complete(Current, g)
  PROVE  Kept'
<1>1. /\ fn' = fn + 1 /\ fn \in Nat \ {0} /\ functions \in Seq(Function) /\ Current = source[fn]
      /\ AllSound' = AllSound
  BY DEF NextFunction, AcceptInv, LossInv, GenInv, Types, Current, AllSound
<1>2. SUFFICES ASSUME AllSound
               PROVE  /\ Len(functions') = fn
                      /\ \A k \in 1..fn : Complete(source[k], functions'[k])
  <2>1. fn' - 1 = fn
    BY <1>1
  <2> QED BY <1>1, <2>1 DEF Kept
<1>3. Len(functions) = fn - 1 /\ \A k \in 1..(fn - 1) : Complete(source[k], functions[k])
  BY <1>2 DEF AcceptInv, Kept
<1>4. /\ Len(functions') = Len(functions) + 1 /\ functions'[Len(functions) + 1] = g
      /\ \A k \in 1..Len(functions) : functions'[k] = functions[k]
  BY <1>1, Appended
<1>5. Len(functions') = fn /\ functions'[fn] = g /\ \A k \in 1..(fn - 1) : functions'[k] = functions[k]
  BY <1>1, <1>3, <1>4
<1>6. \A k \in 1..fn : k = fn \/ k \in 1..(fn - 1)
  BY <1>1
<1> QED BY <1>1, <1>2, <1>3, <1>5, <1>6

\* The end of a body, by a return or not: m is the last statement reached.
LEMMA FinishKept ==
  ASSUME AcceptInv, fn <= Len(source), stmt > 0, NEW ins \in Seq(Nat),
         Finish(ReturnOf(ins)) \/ (ins = <<>> /\ Finish(ops)),
         NEW m \in Nat, Reached(Current) = 1..m,
         Cardinality(PrintsUpTo(Current, m)) = Cardinality(PrintsUpTo(Current, stmt - 1)),
         (ins # <<>>) = (\E j \in 1..m : Current.body[j].node = "Return" /\ Current.body[j].expr # None)
  PROVE  Kept' /\ Producing'
<1> DEFINE op == Operation("return", ins, Unranked)
           p == Append(ops, op)
           b == op.ins # <<>>
           g == FuncOp(Current.name, p, b)
<1>1. /\ ops \in Seq(Op) /\ Plain(ops) /\ Unclosed(ops) /\ Current.name \in STRING
      /\ Count(ops, "print") = Cardinality(PrintsUpTo(Current, stmt - 1))
  BY CurrentShape DEF AcceptInv, LossInv, GenInv, Types, Producing
<1>2. /\ op \in Op /\ op.kind = "return" /\ op.ins = ins
      /\ functions' = Append(functions, g) /\ NextFunction /\ source' = source
  BY <1>1, FinishAs
<1>3. {j \in Reached(Current) : Current.body[j].node = "Print"} = PrintsUpTo(Current, m)
  BY DEF PrintsUpTo
<1> HIDE DEF op
<1>4. Complete(Current, g)
  BY <1>1, <1>2, <1>3, Completes
<1>5. g \in Function
  <2>1. p \in Seq(Op) /\ b \in BOOLEAN
    BY <1>1, <1>2, Appended
  <2> QED BY <1>1, <2>1 DEF FuncOp, Function
<1> HIDE DEF g
<1>6. Kept'
  BY <1>2, <1>4, <1>5, LeaveKept
<1> QED BY <1>2, <1>6 DEF NextFunction, Producing

\* A function that is not sound as a whole asks nothing of what has become of it.
LEMMA UnsoundKept ==
  ASSUME AcceptInv, fn <= Len(source), ~FunctionSound(Current), NextFunction, source' = source
  PROVE  Kept' /\ Producing'
<1>1. ~AllSound
  BY CurrentShape DEF AllSound, Current, AcceptInv, LossInv, GenInv
<1>2. ~AllSound'
  BY <1>1 DEF AllSound
<1> QED BY <1>2 DEF Kept, NextFunction, Producing
-----------------------------------------------------------------------------
(* The statements of a sound module.                                       *)
LEMMA StepToKept ==
  ASSUME AcceptInv, NEW table, NEW o, StepTo(table, o)
  PROVE  Kept'
BY DEF StepTo, AcceptInv, Kept, AllSound

LEMMA EraseKept ==
  ASSUME AcceptInv, InBody, Erase, ~StatementSound(Current, stmt)
  PROVE  Kept' /\ Producing'
<1>1. fn <= Len(source) /\ ~FunctionSound(Current)
  BY ScopeFacts, UnsoundHere DEF AcceptInv
<1> QED BY <1>1, UnsoundKept DEF Erase

LEMMA VarDeclKept ==
  ASSUME AcceptInv, VarDecl
  PROVE  Kept' /\ Producing'
<1>1. Returned /\ InBody /\ stack = <<>> /\ Statement.node = "VarDecl" /\ LossInv
  BY DEF VarDecl, Returned, AcceptInv
<1>2. Statement.shape \in Seq(Nat)
  BY <1>1, StatementShape, SourceNodes DEF LossInv, GenInv
<1> DEFINE op == Operation("reshape", <<value>>, GetType(Statement.shape))
           reshaped == IF Statement.shape = <<>> THEN ops ELSE Append(ops, op)
           declared == IF Statement.shape = <<>> THEN value ELSE Len(reshaped)
           table == Declare(symbolTable, Statement.name, declared)
<1>3. CASE value # Null /\ Statement.name \notin DOMAIN symbolTable
  <2>1. StepTo(table, reshaped)
    BY <1>3 DEF VarDecl
  <2>2. op \in Op /\ op.kind = "reshape"
    <3>1. value \in Nat /\ <<value>> \in Seq(Nat)
      <4>1. value \in Nat
        BY <1>1, <1>3, ValuesIn DEF Returned, LossInv, GenInv, Types, Operable
      <4> QED BY <4>1
    <3>2. GetType(Statement.shape) \in Type /\ "reshape" \in Kinds
      BY <1>2, TypesIn DEF Kinds
    <3> QED BY <3>1, <3>2 DEF Operation, Op
  <2> HIDE DEF table, op
  <2>3. Producing'
    <3>1. CASE Statement.shape = <<>>
      BY <1>1, <2>1, <3>1, StepToProduces
    <3>2. CASE Statement.shape # <<>>
      <4>1. reshaped = Append(ops, op)
        BY <3>2
      <4> HIDE DEF reshaped
      <4> QED BY <1>1, <2>1, <2>2, <4>1, StepToProduces
    <3> QED BY <3>1, <3>2
  <2> HIDE DEF reshaped
  <2> QED BY <2>1, <2>3, StepToKept
<1>4. CASE ~(value # Null /\ Statement.name \notin DOMAIN symbolTable)
  <2>1. Erase
    BY <1>4 DEF VarDecl
  <2>2. ~StatementSound(Current, stmt)
    BY <1>1, <1>4, ValueTells
  <2> QED BY <1>1, <2>1, <2>2, EraseKept
<1> QED BY <1>3, <1>4

LEMMA ReturnReached ==
  ASSUME LossInv, InBody, Statement.node = "Return"
  PROVE  /\ Reached(Current) = 1..stmt /\ stmt \in Nat /\ fn <= Len(source) /\ stmt > 0
         /\ Cardinality(PrintsUpTo(Current, stmt)) = Cardinality(PrintsUpTo(Current, stmt - 1))
         /\ \A j \in 1..stmt : Current.body[j].node = "Return" <=> j = stmt
<1>1. /\ stmt \in Nat \ {0} /\ stmt \in DOMAIN Current.body /\ Current.body \in Seq(Node)
      /\ fn <= Len(source) /\ Statement = Current.body[stmt]
      /\ \A j \in 1..(stmt - 1) : Current.body[j].node # "Return"
  BY ScopeFacts
<1>2. \A j \in 1..stmt : Current.body[j].node = "Return" <=> j = stmt
  BY <1>1
<1>3. ASSUME NEW k PROVE k \in Reached(Current) <=> k \in 1..stmt
  <2>1. DOMAIN Current.body = 1..Len(Current.body)
    BY <1>1
  <2>2. CASE k \in 1..stmt
    <3>1. k \in DOMAIN Current.body /\ \A j \in 1..(k - 1) : j \in 1..(stmt - 1)
      BY <1>1, <2>1, <2>2
    <3> QED BY <1>1, <2>2, <3>1 DEF Reached
  <2>3. CASE k \in Reached(Current)
    <3>1. k \in DOMAIN Current.body /\ \A j \in 1..(k - 1) : Current.body[j].node # "Return"
      BY <2>3 DEF Reached
    <3>2. stmt \notin 1..(k - 1)
      BY <1>1, <3>1
    <3>3. k \in Nat \ {0}
      BY <2>1, <3>1
    <3>4. ~(stmt < k)
      BY <1>1, <3>2, <3>3
    <3> QED BY <1>1, <2>3, <3>3, <3>4
  <2> QED BY <2>2, <2>3
<1>4. Cardinality(PrintsUpTo(Current, stmt)) = Cardinality(PrintsUpTo(Current, stmt - 1))
  BY <1>1, PrintsGrow
<1>5. Reached(Current) = 1..stmt
  <2> DEFINE R == Reached(Current)
             S == 1..stmt
  <2>1. \A k : k \in R <=> k \in S
    BY <1>3
  <2> HIDE DEF R, S
  <2>2. R = S
    BY <2>1
  <2> QED BY <2>2 DEF R, S
<1>6. stmt \in Nat /\ stmt > 0
  BY <1>1
<1> QED BY <1>1, <1>2, <1>4, <1>5, <1>6

LEMMA ReturnKept ==
  ASSUME AcceptInv, Return
  PROVE  Kept' /\ Producing'
<1>1. InBody /\ stack = <<>> /\ Statement.node = "Return" /\ LossInv
  BY DEF Return, AcceptInv
<1>2. /\ Reached(Current) = 1..stmt /\ stmt \in Nat /\ fn <= Len(source) /\ stmt > 0
      /\ Cardinality(PrintsUpTo(Current, stmt)) = Cardinality(PrintsUpTo(Current, stmt - 1))
      /\ \A j \in 1..stmt : Current.body[j].node = "Return" <=> j = stmt
  BY <1>1, ReturnReached
<1>3. Statement = Current.body[stmt] /\ stmt \in 1..stmt
  BY <1>2 DEF Statement
<1>4. (\E j \in 1..stmt : Current.body[j].node = "Return" /\ Current.body[j].expr # None) <=> Statement.expr # None
  BY <1>1, <1>2, <1>3
<1>5. CASE Statement.expr = None /\ Finish(ReturnOf(<<>>))
  <2>1. <<>> \in Seq(Nat)
    OBVIOUS
  <2>2. (<<>> # <<>>) = (\E j \in 1..stmt : Current.body[j].node = "Return" /\ Current.body[j].expr # None)
    BY <1>4, <1>5
  <2> QED BY <1>2, <1>5, <2>1, <2>2, FinishKept
<1>6. CASE value > Null /\ Finish(ReturnOf(<<value>>))
  <2>1. value # Pending /\ value \in Nat
    BY <1>1, <1>6 DEF LossInv, GenInv, Types, Pending, Null
  <2>2. Statement.expr # None
    BY <1>1, <2>1 DEF LossInv, Judged, HasExpression
  <2> DEFINE ins == <<value>>
  <2>3. ins \in Seq(Nat) /\ ins # <<>> /\ Finish(ReturnOf(ins))
    BY <1>6, <2>1
  <2> HIDE DEF ins
  <2>4. (ins # <<>>) = (\E j \in 1..stmt : Current.body[j].node = "Return" /\ Current.body[j].expr # None)
    BY <1>4, <2>2, <2>3
  <2> QED BY <1>2, <2>3, <2>4, FinishKept
<1>7. CASE value = Null /\ Erase
  <2>1. ~StatementSound(Current, stmt)
    BY <1>1, <1>7, ValueTells DEF Returned, Null, Pending
  <2> QED BY <1>1, <1>7, <2>1, EraseKept
<1> QED BY <1>5, <1>6, <1>7 DEF Return

LEMMA PrintKept ==
  ASSUME AcceptInv, PrintStatement
  PROVE  Kept' /\ Producing'
<1>1. Returned /\ InBody /\ stack = <<>> /\ Statement.node = "Print" /\ LossInv
  BY DEF PrintStatement, Returned, AcceptInv
<1>2. CASE value # Null
  <2> DEFINE op == Operation("print", <<value>>, Unranked)
  <2>1. StepTo(symbolTable, Append(ops, op))
    BY <1>2 DEF PrintStatement
  <2>2. op \in Op /\ op.kind = "print"
    <3>1. value \in Nat
      BY <1>1, <1>2, ValuesIn DEF Returned, LossInv, GenInv, Types, Operable
    <3>2. <<value>> \in Seq(Nat) /\ Unranked \in Type /\ "print" \in Kinds
      BY <3>1, TypesIn DEF Kinds, NoResult
    <3> QED BY <3>2 DEF Operation, Op
  <2> HIDE DEF op
  <2> QED BY <1>1, <2>1, <2>2, StepToProduces, StepToKept
<1>3. CASE value = Null
  <2>1. ~StatementSound(Current, stmt) /\ Finish(ops)
    BY <1>1, <1>3, ValueTells DEF PrintStatement
  <2>2. fn <= Len(source) /\ ~FunctionSound(Current)
    BY <1>1, <2>1, ScopeFacts, UnsoundHere
  <2> QED BY <2>1, <2>2, UnsoundKept DEF Finish
<1> QED BY <1>2, <1>3

LEMMA StatementStepKept ==
  ASSUME AcceptInv, Expression \/ EndBody
  PROVE  Kept' /\ Producing'
<1>1. LossInv
  BY DEF AcceptInv
<1>2. CASE Expression
  <2>1. Returned /\ InBody /\ Statement.node \notin {"VarDecl", "Return", "Print"}
    BY <1>2 DEF Expression, Returned
  <2>2. StatementSound(Current, stmt) <=> value # Null
    BY <1>1, <2>1, ValueTells
  <2>3. IF value # Null THEN StepTo(symbolTable, ops) ELSE Erase
    BY <1>2 DEF Expression
  <2> QED BY <2>1, <2>2, <2>3, StepToProduces, StepToKept, EraseKept
<1>3. CASE EndBody
  <2>1. stmt > Len(Current.body) /\ Finish(ops) /\ stmt \in Nat \ {0} /\ fn <= Len(source)
    BY <1>1, <1>3 DEF EndBody, LossInv, GenInv, Types
  <2>2. ScopeOf(Current, stmt, DOMAIN symbolTable)
    BY <1>1, <2>1 DEF LossInv, BeforeReturn
  <2>3. DOMAIN Current.body = 1..(stmt - 1) /\ \A j \in 1..(stmt - 1) : Current.body[j].node # "Return"
    <3>1. Current.body \in Seq(Node)
      BY <1>1, <2>1, CurrentShape DEF LossInv, GenInv
    <3> QED BY <2>1, <2>2, <3>1 DEF ScopeOf
  <2>4. Reached(Current) = 1..(stmt - 1)
    <3>1. \A k \in 1..(stmt - 1) : 1..(k - 1) \subseteq 1..(stmt - 1)
      BY <2>1
    <3> QED BY <2>3, <3>1 DEF Reached
  <2>5. (<<>> # <<>>) = (\E j \in 1..(stmt - 1) : Current.body[j].node = "Return" /\ Current.body[j].expr # None)
    BY <2>3
  <2>6. <<>> \in Seq(Nat) /\ stmt - 1 \in Nat /\ stmt > 0
    BY <2>1
  <2> QED BY <2>1, <2>4, <2>5, <2>6, FinishKept
<1> QED BY <1>2, <1>3

LEMMA BeginFunctionKept ==
  ASSUME AcceptInv, BeginFunction
  PROVE  Kept' /\ Producing'
<1> DEFINE op == Operation("arg", <<>>, Unranked)
<1>1. /\ stmt = 0 /\ fn <= Len(source) /\ ops' = Arguments(Current.params) /\ stmt' = 1
      /\ UNCHANGED <<source, fn, functions>>
  BY DEF BeginFunction
<1>2. Current.params \in Seq(STRING)
  BY <1>1, CurrentShape DEF AcceptInv, LossInv, GenInv
<1>3. /\ ops' \in Seq(Op) /\ DOMAIN ops' = DOMAIN Current.params
      /\ \A i \in DOMAIN ops' : ops'[i].kind = "arg"
  <2>1. /\ ops' \in Seq(Op) /\ Len(ops') = Len(Current.params)
        /\ \A i \in DOMAIN Current.params : ops'[i] = op
    BY <1>1, <1>2, ArgumentsShape
  <2>2. op.kind = "arg"
    BY DEF Operation
  <2> HIDE DEF op
  <2>3. DOMAIN ops' = DOMAIN Current.params
    BY <1>2, <2>1
  <2> QED BY <2>1, <2>2, <2>3
<1>4. Plain(ops') /\ Unclosed(ops') /\ Count(ops', "print") = 0
  <2>1. Plain(ops') /\ Unclosed(ops')
    BY <1>3 DEF Plain, Unclosed
  <2> QED BY <1>3, <2>1, CountIsNat
<1>5. Cardinality(PrintsUpTo(Current', 0)) = 0
  <2>1. PrintsUpTo(Current', 0) = {}
    BY DEF PrintsUpTo
  <2> QED BY <2>1, FS_EmptySet
<1>6. Producing'
  <2>1. stmt' - 1 = 0
    BY <1>1
  <2> QED BY <1>4, <1>5, <2>1 DEF Producing
<1>7. Kept'
  BY <1>1 DEF AcceptInv, Kept, AllSound
<1> QED BY <1>6, <1>7

LEMMA RepeatedKept ==
  ASSUME AcceptInv, RepeatedParameter
  PROVE  Kept' /\ Producing'
<1>1. /\ stmt = 0 /\ fn <= Len(source) /\ NextFunction /\ source' = source
      /\ ~(Distinct(Current.params) /\ Elements(Current.params) \cap DOMAIN symbolTable = {})
  BY DEF RepeatedParameter
<1>2. symbolTable = <<>>
  BY <1>1 DEF AcceptInv, LossInv, GenInv, Place
<1>3. ~Distinct(Current.params) /\ fn \in DOMAIN source
  BY <1>1, <1>2, CurrentShape DEF AcceptInv, LossInv, GenInv
<1>4. ~AllSound'
  BY <1>1, <1>3 DEF AllSound, Current
<1> QED BY <1>1, <1>4 DEF Kept, Producing, NextFunction
-----------------------------------------------------------------------------
(* Sound modules are accepted.                                             *)
LEMMA AcceptInit == Init => AcceptInv
<1>1. SUFFICES ASSUME Init PROVE AcceptInv
  OBVIOUS
<1>2. LossInv /\ Producing /\ Verdict
  BY <1>1, LossInit DEF Init, Producing, Verdict
<1>3. Kept
  <2>1. Len(functions) = 0 /\ fn - 1 = 0
    BY <1>1 DEF Init
  <2>2. 1..(fn - 1) = {}
    BY <2>1
  <2> QED BY <2>1, <2>2 DEF Kept
<1> QED BY <1>2, <1>3 DEF AcceptInv

LEMMA VerdictStep ==
  ASSUME AcceptInv, VerifyModule
  PROVE  Verdict'
<1>1. /\ result = "none" /\ fn > Len(source)
      /\ UNCHANGED <<source, fn, stmt, symbolTable, stack, value, ops, functions>>
      /\ result' = IF /\ DistinctNames(functions)
                      /\ \A k \in DOMAIN functions : FunctionVerifies(functions[k])
                   THEN "module" ELSE "nullptr"
  BY DEF VerifyModule
<1>2. fn = Len(source) + 1 /\ Len(source) \in Nat /\ DOMAIN source = 1..Len(source) /\ DOMAIN functions = 1..Len(functions)
  <2>1. fn \in 1..(Len(source) + 1) /\ source \in Seq(FunctionAST) /\ functions \in Seq(Function)
    BY DEF AcceptInv, LossInv, GenInv, Types
  <2> QED BY <1>1, <2>1
<1>3. ASSUME AllSound, result' = "nullptr" PROVE \E k \in DOMAIN functions : ~FunctionVerifies(functions[k])
  <2>1. Len(functions) = Len(source) /\ \A k \in 1..Len(source) : functions[k].name = source[k].name
    <3>1. fn - 1 = Len(source)
      BY <1>2
    <3> QED BY <1>3, <3>1 DEF AcceptInv, Kept, Complete
  <2>2. \A j, k \in DOMAIN source : source[j].name = source[k].name => j = k
    BY <1>3 DEF AllSound, DistinctNames, Distinct
  <2>3. DistinctNames(functions)
    BY <1>2, <2>1, <2>2 DEF DistinctNames, Distinct
  <2> QED BY <1>1, <1>3, <2>3
<1> QED BY <1>1, <1>2, <1>3 DEF Verdict, AllSound

LEMMA AcceptNext == AcceptInv /\ [Next]_vars => AcceptInv'
<1>1. SUFFICES ASSUME AcceptInv, [Next]_vars PROVE AcceptInv'
  OBVIOUS
<1>2. LossInv'
  BY <1>1, LossNext DEF AcceptInv
<1>3. UNCHANGED <<source, functions, fn>> => Kept'
  BY <1>1 DEF AcceptInv, Kept, AllSound
<1>4. UNCHANGED <<source, fn, stmt, ops>> => Producing'
  BY <1>1 DEF AcceptInv, Producing, Current
<1>5. CASE VerifyModule
  <2>1. UNCHANGED <<source, fn, stmt, symbolTable, stack, value, ops, functions>>
    BY <1>5 DEF VerifyModule
  <2> QED BY <1>1, <1>2, <1>3, <1>4, <1>5, <2>1, VerdictStep DEF AcceptInv
<1>6. CASE UNCHANGED vars
  BY <1>1, <1>2, <1>3, <1>4, <1>6 DEF AcceptInv, vars, Verdict, AllSound
<1>7. ASSUME ~VerifyModule, Next PROVE AcceptInv'
  <2>1. result = "none" /\ result' = result
    <3>1. InBody => result = "none"
      BY DEF InBody
    <3>2. stack # <<>> => InBody
      BY <1>1 DEF AcceptInv, LossInv, GenInv, Place
    <3>3. CASE BeginFunction \/ RepeatedParameter \/ Begin \/ GenOperand
      BY <3>1, <3>2, <3>3 DEF BeginFunction, RepeatedParameter, Begin, GenOperand
    <3>4. CASE GenNumber \/ GenLiteral \/ GenVariable \/ GenBinary \/ GenCall \/ Unhandled
      BY <3>1, <3>2, <3>4 DEF GenNumber, GenLiteral, GenVariable, GenBinary, GenCall, Unhandled,
         Generating, Emit, Yield, Fail
    <3>5. CASE VarDecl \/ Return \/ PrintStatement \/ Expression \/ EndBody
      BY <3>1, <3>5 DEF VarDecl, Return, PrintStatement, Expression, EndBody, Returned, StepTo, Erase, Finish
    <3> QED BY <1>7, <3>3, <3>4, <3>5 DEF Next
  <2>2. Verdict'
    BY <2>1 DEF Verdict
  <2>3. Kept' /\ Producing' => AcceptInv'
    BY <1>2, <2>2 DEF AcceptInv
  <2>4. CASE Begin \/ GenOperand
    BY <1>3, <1>4, <2>3, <2>4 DEF Begin, GenOperand
  <2>5. CASE GenNumber \/ GenLiteral \/ GenVariable \/ GenBinary \/ GenCall \/ Unhandled
    <3>1. UNCHANGED <<source, functions, fn>>
      BY <1>1, <2>5, ExpressionSound DEF AcceptInv
    <3> QED BY <1>1, <1>3, <2>3, <2>5, <3>1, ExpressionProduces
  <2> QED
    BY <1>1, <1>7, <1>3, <1>4, <2>3, <2>4, <2>5, BeginFunctionKept, RepeatedKept, VarDeclKept, ReturnKept,
       PrintKept, StatementStepKept DEF Next
<1> QED BY <1>1, <1>5, <1>6, <1>7

\* A sound module is accepted with all that is in it, unless matrices may not fit.
LEMMA AcceptHolds == AcceptInv => SoundIsAccepted
<1>1. SUFFICES ASSUME AcceptInv, result # "none", AllSound PROVE
        /\ Len(functions) = Len(source)
        /\ \A k \in DOMAIN source : Complete(source[k], functions[k])
        /\ result = "nullptr" => \E k \in DOMAIN functions : Count(functions[k].ops, "matmul") > 0
  BY DEF SoundIsAccepted, AllSound, Complete
<1>2. /\ fn = Len(source) + 1 /\ DOMAIN source = 1..Len(source) /\ functions \in Seq(Function)
      /\ DOMAIN functions = 1..Len(functions) /\ Len(source) \in Nat
  <2>1. source \in Seq(FunctionAST) /\ functions \in Seq(Function)
    BY <1>1 DEF AcceptInv, LossInv, GenInv, Types
  <2> QED BY <1>1, <2>1 DEF AcceptInv, Verdict
<1>3. Len(functions) = Len(source) /\ \A k \in 1..Len(source) : Complete(source[k], functions[k])
  <2>1. fn - 1 = Len(source)
    BY <1>2
  <2> QED BY <1>1, <2>1 DEF AcceptInv, Kept
<1>4. ASSUME result = "nullptr" PROVE \E k \in DOMAIN functions : Count(functions[k].ops, "matmul") > 0
  <2>1. PICK k \in DOMAIN functions : ~FunctionVerifies(functions[k])
    BY <1>1, <1>4 DEF AcceptInv, Verdict
  <2>2. Count(functions[k].ops, "matmul") # 0
    BY <1>2, <1>3, <2>1 DEF Complete
  <2>3. functions[k].ops \in Seq(Op)
    <3>1. functions[k] \in Function
      BY <1>2, <2>1
    <3> QED BY <3>1 DEF Function
  <2>4. Count(functions[k].ops, "matmul") \in Nat
    BY <2>3, CountIsNat
  <2> QED BY <2>2, <2>4
<1> QED BY <1>2, <1>3, <1>4

\* SoundIsAccepted, for every set of sources: of a sound module nothing is
\* lost, and only a matmul can make the verifier refuse it.
THEOREM SoundModulesAccepted == Spec => []SoundIsAccepted
<1>1. Spec => []AcceptInv
  BY AcceptInit, AcceptNext, PTL DEF Spec
<1> QED BY <1>1, AcceptHolds, PTL
================================================================================
