------------------------------ MODULE LocalOpts ------------------------------
(***************************************************************************)
(* The passes of assignment1.cpp and lab2/LocalOpts.cpp on the binary      *)
(* operators of one function with one argument.  The blocks of the         *)
(* function run one after the other; "layout" is the order in which the    *)
(* function lists them, the one a pass goes through.  Types are integers   *)
(* of Width bits, other instructions are left out, and the function        *)
(* returns its last operator.                                              *)
(***************************************************************************)
EXTENDS Integers, Sequences, FiniteSets, SequencesExt, TLC

CONSTANTS Width, Programs, Pipelines
ASSUME WidthAssumption == Width \in Nat \ {0, 1}

\* Operands are the argument, constants and the results of instructions.
Value == ({"arg"} \X {0}) \cup ({"const"} \X Int) \cup ({"inst"} \X Nat)
Opcode == {"add", "sub", "mul", "udiv", "sdiv", "shl", "ashr"}
Instruction == [op : Opcode, lhs : Value, rhs : Value]
Operands(e) == {e.lhs, e.rhs}

\* The places in the blocks of a function, in the order of execution.
Places(blocks) == UNION {{b} \X DOMAIN blocks[b] : b \in DOMAIN blocks}
At(blocks, p) == blocks[p[1]][p[2]]
Ahead(p, q) == p[1] < q[1] \/ (p[1] = q[1] /\ p[2] < q[2])

\* An instruction stands once in the function, behind the ones it uses.
StandsAhead(v, blocks, p) ==
  v[1] = "inst" => \E q \in Places(blocks) : Ahead(q, p) /\ At(blocks, q) = v[2]
InOrder(c, blocks) ==
  /\ \A p, q \in Places(blocks) : At(blocks, p) = At(blocks, q) => p = q
  /\ \A p \in Places(blocks) : /\ At(blocks, p) \in DOMAIN c
                               /\ \A v \in Operands(c[At(blocks, p)]) : StandsAhead(v, blocks, p)

ASSUME ProgramsAssumption ==
  \A p \in Programs : /\ p.code \in Seq(Instruction)
                       /\ p.body \in Seq(Seq(Nat))
                       /\ p.layout \in Seq(DOMAIN p.body)
                       /\ InOrder(p.code, p.body)
ASSUME PipelinesAssumption == Pipelines \subseteq Seq(STRING)

VARIABLES prog, code, body, result, passes, at, toDelete, erased, lossy, status
vars == <<prog, code, body, result, passes, at, toDelete, erased, lossy, status>>

Arg == <<"arg", 0>>
Const(c) == <<"const", c>>
Inst(i) == <<"inst", i>>
IsConst(v) == v[1] = "const"
Op(op, l, r) == [op |-> op, lhs |-> l, rhs |-> r]

Init == /\ prog \in Programs
        /\ code = prog.code /\ body = prog.body
        /\ result = Inst(Len(prog.code))
        /\ passes \in Pipelines
        /\ at = <<1, 1>>
        /\ toDelete = <<>> /\ erased = {} /\ lossy = {}
        /\ status = "running"

\* I: the instruction the iterator of the pass stands at.
Block == prog.layout[at[1]]
AtInstruction == at[1] <= Len(prog.layout) /\ at[2] <= Len(body[Block])
I == body[Block][at[2]]
Running(pass) == status = "running" /\ passes # <<>> /\ Head(passes) = pass
Visits(pass) == Running(pass) /\ AtInstruction
Forward(n) == at' = <<at[1], at[2] + n>>

\* Instruction::replaceAllUsesWith(): the uses by instructions outside of the
\* function count too, those by erased ones are gone.
Replace(c, is, w) ==
  [k \in DOMAIN c |-> IF \E i \in is : Inst(i) \in Operands(c[k])
                      THEN Op(c[k].op, IF c[k].lhs \in {Inst(i) : i \in is} THEN w ELSE c[k].lhs,
                                       IF c[k].rhs \in {Inst(i) : i \in is} THEN w ELSE c[k].rhs)
                      ELSE c[k]]
ReplaceResult(is, w) == result' = IF result \in {Inst(i) : i \in is} THEN w ELSE result
UsersOf(i) == {k \in DOMAIN code \ erased : Inst(i) \in Operands(code[k])}
InFunction == UNION {ToSet(body[b]) : b \in DOMAIN body}
-----------------------------------------------------------------------------
\* getIdentityOperand(): the case of an addition falls through into the one of
\* a multiplication.
ZeroOperand(e) == IF e.lhs = Const(0) THEN <<e.rhs>> ELSE IF e.rhs = Const(0) THEN <<e.lhs>> ELSE <<>>
OneOperand(e) == IF e.lhs = Const(1) THEN <<e.rhs>> ELSE IF e.rhs = Const(1) THEN <<e.lhs>> ELSE <<>>
IdentityOperand(e) ==
  CASE e.op = "add" -> IF ZeroOperand(e) # <<>> THEN ZeroOperand(e) ELSE OneOperand(e)
    [] e.op = "mul" -> OneOperand(e)
    [] OTHER -> <<>>

\* AlgIdentityPass: the instruction is taken out of the function and keeps its
\* operands.
AlgIdentityNone ==
  /\ Visits("alg-identity-pass") /\ IdentityOperand(code[I]) = <<>>
  /\ Forward(1)
  /\ UNCHANGED <<prog, code, body, result, passes, toDelete, erased, lossy, status>>
AlgIdentity ==
  LET found == IdentityOperand(code[I]) IN
  /\ Visits("alg-identity-pass") /\ found # <<>>
  /\ code' = Replace(code, {I}, found[1]) /\ ReplaceResult({I}, found[1])
  /\ body' = [body EXCEPT ![Block] = RemoveAt(@, at[2])]
  /\ lossy' = IF code[I].op = "add" /\ ZeroOperand(code[I]) = <<>> THEN lossy \cup {"one"} ELSE lossy
  /\ UNCHANGED <<prog, passes, at, toDelete, erased, status>>
-----------------------------------------------------------------------------
\* getBestShiftValueAndRemainder().  The logarithm of zero has no integer
\* value; what the processor makes of it shifts by the width or more, with
\* nothing to add.
Log2(c) == IF c = 0 THEN Width ELSE Cardinality({s \in 1..(Width - 1) : 2^s <= c})
Remainder(c) == IF c = 0 THEN 0 ELSE c - 2^Log2(c)
MaxRemainder(op) == IF op = "mul" THEN 3 ELSE 10

\* StrengthReductionPass::run(): the constant is looked for on the left first.
Divisions == {"udiv", "sdiv"}
Constant(e) == IF IsConst(e.lhs) THEN e.lhs[2] ELSE e.rhs[2]
VarOperand(e) == IF IsConst(e.lhs) THEN e.rhs ELSE e.lhs
HasConstant(e) == IsConst(e.lhs) \/ IsConst(e.rhs)
\* while (remainder > 0)
Rounds(c) == IF Remainder(c) > 0 THEN Remainder(c) ELSE 0
Reducible(e) == /\ e.op \in {"mul"} \cup Divisions
                /\ HasConstant(e) /\ Constant(e) >= 0
                /\ Remainder(Constant(e)) <= MaxRemainder(e.op)

\* substituteWithShiftAndSums(): a shift of the variable operand and as many
\* additions or subtractions of it as the remainder says.
New(e, k) ==
  IF k = 0 THEN Op(IF e.op = "mul" THEN "shl" ELSE "ashr", VarOperand(e), Const(Log2(Constant(e))))
           ELSE Op(IF e.op = "mul" THEN "add" ELSE "sub", Inst(Len(code) + k), VarOperand(e))
Exact(e) == IsConst(e.rhs) /\ ~IsConst(e.lhs) /\ Remainder(Constant(e)) = 0 /\ Constant(e) > 0

StrengthNone ==
  /\ Visits("strength-reduction-pass") /\ ~Reducible(code[I])
  /\ Forward(1)
  /\ UNCHANGED <<prog, code, body, result, passes, toDelete, erased, lossy, status>>
StrengthReduction ==
  LET e == code[I]  n == Rounds(Constant(e))  last == Inst(Len(code) + n + 1) IN
  /\ Visits("strength-reduction-pass") /\ Reducible(e)
  /\ code' = Replace(code, {I}, last) \o [k \in 1..(n + 1) |-> New(e, k - 1)]
  /\ ReplaceResult({I}, last)
  /\ body' = [body EXCEPT ![Block] = SubSeq(@, 1, at[2] - 1) \o [k \in 1..(n + 1) |-> Len(code) + k]
                                       \o SubSeq(@, at[2] + 1, Len(@))]
  /\ Forward(n + 1)
  /\ lossy' = lossy \cup (IF e.op \in Divisions /\ ~Exact(e) THEN {"division"} ELSE {})
                    \cup (IF Constant(e) = 0 THEN {"zero"} ELSE {})
  /\ UNCHANGED <<prog, passes, toDelete, erased, status>>

\* lab2, LocalOptsPass::run(): the multiplication stays where it is, and the
\* shift behind it is visited next.
PowerOfTwo(c) == c > 0 /\ Remainder(c) = 0
LocalOpts ==
  LET e == code[I]  shift == Len(code) + 1 IN
  /\ Visits("local-opts-pass")
  /\ IF e.op = "mul" /\ (IsConst(e.lhs) # IsConst(e.rhs)) /\ PowerOfTwo(Constant(e))
     THEN /\ code' = Append(Replace(code, {I}, Inst(shift)), New(e, 0))
          /\ ReplaceResult({I}, Inst(shift))
          /\ body' = [body EXCEPT ![Block] = InsertAt(@, at[2] + 1, shift)]
     ELSE UNCHANGED <<code, result, body>>
  /\ Forward(1)
  /\ UNCHANGED <<prog, passes, toDelete, erased, lossy, status>>
-----------------------------------------------------------------------------
\* seeded fault: the operations are not compared
CancelsAnyway(usee, user) == {usee.op, user.op} \subseteq {"add", "sub"} /\ Constant(usee) = -Constant(user)
\* computeSimplificationCondition()
Cancels(usee, user) ==
  LET a == Constant(usee)  b == Constant(user) IN
  CASE usee.op = user.op -> usee.op \in {"add", "sub"} /\ a = -b
    [] OTHER -> {usee.op, user.op} = {"add", "sub"} /\ a = b
\* MultiInstructionPass::run(): the users of an addition or subtraction that
\* undo it become its variable operand, and are erased after the last block.
Undoing == {u \in UsersOf(I) : HasConstant(code[u]) /\ Cancels(code[I], code[u])}
Reversed(e) == e.op = "sub" /\ IsConst(e.lhs)
\* seeded fault: the uses of the erased instruction are left alone
MultiInstructionForgets ==
  LET e == code[I]  gone == IF e.op \in {"add", "sub"} /\ HasConstant(e) THEN Undoing ELSE {} IN
  /\ Visits("multi-instruction-pass")
  /\ toDelete' = toDelete \o SetToSeq(gone)
  /\ Forward(1)
  /\ UNCHANGED <<prog, code, result, body, passes, erased, lossy, status>>
MultiInstruction ==
  LET e == code[I]  gone == IF e.op \in {"add", "sub"} /\ HasConstant(e) THEN Undoing ELSE {} IN
  /\ Visits("multi-instruction-pass")
  /\ code' = Replace(code, gone, VarOperand(e)) /\ ReplaceResult(gone, VarOperand(e))
  /\ toDelete' = toDelete \o SetToSeq(gone)
  /\ lossy' = IF \E i \in gone : Reversed(e) \/ Reversed(code[i]) THEN lossy \cup {"reversed"} ELSE lossy
  /\ Forward(1)
  /\ UNCHANGED <<prog, body, passes, erased, status>>
-----------------------------------------------------------------------------
NextBlock == /\ status = "running" /\ passes # <<>>
             /\ at[1] <= Len(prog.layout) /\ ~AtInstruction
             /\ at' = <<at[1] + 1, 1>>
             /\ UNCHANGED <<prog, code, body, result, passes, toDelete, erased, lossy, status>>

\* eraseFromParent(): an instruction that has no parent (any more) cannot be
\* erased.
PassOver == status = "running" /\ passes # <<>> /\ at[1] > Len(prog.layout)
Erase == /\ PassOver /\ toDelete # <<>>
         /\ \E p \in Places(body) : /\ At(body, p) = Head(toDelete)
                                    /\ body' = [body EXCEPT ![p[1]] = RemoveAt(@, p[2])]
         /\ erased' = erased \cup {Head(toDelete)} /\ toDelete' = Tail(toDelete)
         /\ UNCHANGED <<prog, code, result, passes, at, lossy, status>>
EraseFails == /\ PassOver /\ toDelete # <<>> /\ Head(toDelete) \notin InFunction
              /\ status' = "crashed"
              /\ UNCHANGED <<prog, code, body, result, passes, at, toDelete, erased, lossy>>
EndPass == /\ PassOver /\ toDelete = <<>>
           /\ passes' = Tail(passes) /\ at' = <<1, 1>>
           /\ UNCHANGED <<prog, code, body, result, toDelete, erased, lossy, status>>
Finish == /\ status = "running" /\ passes = <<>>
          /\ status' = "done"
          /\ UNCHANGED <<prog, code, body, result, passes, at, toDelete, erased, lossy>>

Next == \/ AlgIdentityNone \/ AlgIdentity \/ StrengthNone \/ StrengthReduction \/ LocalOpts
        \/ MultiInstruction \/ NextBlock \/ Erase \/ EraseFails \/ EndPass \/ Finish
Spec == Init /\ [][Next]_vars
-----------------------------------------------------------------------------
\* What the function computes: two's complement arithmetic of Width bits, with
\* Undefined for what LLVM leaves undefined.
Undefined == -1
Signed(n) == IF n >= 2^(Width - 1) THEN n - 2^Width ELSE n
Magnitude(n) == IF n < 0 THEN -n ELSE n
Quotient(m, n) == IF (m < 0) = (n < 0) THEN Magnitude(m) \div Magnitude(n) ELSE -(Magnitude(m) \div Magnitude(n))
Apply(op, m, n) ==
  IF m = Undefined \/ n = Undefined THEN Undefined
  ELSE CASE op = "add" -> (m + n) % 2^Width
         [] op = "sub" -> (m - n) % 2^Width
         [] op = "mul" -> (m * n) % 2^Width
         [] op = "udiv" -> IF n = 0 THEN Undefined ELSE m \div n
         [] op = "sdiv" -> IF n = 0 THEN Undefined ELSE Quotient(Signed(m), Signed(n)) % 2^Width
         [] op = "shl" -> IF n >= Width THEN Undefined ELSE (m * 2^n) % 2^Width
         [] op = "ashr" -> IF n >= Width THEN Undefined ELSE (Signed(m) \div 2^n) % 2^Width
ValueOf(v, env, x) == CASE v[1] = "arg" -> x [] v[1] = "const" -> v[2] % 2^Width [] OTHER -> env[v[2]]
Env(c, is, x) ==
  LET env[n \in 0..Len(is)] ==
        IF n = 0 THEN <<>>
        ELSE LET e == env[n - 1] IN
             is[n] :> Apply(c[is[n]].op, ValueOf(c[is[n]].lhs, e, x), ValueOf(c[is[n]].rhs, e, x)) @@ e
  IN  env[Len(is)]
Before(x) == Env(prog.code, FlattenSeq(prog.body), x)
After(x) == ValueOf(result, Env(code, FlattenSeq(body), x), x)
SameValue(x) == Before(x)[Len(prog.code)] \in {Undefined, After(x)}
Inputs == 0..(2^Width - 1)

\* A division of the program divides a number that is not negative.
NoNegativeDividend(x) ==
  \A i \in DOMAIN prog.code :
    prog.code[i].op \in Divisions => Signed(ValueOf(prog.code[i].lhs, Before(x), x)) >= 0
-----------------------------------------------------------------------------
TypeOK ==
  /\ status \in {"running", "done", "crashed"}
  /\ lossy \subseteq {"one", "division", "zero", "reversed"}
  /\ InOrder(code, body) /\ InFunction \cap erased = {}

\* The passes keep the value of the function, but for four things they do: x + 1
\* taken for x, a division by what is no power of two on the right, a
\* product with zero, a subtraction with the constant on the left.
KeepsValue ==
  (status = "done" /\ lossy = {}) => \A x \in Inputs : NoNegativeDividend(x) => SameValue(x)

\* An instruction to be erased has no users left, which LLVM asserts, and
\* those that stay use what stands before them.
ErasedUnused ==
  /\ TypeOK
  /\ \A i \in ToSet(toDelete) \cup erased : UsersOf(i) \cap InFunction = {} /\ result # Inst(i)

\* assignment1.cpp:81-82: the arithmetic shift is there because the dividend
\* may be negative ("possiamo star dividendo un numero negativo").
NegativeDividends ==
  (status = "done" /\ lossy = {} /\ \A i \in DOMAIN prog.code : prog.code[i].op # "udiv") =>
    \A x \in Inputs : SameValue(x)

\* assignment1.cpp:210-212: an operator has a constant operand if it is in the
\* right place, for a subtraction ("nella posizione giusta in caso di sottrazione").
ConstantInPlace == (status = "done" /\ lossy \subseteq {"reversed"}) =>
  \A x \in Inputs : NoNegativeDividend(x) => SameValue(x)

\* assignment1.cpp:326-328: what is erased is a user that comes later in the
\* function ("uno user che viene dopo nell'ir").
UsersComeLater == status = "running" => ToSet(toDelete) \subseteq InFunction

\* assignment1.cpp:328-329: the instructions to erase are saved and erased at
\* the end; LLVM can erase an instruction once.
SavedOnce == IsInjective(toDelete)
=============================================================================
