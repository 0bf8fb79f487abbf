----------------------------- MODULE ToyCompiler -----------------------------
(***************************************************************************)
(* toyc.cpp: the options, the pipeline of passes they select, and the      *)
(* passes on one module: MLIR's inliner with the hooks of ToyDialect.cpp,  *)
(* shape inference, the canonicalisation patterns of ToyCombine, the       *)
(* conversion to affine loops and the lowering of print.                   *)
(*                                                                         *)
(* The body of main is a sequence of operations as in ToyOps; one that a   *)
(* rewrite removes leaves an "erased" behind, so that positions stay.  The *)
(* conversion turns it into block: operations in the order in which they   *)
(* will run, some still of Toy, where the buffer that replaces the result  *)
(* of an operation has the number of the operation.                        *)
(***************************************************************************)
EXTENDS ToyTensors

CONSTANT Inputs             \* the files the compiler is called with

\* What mlirGen() builds: values in front of what uses them, calls of a type
\* that is not known, one return, at the end.
Operations == [kind : Kinds \cup {"erased"}, ins : Seq(Nat), type : [ranked : BOOLEAN, dims : Seq(Nat)],
               data : Seq(Int), callee : {""} \cup STRING]
Arity(kind) == CASE kind \in {"add", "mul", "matmul"} -> {2}
                 [] kind \in {"transpose", "cast", "reshape", "print"} -> {1}
                 [] kind \in {"arg", "constant", "erased"} -> {0}
                 [] OTHER -> Nat
WellFormed(body) ==
  /\ body \in Seq(Operations)
  /\ \A i \in DOMAIN body :
       /\ \A k \in DOMAIN body[i].ins : /\ body[i].ins[k] \in 1..(i - 1)
                                        /\ body[body[i].ins[k]].kind \notin NoResult \cup {"erased"}
       /\ Len(body[i].ins) \in Arity(body[i].kind)
       /\ body[i].kind = "generic_call" => ~body[i].type.ranked
       /\ body[i].kind = "return" <=> i = Len(body)

ASSUME InputsAssumption ==
  \A file \in Inputs :
    /\ WellFormed(file.main)
    /\ \A f \in DOMAIN file.functions :
         LET body == file.functions[f]
         IN  WellFormed(body) /\ body # <<>> /\ \E n \in 0..Len(body) : Parameters(body) = 1..n

\* enum Action
None == 0
DumpAST == 1
DumpMLIR == 2
DumpMLIRAffine == 3
DumpMLIRLLVM == 4
DumpLLVMIR == 5
RunJIT == 6
Abort == 134                \* the status of a process that a failed assertion ended

VARIABLES emitAction, enableOpt, inputType, input,    \* the command line
          stage, passes,                              \* what the compiler is doing
          main, block, code, output
vars == <<emitAction, enableOpt, inputType, input, stage, passes, main, block, code, output>>
options == <<emitAction, enableOpt, inputType, input>>

Init ==
  /\ emitAction \in None..RunJIT
  /\ enableOpt \in BOOLEAN
  /\ inputType \in {"toy", "mlir"}
  /\ input \in Inputs
  /\ stage = "start"
  /\ passes = <<>> /\ main = <<>> /\ block = <<>>
  /\ code = 0 /\ output = "nothing"

Exit(c) == /\ stage' = "done"
           /\ code' = c
           /\ UNCHANGED <<options, passes, main, block, output>>
Finish(o) == /\ stage' = "done"
             /\ output' = o
             /\ UNCHANGED <<options, passes, main, block, code>>
-----------------------------------------------------------------------------
ParsesAsToy == input.content = "toy"

PrintAST ==
  /\ stage = "start" /\ emitAction = DumpAST
  /\ CASE inputType = "mlir" -> Exit(5)
       [] inputType # "mlir" /\ ~ParsesAsToy -> Exit(1)
       [] OTHER -> Finish("ast")

\* seeded fault: the LLVM dialect is left to the actions behind it
PipelineLate(emit, opt) ==
  (IF opt \/ emit >= DumpMLIRAffine THEN <<"inline", "infer", "canonicalize", "cse">> ELSE <<>>)
  \o (IF emit >= DumpMLIRAffine THEN <<"affine">> ELSE <<>>) \o (IF emit > DumpMLIRLLVM THEN <<"llvm">> ELSE <<>>)

\* The clean-ups of affine loops are MLIR's own and left out.
Pipeline(emit, opt) ==
  (IF opt \/ emit >= DumpMLIRAffine THEN <<"inline", "infer", "canonicalize", "cse">> ELSE <<>>)
  \o (IF emit >= DumpMLIRAffine THEN <<"affine">> ELSE <<>>)
  \o (IF emit >= DumpMLIRLLVM THEN <<"llvm">> ELSE <<>>)

\* A file is taken for MLIR if an option or its name says so.
IsMLIR == inputType = "mlir" \/ input.name = ".mlir"

LoadError ==
  /\ stage = "start" /\ emitAction # DumpAST
  /\ \/ ~IsMLIR /\ ~ParsesAsToy /\ Exit(6)
     \/ ~IsMLIR /\ ParsesAsToy /\ ~input.generates /\ Exit(1)
     \/ IsMLIR /\ input.content = "missing" /\ Exit(-1)
     \/ IsMLIR /\ input.content \notin {"missing", "mlir"} /\ Exit(3)

LoadMLIR ==
  /\ stage = "start" /\ emitAction # DumpAST
  /\ IF IsMLIR THEN input.content = "mlir" ELSE ParsesAsToy /\ input.generates
  /\ stage' = "passes"
  /\ passes' = Pipeline(emitAction, enableOpt)
  /\ main' = input.main
  /\ UNCHANGED <<options, block, code, output>>

Running(pass) == stage = "passes" /\ passes # <<>> /\ Head(passes) = pass
\* seeded fault: a pass that never hands over
EndPassStays == UNCHANGED vars
EndPass == passes' = Tail(passes) /\ UNCHANGED <<options, stage, main, block, code, output>>
Rewrite(m) == main' = m /\ UNCHANGED <<options, stage, passes, block, code, output>>
PassFails == Exit(4)
-----------------------------------------------------------------------------
(* The inliner is MLIR's: it inlines a call unless the function calls      *)
(* itself or the numbers of arguments or results differ, and then removes  *)
(* the private functions that nothing calls.                               *)
CalleesOf(body) == {body[i].callee : i \in {j \in DOMAIN body : body[j].kind = "generic_call"}}
Callees(f) == CalleesOf(input.functions[f])
Recursive(f) == f \in Callees(f) \/ \E g \in Callees(f) : f \in Callees(g)
Inlinable(op) ==
  /\ op.kind = "generic_call"
  /\ op.callee \in DOMAIN input.functions
  /\ ~Recursive(op.callee)
  /\ LET g == input.functions[op.callee]
     IN  /\ Cardinality(Parameters(g)) = Len(op.ins)
         /\ Len(g[Len(g)].ins) = 1

\* op with its operands found at other positions.
Renamed(op, at) == [op EXCEPT !.ins = [k \in DOMAIN op.ins |-> at[op.ins[k]]]]
CastOf(i) == [Erased EXCEPT !.kind = "cast", !.ins = <<i>>]

\* The operation at i becomes ops; what used it uses result.
Splice(i, ops, result) ==
  LET grown == Len(ops) - 1
      at == [j \in DOMAIN main |-> CASE j < i -> j [] j = i -> result [] OTHER -> j + grown]
  IN  [j \in 1..(Len(main) + grown) |-> CASE j < i -> main[j]
                                        [] j > i + grown -> Renamed(main[j - grown], at)
                                        [] OTHER -> ops[j - i + 1]]

Called(i) == input.functions[main[i].callee]
KnownArg(i, k) == k \in DOMAIN main[i].ins /\ main[main[i].ins[k]].type.ranked

\* Where the values of the function are when the call at i is inlined.
PlaceOf(i) == [k \in DOMAIN Called(i) |->
  IF k \in DOMAIN main[i].ins /\ ~KnownArg(i, k) THEN main[i].ins[k] ELSE i - 1 + k]

\* materializeCallConversion() casts an argument whose type is known to the
\* type of the parameter; handleTerminator() replaces the result of the call.
Inlined(i) == [k \in 1..(Len(Called(i)) - 1) |->
  CASE k \notin DOMAIN main[i].ins -> Renamed(Called(i)[k], PlaceOf(i))
    [] KnownArg(i, k) -> CastOf(main[i].ins[k])
    [] OTHER -> Erased]
InlineCall(i) ==
  /\ Running("inline")
  /\ Inlinable(main[i])
  /\ Rewrite(Splice(i, Inlined(i), PlaceOf(i)[Called(i)[Len(Called(i))].ins[1]]))

InlinerDone == Running("inline") /\ (\A i \in DOMAIN main : ~Inlinable(main[i])) /\ EndPass
-----------------------------------------------------------------------------
(* Shape inference: see ShapeInference for the worklist.                    *)
Dynamic(op) == op.kind \notin NoResult \cup {"arg", "erased"} /\ ~op.type.ranked
TypesOf(i) == [k \in DOMAIN main[i].ins |-> main[main[i].ins[k]].type]
ReadyOp(i) == Dynamic(main[i]) /\ \A k \in DOMAIN main[i].ins : TypesOf(i)[k].ranked

InferOp(i) ==
  /\ Running("infer") /\ ReadyOp(i)
  /\ CASE main[i].kind \notin Inferable -> PassFails
       [] main[i].kind \in Inferable /\ ~DimsExist(main[i].kind, TypesOf(i)) -> Exit(Abort)
       [] OTHER -> Rewrite([main EXCEPT ![i] = [main[i] EXCEPT !.type = InferShapes(main[i].kind, TypesOf(i))]])

\* The verifier runs behind the pass.
InferenceDone ==
  /\ Running("infer") /\ \A i \in DOMAIN main : ~ReadyOp(i)
  /\ IF \A i \in DOMAIN main : ~Dynamic(main[i]) /\ Verifies(main[i].kind, TypesOf(i), main[i].type)
     THEN EndPass ELSE PassFails
-----------------------------------------------------------------------------
\* replaceOp(): the uses of i become uses of v, and i is gone.
ReplaceOp(i, v) ==
  [j \in DOMAIN main |-> IF j = i THEN Erased ELSE Renamed(main[j], [k \in DOMAIN main |-> IF k = i THEN v ELSE k])]
Operand(i) == main[main[i].ins[1]]
Is(i, kind) == main[i].kind = kind

TransposeTranspose(i) ==
  /\ Is(i, "transpose") /\ Operand(i).kind = "transpose"
  /\ Rewrite(ReplaceOp(i, Operand(i).ins[1]))

ReshapeReshape(i) ==
  /\ Is(i, "reshape") /\ Operand(i).kind = "reshape"
  /\ Rewrite([main EXCEPT ![i] = [main[i] EXCEPT !.ins = Operand(i).ins]])

RedundantReshape(i) ==
  /\ Is(i, "reshape") /\ Operand(i).type = main[i].type
  /\ Rewrite(ReplaceOp(i, main[i].ins[1]))

\* DenseElementsAttr::reshape() asserts that the number of elements stays.
FoldConstantReshape(i) ==
  /\ Is(i, "reshape") /\ Operand(i).kind = "constant"
  /\ IF Size(main[i].type.dims) = Size(Operand(i).type.dims)
     THEN Rewrite([main EXCEPT ![i] = [Operand(i) EXCEPT !.type = main[i].type]])
     ELSE Exit(Abort)

\* What MLIR does for any dialect: a cast to the same type, and an operation
\* that nothing uses and that has no effects.
FoldCast(i) ==
  /\ Is(i, "cast") /\ Operand(i).type = main[i].type
  /\ Rewrite(ReplaceOp(i, main[i].ins[1]))
Used(i) == \E j \in DOMAIN main : \E k \in DOMAIN main[j].ins : main[j].ins[k] = i
EraseDead(i) ==
  /\ main[i].kind \in Inferable \cup {"constant", "reshape"}
  /\ ~Used(i)
  /\ Rewrite([main EXCEPT ![i] = Erased])


\* No pattern and no folding applies any more.
Canonical == ~\E i \in DOMAIN main :
  \/ main[i].kind \in {"transpose", "reshape"} /\ Operand(i).kind = main[i].kind
  \/ main[i].kind \in {"cast", "reshape"} /\ Operand(i).type = main[i].type
  \/ Is(i, "reshape") /\ Operand(i).kind = "constant"
  \/ main[i].kind \in Inferable \cup {"constant", "reshape"} /\ ~Used(i)
Canonicalize(i) == Running("canonicalize") /\
  (TransposeTranspose(i) \/ ReshapeReshape(i) \/ RedundantReshape(i) \/ FoldConstantReshape(i)
   \/ FoldCast(i) \/ EraseDead(i))
CanonicalizerDone == Running("canonicalize") /\ Canonical /\ EndPass

\* Common subexpression elimination, MLIR's as well.
Same(i, j) == i < j /\ main[i] = main[j] /\ main[i].kind \in Inferable \cup {"constant", "reshape"}
MergeEqual(i, j) == Running("cse") /\ Same(i, j) /\ Rewrite(ReplaceOp(j, i))
CSEDone == Running("cse") /\ (\A i, j \in DOMAIN main : ~Same(i, j)) /\ EndPass
-----------------------------------------------------------------------------
(* LowerToAffineLoops.  Operations of the block: "toy" one that is not yet *)
(* converted, "nothing" where one was erased; "loops" a nest with one store *)
(* in the innermost body, whose subscripts are numbers of loops of it.      *)
Toy(i) == [do |-> "toy", id |-> i]
Nothing == [do |-> "nothing"]
Alloc(b, dims) == [do |-> "alloc", buf |-> b, dims |-> dims]
Dealloc(b) == [do |-> "dealloc", buf |-> b]
Store(b, at, v) == [do |-> "store", buf |-> b, at |-> at, value |-> v]
Load(b, at) == [buf |-> b, at |-> at]
Loops(bounds, op, from, b, at) ==
  [do |-> "loops", bounds |-> bounds, op |-> op, from |-> from, buf |-> b, at |-> at]
PrintOf(b) == [do |-> "print", buf |-> b]
Return == [do |-> "return"]

DimsOf(i) == main[i].type.dims
Lhs(i) == main[i].ins[1]
Rhs(i) == main[i].ins[2]
Ivs(dims) == [k \in DOMAIN dims |-> k]

\* The tuples of indices that a nest of loops runs through, in its order.
Walk(bounds) ==
  LET walk[n \in 0..Len(bounds)] ==
        IF n = 0 THEN <<<<>>>>
        ELSE LET outer == walk[n - 1]
             IN  FlattenSeq([k \in DOMAIN outer |-> [x \in 1..bounds[n] |-> Append(outer[k], x - 1)]])
  IN  walk[Len(bounds)]

ToBlock(b) == block' = b /\ UNCHANGED <<options, stage, passes, main, code, output>>
Converting(p, kinds) ==
  /\ Running("affine")
  /\ block[p].do = "toy" /\ \A q \in 1..(p - 1) : block[q].do # "toy"
  /\ main[block[p].id].kind \in kinds

\* seeded fault: the buffer is freed where its operation was
InsertHere(p, ops) == LET i == block[p].id IN
  ToBlock(<<Alloc(i, DimsOf(i))>> \o SubSeq(block, 1, p - 1) \o ops \o <<Dealloc(i)>>
          \o SubSeq(block, p + 1, Len(block)))

\* insertAllocAndDealloc(): the one to the front of the block, the other in
\* front of its last operation.  ops replace the operation at p.
Insert(p, ops) == LET i == block[p].id IN
  ToBlock(<<Alloc(i, DimsOf(i))>> \o SubSeq(block, 1, p - 1) \o ops
          \o SubSeq(block, p + 1, Len(block) - 1) \o <<Dealloc(i), Last(block)>>)

LowerOpToLoops(p, op, from) == LET i == block[p].id IN
  Insert(p, <<Loops(DimsOf(i), op, from, i, Ivs(DimsOf(i)))>>)

ConvertFunction ==
  /\ Running("affine") /\ block = <<>> /\ main # <<>>
  /\ IF Parameters(main) # {} \/ Last(main).ins # <<>> THEN PassFails
     ELSE ToBlock([i \in DOMAIN main |-> IF Is(i, "erased") THEN Nothing ELSE Toy(i)])

ConvertConstant(p) ==
  /\ Converting(p, {"constant"})
  /\ LET i == block[p].id IN
     Insert(p, [k \in DOMAIN main[i].data |-> Store(i, Walk(DimsOf(i))[k], main[i].data[k])])

\* A load takes as many subscripts as its buffer has dimensions.
ConvertBinary(p) ==
  /\ Converting(p, {"add", "mul"})
  /\ LET i == block[p].id
         ivs == Ivs(DimsOf(i))
     IN  IF Len(DimsOf(Rhs(i))) # Len(ivs) THEN Exit(Abort)
         ELSE LowerOpToLoops(p, main[i].kind, <<Load(Lhs(i), ivs), Load(Rhs(i), ivs)>>)

ConvertTranspose(p) ==
  /\ Converting(p, {"transpose"})
  /\ LET i == block[p].id IN LowerOpToLoops(p, "copy", <<Load(Lhs(i), Reverse(Ivs(DimsOf(i))))>>)

Multiply(i) == Loops(<<DimsOf(Lhs(i))[1], DimsOf(Rhs(i))[2], DimsOf(Lhs(i))[2]>>, "multiply and add",
                     <<Load(Lhs(i), <<1, 3>>), Load(Rhs(i), <<3, 2>>)>>, i, <<1, 2>>)
\* seeded fault: the buffer of the result is not cleared
ConvertMatMulOnly(p) == Converting(p, {"matmul"}) /\ Insert(p, <<Multiply(block[p].id)>>)

ConvertMatMul(p) ==
  /\ Converting(p, {"matmul"})
  /\ LET i == block[p].id IN
     Insert(p, <<Loops(<<DimsOf(Lhs(i))[1], DimsOf(Rhs(i))[2]>>, "zero", <<>>, i, <<1, 2>>), Multiply(i)>>)

ConvertPrint(p) == Converting(p, {"print"}) /\ ToBlock([block EXCEPT ![p] = PrintOf(Lhs(block[p].id))])
ConvertReturn(p) == Converting(p, {"return"}) /\ ToBlock([block EXCEPT ![p] = Return])
NoPattern(p) == Converting(p, {"reshape", "cast", "generic_call"}) /\ PassFails

Convert(p) == ConvertConstant(p) \/ ConvertBinary(p) \/ ConvertTranspose(p) \/ ConvertMatMul(p)
              \/ ConvertPrint(p) \/ ConvertReturn(p) \/ NoPattern(p)
Has(kind) == \E p \in DOMAIN block : block[p].do = kind
ConversionDone == Running("affine") /\ (block # <<>> \/ main = <<>>) /\ ~Has("toy") /\ EndPass

\* LowerToLLVM: print becomes loops that print an element in the innermost
\* one, and a newline at the end of every other.
LowerPrint(p) ==
  /\ Running("llvm") /\ block[p].do = "print"
  /\ LET b == block[p].buf
     IN  ToBlock([block EXCEPT ![p] =
           [do |-> "print loops", bounds |-> DimsOf(b), buf |-> b,
            newline |-> {k \in DOMAIN DimsOf(b) : k # Len(DimsOf(b))}]])
LoweringDone == Running("llvm") /\ ~Has("print") /\ EndPass
-----------------------------------------------------------------------------
Compiled == stage = "passes" /\ passes = <<>>
OutputMLIR == Compiled /\ emitAction <= DumpMLIRLLVM /\ Finish("module")
OutputLLVMIR == Compiled /\ emitAction = DumpLLVMIR /\ (Finish("llvm") \/ Exit(-1))
RunJit == Compiled /\ emitAction = RunJIT /\ IF main # <<>> THEN Finish("ran") ELSE Exit(-1)

Next ==
  \/ PrintAST \/ LoadError \/ LoadMLIR
  \/ \E i \in DOMAIN main : InlineCall(i) \/ InferOp(i) \/ Canonicalize(i) \/ \E j \in DOMAIN main : MergeEqual(i, j)
  \/ InlinerDone \/ InferenceDone \/ CanonicalizerDone \/ CSEDone
  \/ ConvertFunction \/ (\E p \in DOMAIN block : Convert(p) \/ LowerPrint(p))
  \/ ConversionDone \/ LoweringDone
  \/ OutputMLIR \/ OutputLLVMIR \/ RunJit

\* One thread, and every pass ends by itself.
Spec == Init /\ [][Next]_vars /\ WF_vars(Next)
TypeOK ==
  /\ stage \in {"start", "passes", "done"}
  /\ code \in {-1, 0, 1, 3, 4, 5, 6, Abort}
  /\ output \in {"nothing", "ast", "module", "llvm", "ran"}
  /\ WellFormed(main)

\* insertAllocAndDealloc(): at any point of the conversion a buffer is
\* allocated once, before all that names it, and freed once, after it.
Names(o) == (IF o.do \in {"toy", "nothing", "return"} THEN {} ELSE {o.buf})
            \cup (IF o.do = "loops" THEN {o.from[k].buf : k \in DOMAIN o.from} ELSE {})
BuffersLive ==
  \A b \in UNION {Names(block[p]) : p \in DOMAIN block} :
    LET uses == {p \in DOMAIN block : b \in Names(block[p])}
    IN  \A p \in uses : /\ block[p].do = "alloc" <=> \A q \in uses : p <= q
                        /\ block[p].do = "dealloc" <=> \A q \in uses : q <= p

\* What -emit asks for is what comes out (toyc.cpp:85-96): optimised Toy has
\* types of known shape and no calls, affine code keeps only the prints, and
\* nothing of Toy is left behind.
DialectOfOutput ==
  stage = "done" /\ code = 0 /\ emitAction # DumpAST =>
    /\ enableOpt \/ emitAction >= DumpMLIRAffine =>
         \A i \in DOMAIN main : Is(i, "erased") \/ (~Dynamic(main[i]) /\ ~Is(i, "generic_call"))
    /\ emitAction >= DumpMLIRAffine => ~Has("toy") /\ (block = <<>> => main = <<>>)
    /\ emitAction >= DumpMLIRLLVM => ~Has("print")

\* The compiler comes to an end.
CompilerEnds == <>(stage = "done")
=============================================================================
