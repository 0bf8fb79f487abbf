-------------------------- MODULE KaleidoscopeProofs --------------------------
(***************************************************************************)
(* What holds of the Kaleidoscope code generator for every set of trees,   *)
(* names, operators and prototypes.  The first part is about one step of   *)
(* the expression generator, whatever the session around it: the shape of  *)
(* the activation stack, the types, the correspondence of NamedValues with *)
(* lexical scope, and the control flow graph of the function.  The second  *)
(* part is about one function body and about a session of any length.      *)
(***************************************************************************)
EXTENDS Kaleidoscope, BodyCodegen, SequenceTheorems, FiniteSetTheorems, WellFoundedInduction, TLAPS

(***************************************************************************)
(* The stack.  An activation that waits for its k-th child has generated   *)
(* the k-1 before it, holds the bindings in scope in that child and the    *)
(* blocks it needs afterwards; the activation above it is that child's.    *)
(***************************************************************************)
BlocksHeld(n, k) == CASE Ast[n].kind = "if"  -> IF k = 1 THEN 0 ELSE 3
                      [] Ast[n].kind = "for" -> IF k = 1 THEN 0 ELSE 1
                      [] OTHER               -> 0

Fits(f, k) == /\ Len(f.old) = BoundFor(f.node, k)
              /\ Len(f.bbs) = BlocksHeld(f.node, k)

\* Only a binary expression that generates its left operand, that is not an
\* assignment, carries on after a failed child.
CarriesOn(n) == Ast[n].kind = "binary" /\ Ast[n].name # "="
NullFree(f, last) ==
  \A i \in 1..Len(f.vals) : f.vals[i] = Null => CarriesOn(f.node) \/ i = last

Waits(f, g) == LET k == Len(f.vals) + 1 IN
  /\ k <= Arity(f.node)
  /\ Ast[f.node].kids[k] # NoNode
  /\ g.node = Ast[f.node].kids[k]
  /\ Fits(f, k)
  /\ NullFree(f, 0)

\* The innermost activation has just got a value, or it has just begun or (a
\* var/in) registered a name, and the next child is still to be called.
GotValue(f) == LET k == Len(f.vals) IN
  1 <= k /\ k <= Arity(f.node) /\ Fits(f, k) /\ NullFree(f, k)
GoesOn(f) == LET k == Len(f.vals) IN
  /\ k = 0 \/ (Ast[f.node].kind = "varin" /\ k < Arity(f.node))
  /\ Fits(f, k + 1)
  /\ NullFree(f, 0)

StackInv ==
  /\ stack \in Seq(Frame)
  /\ \A j \in 1..(Depth - 1) : Waits(stack[j], stack[j + 1])
  /\ Generating => GotValue(Top) \/ GoesOn(Top)
  /\ Generating => result = Pending

-----------------------------------------------------------------------------
(* The trees. *)

\* A node has a record with the shape its kind calls for.
LEMMA NodeShape ==
  ASSUME NEW n \in Node
  PROVE  /\ Ast[n] \in NodeRecord
         /\ Ast[n].kind \in Kind
         /\ Ast[n].names \in Seq(Var)
         /\ Ast[n].kids \in Seq(Node \cup {NoNode})
         /\ Arity(n) \in Nat
         /\ Arity(n) = Len(Ast[n].kids)
         /\ Ast[n].kind \in {"num", "var"} => Arity(n) = 0
         /\ Ast[n].kind = "unary" => Arity(n) = 1
         /\ Ast[n].kind = "binary" => Arity(n) = 2
         /\ Ast[n].kind = "if" => Arity(n) = 3
         /\ Ast[n].kind = "for" => Len(Ast[n].names) = 1 /\ Arity(n) \in {3, 4}
         /\ Ast[n].kind = "varin" => Len(Ast[n].names) >= 1 /\ Arity(n) = Len(Ast[n].names) + 1
         /\ Ast[n].kind \notin {"for", "varin"} => Ast[n].names = <<>>
<1>1. Ast[n] \in NodeRecord /\ WellShaped(n)
  BY AstAssumption
<1>2. /\ Ast[n].kind \in Kind
      /\ Ast[n].names \in Seq(Var)
      /\ Ast[n].kids \in Seq(Node \cup {NoNode})
      /\ Arity(n) = Len(Ast[n].kids)
      /\ Arity(n) \in Nat
  BY <1>1 DEF NodeRecord, Arity
<1>3. Ast[n].kind \in {"num", "var"} => Arity(n) = 0 /\ Ast[n].names = <<>>
  BY <1>1, <1>2 DEF WellShaped
<1>4. Ast[n].kind \in {"unary", "binary", "call", "if"} =>
         /\ Ast[n].names = <<>>
         /\ Ast[n].kind = "unary" => Arity(n) = 1
         /\ Ast[n].kind = "binary" => Arity(n) = 2
         /\ Ast[n].kind = "if" => Arity(n) = 3
  BY <1>1, <1>2 DEF WellShaped
<1>5. Ast[n].kind = "for" => Len(Ast[n].names) = 1 /\ Arity(n) \in {3, 4}
  <2>1. Ast[n].kind = "for" => Ast[n].names = <<Ast[n].name>> /\ Arity(n) \in {3, 4}
    BY <1>1, <1>2 DEF WellShaped
  <2>2. Len(<<Ast[n].name>>) = 1
    OBVIOUS
  <2> QED
    BY <2>1, <2>2
<1>6. Ast[n].kind = "varin" => Len(Ast[n].names) >= 1 /\ Arity(n) = Len(Ast[n].names) + 1
  BY <1>1, <1>2 DEF WellShaped
<1> QED
  BY <1>1, <1>2, <1>3, <1>4, <1>5, <1>6 DEF Kind

\* A child that is not left out is a node; only a var/in leaves one out.
LEMMA KidIsNode ==
  ASSUME NEW n \in Node, NEW k \in 1..Arity(n)
  PROVE  /\ Ast[n].kids[k] # NoNode => Ast[n].kids[k] \in Node
         /\ Ast[n].kids[k] = NoNode => Ast[n].kind = "varin" /\ k < Arity(n)
<1>1. Ast[n].kids \in Seq(Node \cup {NoNode}) /\ Arity(n) = Len(Ast[n].kids)
  BY NodeShape
<1> QED
  BY <1>1, AstAssumption DEF Arity

\* Names in scope and blocks held are counted by naturals.
LEMMA BoundForNat ==
  ASSUME NEW n \in Node, NEW k \in 1..(Arity(n) + 1)
  PROVE  BoundFor(n, k) \in Nat /\ BlocksHeld(n, k) \in Nat
BY NodeShape DEF BoundFor, BlocksHeld

-----------------------------------------------------------------------------
(* The three ways in which an action changes the stack. *)

\* The innermost activation and the ones below it.
LEMMA TopIsFrame ==
  ASSUME stack \in Seq(Frame), stack # <<>>
  PROVE  /\ Depth \in Nat /\ Depth >= 1
         /\ Top \in Frame /\ Top.node \in Node
         /\ Top.vals \in Seq(Int) /\ Top.old \in Seq(Slot) /\ Top.bbs \in Seq(Nat)
         /\ Done \in Nat
         /\ Below \in Seq(Frame) /\ Len(Below) = Depth - 1
         /\ \A j \in 1..(Depth - 1) : Below[j] = stack[j] /\ stack[j] \in Frame
<1>1. Depth \in Nat /\ Depth >= 1 /\ Top \in Frame
  BY DEF Depth, Top
<1>2. \A j \in 1..(Depth - 1) : stack[j] \in Frame
  BY <1>1 DEF Depth
<1>3. Below \in Seq(Frame) /\ Len(Below) = Depth - 1
      /\ \A j \in 1..(Depth - 1) : Below[j] = stack[j]
  BY <1>1, <1>2, SubSeqProperties DEF Below
<1>4. /\ Top.node \in Node /\ Top.vals \in Seq(Int)
      /\ Top.old \in Seq(Slot) /\ Top.bbs \in Seq(Nat)
  BY <1>1 DEF Frame
<1> QED
  BY <1>1, <1>2, <1>3, <1>4 DEF Done

\* Descend leaves the frames below, the caller's frame and a fresh one.
LEMMA DescendShape ==
  ASSUME stack \in Seq(Frame), stack # <<>>, NEW f \in Frame, NEW k \in 1..Arity(f.node),
         Ast[f.node].kids[k] # NoNode, Descend(f, k)
  PROVE  /\ stack' \in Seq(Frame)
         /\ Len(stack') = Depth + 1
         /\ \A j \in 1..(Depth - 1) : stack'[j] = stack[j]
         /\ stack'[Depth] = f
         /\ stack'[Depth + 1] = NewFrame(Ast[f.node].kids[k])
<1>1. NewFrame(Ast[f.node].kids[k]) \in Frame
  BY KidIsNode DEF NewFrame, Frame
<1> DEFINE s == Append(Below, f)
<1>2. /\ s \in Seq(Frame) /\ Len(s) = Depth /\ s[Depth] = f
      /\ \A j \in 1..(Depth - 1) : s[j] = stack[j]
  BY TopIsFrame
<1>3. stack' = Append(s, NewFrame(Ast[f.node].kids[k]))
  BY DEF Descend
<1> HIDE DEF s
<1> QED
  BY <1>1, <1>2, <1>3, TopIsFrame

\* Return drops the innermost frame and gives its caller the value.
LEMMA ReturnShape ==
  ASSUME stack \in Seq(Frame), stack # <<>>, NEW v \in Int, Return(v)
  PROVE  /\ stack' \in Seq(Frame)
         /\ Len(stack') = Depth - 1
         /\ \A j \in 1..(Depth - 2) : stack'[j] = stack[j]
         /\ Depth > 1 => /\ stack'[Depth - 1] =
                              [stack[Depth - 1] EXCEPT !.vals = Append(@, v)]
                         /\ result' = result
         /\ Depth = 1 => result' = v
<1>1. CASE Depth = 1
  BY <1>1, TopIsFrame DEF Return
<1>2. CASE Depth > 1
  <2>1. /\ Below \in Seq(Frame) /\ Len(Below) = Depth - 1 /\ Depth \in Nat
        /\ Below[Depth - 1] = stack[Depth - 1] /\ stack[Depth - 1] \in Frame
        /\ \A j \in 1..(Depth - 2) : Below[j] = stack[j]
    BY <1>2, TopIsFrame
  <2> DEFINE g == [stack[Depth - 1] EXCEPT !.vals = Append(@, v)]
  <2>2. g \in Frame
    <3>1. Append(stack[Depth - 1].vals, v) \in Seq(Int)
      BY <2>1, AppendProperties DEF Frame
    <3> QED
      BY <2>1, <3>1 DEF Frame
  <2>3. stack' = [Below EXCEPT ![Depth - 1] = g] /\ result' = result
    BY <1>2, <2>1 DEF Return
  <2> HIDE DEF g
  <2>4. /\ stack' \in Seq(Frame) /\ Len(stack') = Depth - 1
        /\ stack'[Depth - 1] = g
        /\ \A j \in 1..(Depth - 2) : stack'[j] = stack[j]
    BY <1>2, <2>1, <2>2, <2>3
  <2> QED
    BY <1>2, <2>3, <2>4 DEF g
<1> QED
  BY <1>1, <1>2, TopIsFrame

\* Replacing the innermost frame leaves the others.
LEMMA ReplaceShape ==
  ASSUME stack \in Seq(Frame), stack # <<>>, NEW f \in Frame,
         stack' = Append(Below, f)
  PROVE  /\ stack' \in Seq(Frame)
         /\ Len(stack') = Depth
         /\ \A j \in 1..(Depth - 1) : stack'[j] = stack[j]
         /\ stack'[Depth] = f
BY TopIsFrame

-----------------------------------------------------------------------------
(* The stack invariant across the three. *)

\* Calling a child keeps the stack invariant.
LEMMA DescendKeeps ==
  ASSUME StackInv, Generating, NEW f \in Frame, NEW k \in 1..Arity(f.node),
         f.node = Top.node, Len(f.vals) = k - 1, Fits(f, k), NullFree(f, 0),
         Ast[f.node].kids[k] # NoNode, Descend(f, k)
  PROVE  StackInv'
<1> DEFINE d == Depth
           m == Ast[f.node].kids[k]
<1>1. stack \in Seq(Frame) /\ stack # <<>> /\ d \in Nat /\ d >= 1
  BY TopIsFrame DEF StackInv, Generating
<1>2. /\ stack' \in Seq(Frame) /\ Depth' = d + 1
      /\ \A j \in 1..(d - 1) : stack'[j] = stack[j]
      /\ stack'[d] = f
      /\ stack'[d + 1] = NewFrame(m)
  BY <1>1, DescendShape DEF Depth
<1>3. result' = result
  BY DEF Descend
<1>4. m \in Node
  BY KidIsNode, f.node \in Node DEF Frame
<1>5. GoesOn(NewFrame(m))
  <2>1. Fits(NewFrame(m), 1)
    BY <1>4, NodeShape DEF Fits, NewFrame, BoundFor, BlocksHeld
  <2> QED
    BY <2>1 DEF GoesOn, NewFrame, NullFree
<1>6. Waits(f, NewFrame(m))
  BY DEF Waits, NewFrame
<1>7. \A j \in 1..(d - 1) : Waits(stack'[j], stack'[j + 1])
  <2> TAKE j \in 1..(d - 1)
  <2>1. Waits(stack[j], stack[j + 1]) /\ stack'[j] = stack[j]
    BY <1>2 DEF StackInv
  <2>2. CASE j = d - 1
    <3>1. j + 1 = d
      BY <1>1, <2>2
    <3>2. stack'[j + 1] = f /\ stack[j + 1] = Top
      BY <1>2, <3>1 DEF Top
    <3> QED
      BY <2>1, <3>2 DEF Waits
  <2>3. CASE j < d - 1
    <3>1. j + 1 \in 1..(d - 1)
      BY <1>1, <2>3
    <3> QED
      BY <1>2, <2>1, <3>1
  <2> QED
    BY <1>1, <2>2, <2>3
<1>8. \A j \in 1..(Depth' - 1) : Waits(stack'[j], stack'[j + 1])
  <2> TAKE j \in 1..(Depth' - 1)
  <2>1. j \in 1..(d - 1) \/ j = d
    BY <1>1, <1>2
  <2> QED
    BY <1>2, <1>6, <1>7, <2>1
<1>9. Top' = NewFrame(m)
  BY <1>2 DEF Top
<1>10. result' = Pending
  BY <1>3 DEF StackInv
<1> QED
  BY <1>2, <1>5, <1>8, <1>9, <1>10 DEF StackInv

\* So does returning a value, null or not,
LEMMA ReturnKeeps ==
  ASSUME StackInv, Generating, NEW v \in Int, Return(v)
  PROVE  StackInv'
<1> DEFINE d == Depth
           f == stack[d - 1]
           g == [f EXCEPT !.vals = Append(@, v)]
<1>1. stack \in Seq(Frame) /\ stack # <<>> /\ d \in Nat /\ d >= 1 /\ result = Pending
  BY TopIsFrame DEF StackInv, Generating
<1>2. /\ stack' \in Seq(Frame) /\ Depth' = d - 1
      /\ \A j \in 1..(d - 2) : stack'[j] = stack[j]
      /\ d > 1 => stack'[d - 1] = g /\ result' = result
  BY <1>1, ReturnShape DEF Depth
<1>3. CASE d = 1
  <2>1. stack' = <<>> /\ Depth' = 0
    BY <1>2, <1>3 DEF Return
  <2> QED
    BY <1>2, <2>1 DEF StackInv, Generating
<1>4. CASE d > 1
  <2>1. f \in Frame /\ f.node \in Node /\ f.vals \in Seq(Int)
    <3>1. d - 1 \in 1..(d - 1)
      BY <1>1, <1>4
    <3>2. f \in Frame
      BY <1>1, <3>1, TopIsFrame
    <3> QED
      BY <3>2 DEF Frame
  <2>2. Waits(f, stack[d])
    BY <1>1, <1>4 DEF StackInv
  <2> DEFINE k == Len(f.vals) + 1
  <2>3. /\ k \in Nat /\ k >= 1 /\ k <= Arity(f.node) /\ Fits(f, k) /\ NullFree(f, 0)
    BY <2>1, <2>2 DEF Waits
  <2>4. /\ g.node = f.node /\ g.old = f.old /\ g.bbs = f.bbs
        /\ g.vals = Append(f.vals, v) /\ Len(g.vals) = k
        /\ \A i \in 1..(k - 1) : g.vals[i] = f.vals[i]
    BY <2>1 DEF Frame
  <2>5. NullFree(g, k)
    <3> SUFFICES ASSUME NEW i \in 1..Len(g.vals), g.vals[i] = Null, i # k
                 PROVE  CarriesOn(g.node)
      BY DEF NullFree
    <3> HIDE DEF f, g
    <3>1. i \in 1..Len(f.vals) /\ i # 0
      BY <2>1, <2>3, <2>4
    <3>2. f.vals[i] = Null
      BY <2>1, <2>3, <2>4, <3>1
    <3> QED
      BY <2>3, <2>4, <3>1, <3>2 DEF NullFree
  <2>6. GotValue(g)
    <3> HIDE DEF g
    <3>1. Fits(g, k)
      BY <2>3, <2>4 DEF Fits
    <3> QED
      BY <2>3, <2>4, <2>5, <3>1 DEF GotValue
  <2>7. Top' = g
    BY <1>2, <1>4 DEF Top
  <2>8. \A j \in 1..(Depth' - 1) : Waits(stack'[j], stack'[j + 1])
    <3> TAKE j \in 1..(Depth' - 1)
    <3>1. j \in 1..(d - 2) /\ Waits(stack[j], stack[j + 1]) /\ stack'[j] = stack[j]
      BY <1>1, <1>2 DEF StackInv
    <3>2. stack'[j + 1].node = stack[j + 1].node
      <4> HIDE DEF g
      <4>1. CASE j = d - 2
        <5>1. j + 1 = d - 1
          BY <1>1, <4>1
        <5> QED
          BY <1>2, <1>4, <2>4, <5>1
      <4>2. CASE j < d - 2
        <5>1. j + 1 \in 1..(d - 2)
          BY <1>1, <3>1, <4>2
        <5> QED
          BY <1>2, <5>1
      <4> QED
        BY <1>1, <3>1, <4>1, <4>2
    <3> QED
      BY <3>1, <3>2 DEF Waits
  <2> QED
    BY <1>1, <1>2, <1>4, <2>6, <2>7, <2>8 DEF StackInv
<1> QED
  BY <1>1, <1>3, <1>4

\* and going on in the same activation.
LEMMA ReplaceKeeps ==
  ASSUME StackInv, Generating, NEW f \in Frame, f.node = Top.node,
         stack' = Append(Below, f), UNCHANGED result, GoesOn(f)
  PROVE  StackInv'
<1> DEFINE d == Depth
<1>1. stack \in Seq(Frame) /\ stack # <<>> /\ d \in Nat /\ d >= 1 /\ result' = Pending
  BY TopIsFrame DEF StackInv, Generating
<1>2. /\ stack' \in Seq(Frame) /\ Depth' = d
      /\ \A j \in 1..(d - 1) : stack'[j] = stack[j]
      /\ stack'[d] = f
  BY <1>1, ReplaceShape DEF Depth
<1>3. Top' = f
  BY <1>2 DEF Top
<1>4. \A j \in 1..(Depth' - 1) : Waits(stack'[j], stack'[j + 1])
  <2> TAKE j \in 1..(Depth' - 1)
  <2>1. j \in 1..(d - 1) /\ Waits(stack[j], stack[j + 1]) /\ stack'[j] = stack[j]
    BY <1>1, <1>2 DEF StackInv
  <2>2. stack'[j + 1].node = stack[j + 1].node
    <3>1. CASE j = d - 1
      <4>1. j + 1 = d
        BY <1>1, <3>1
      <4> QED
        BY <1>2, <4>1 DEF Top
    <3>2. CASE j < d - 1
      <4>1. j + 1 \in 1..(d - 1)
        BY <1>1, <2>1, <3>2
      <4> QED
        BY <1>2, <4>1
    <3>3. j = d - 1 \/ j < d - 1
      BY <1>1, <2>1
    <3> QED
      BY <3>1, <3>2, <3>3
  <2> QED
    BY <2>1, <2>2 DEF Waits
<1> QED
  BY <1>1, <1>2, <1>3, <1>4 DEF StackInv

-----------------------------------------------------------------------------
(* The function under construction.  Builds(g, h): h is g with something   *)
(* added, and is well formed.                                              *)

FnOK(g) == g \in FnRecord /\ g.cur \in 1..Len(g.blocks)
Builds(g, h) ==
  /\ FnOK(h)
  /\ Len(h.blocks) >= Len(g.blocks)
  /\ h.name = g.name /\ h.body = g.body /\ h.args = g.args
  /\ h.complete = g.complete /\ h.slots = g.slots

\* One building step after another is a building step.
LEMMA BuildsTransitive ==
  ASSUME NEW f, NEW g, NEW h, FnOK(f), Builds(f, g), Builds(g, h)
  PROVE  Builds(f, h)
<1>1. Len(f.blocks) \in Nat /\ Len(g.blocks) \in Nat /\ Len(h.blocks) \in Nat
  BY DEF Builds, FnOK, FnRecord
<1> QED
  BY <1>1 DEF Builds

\* An instruction keeps the blocks and the insertion point.
LEMMA UseBuilds ==
  ASSUME NEW g, FnOK(g), NEW V \in SUBSET Int
  PROVE  /\ Builds(g, Use(g, V)) /\ Use(g, V).cur = g.cur /\ Use(g, V).blocks = g.blocks
         /\ Use(g, V).calls = g.calls
<1> DEFINE U == g.uses \cup {<<v, g.cur>> : v \in V \ {Const}}
<1>0. g.uses \in SUBSET (Int \X Nat) /\ g.cur \in Nat /\ g.blocks \in Seq(Block)
  BY DEF FnOK, FnRecord
<1>1. U \in SUBSET (Int \X Nat)
  BY <1>0
<1>2. Use(g, V) = [g EXCEPT !.uses = U]
  BY DEF Use
<1> HIDE DEF U
<1>3. Use(g, V) \in FnRecord
  BY <1>1, <1>2 DEF FnOK, FnRecord
<1>4. LET h == Use(g, V) IN
      /\ h.blocks = g.blocks /\ h.cur = g.cur /\ h.calls = g.calls
      /\ h.name = g.name /\ h.body = g.body /\ h.args = g.args
      /\ h.complete = g.complete /\ h.slots = g.slots
  BY <1>2 DEF FnOK, FnRecord
<1> QED
  BY <1>0, <1>3, <1>4 DEF FnOK, Builds

\* Replacing the list of blocks by one that is no shorter.
LEMMA BlocksBuild ==
  ASSUME NEW g, FnOK(g), NEW B \in Seq(Block), Len(B) >= Len(g.blocks),
         NEW h, h = [g EXCEPT !.blocks = B]
  PROVE  Builds(g, h) /\ h.cur = g.cur /\ h.blocks = B /\ h.calls = g.calls
<1>1. h \in FnRecord
  BY DEF FnOK, FnRecord
<1>2. /\ h.blocks = B /\ h.cur = g.cur /\ h.calls = g.calls
      /\ h.name = g.name /\ h.body = g.body /\ h.args = g.args
      /\ h.complete = g.complete /\ h.slots = g.slots
  BY DEF FnOK, FnRecord
<1>3. g.blocks \in Seq(Block) /\ g.cur \in 1..Len(g.blocks)
  BY DEF FnOK, FnRecord
<1> QED
  BY <1>1, <1>2, <1>3 DEF FnOK, Builds

\* A new block gets the next number.
LEMMA AddBlockBuilds ==
  ASSUME NEW g, FnOK(g), NEW placed \in BOOLEAN
  PROVE  /\ Builds(g, AddBlock(g, placed)) /\ AddBlock(g, placed).cur = g.cur
         /\ Len(AddBlock(g, placed).blocks) = Len(g.blocks) + 1
         /\ AddBlock(g, placed).calls = g.calls
<1> DEFINE B == Append(g.blocks, EmptyBlock(placed))
<1>1. g.blocks \in Seq(Block)
  BY DEF FnOK, FnRecord
<1>2. EmptyBlock(placed) \in Block
  BY DEF EmptyBlock, Block
<1>3. B \in Seq(Block) /\ Len(B) = Len(g.blocks) + 1 /\ Len(g.blocks) \in Nat
  BY <1>1, <1>2, AppendProperties
<1>4. AddBlock(g, placed) = [g EXCEPT !.blocks = B]
  BY DEF AddBlock
<1> HIDE DEF B
<1> QED
  BY <1>3, <1>4, BlocksBuild

\* A terminator at the insertion point.
LEMMA BrBuilds ==
  ASSUME NEW g, FnOK(g), NEW succs \in SUBSET Nat
  PROVE  /\ Builds(g, Br(g, succs)) /\ Br(g, succs).cur = g.cur
         /\ Len(Br(g, succs).blocks) = Len(g.blocks)
         /\ Br(g, succs).calls = g.calls
<1> DEFINE c == g.cur
           b == [g.blocks[c] EXCEPT !.term = Append(@, succs)]
           B == [g.blocks EXCEPT ![c] = b]
<1>1. g.blocks \in Seq(Block) /\ c \in 1..Len(g.blocks)
  BY DEF FnOK, FnRecord
<1>2. b \in Block
  <2>1. g.blocks[c] \in Block
    BY <1>1
  <2>2. Append(g.blocks[c].term, succs) \in Seq(SUBSET Nat)
    BY <2>1 DEF Block
  <2> QED
    BY <2>1, <2>2 DEF Block
<1> HIDE DEF b
<1>3. B \in Seq(Block) /\ Len(B) = Len(g.blocks) /\ Len(g.blocks) \in Nat
  BY <1>1, <1>2
<1>4. Br(g, succs) = [g EXCEPT !.blocks = B]
  BY DEF Br, b
<1> HIDE DEF B
<1> QED
  BY <1>3, <1>4, BlocksBuild

\* A block is inserted into the function.
LEMMA PlaceBuilds ==
  ASSUME NEW g, FnOK(g), NEW i \in 1..Len(g.blocks)
  PROVE  /\ Builds(g, Place(g, i)) /\ Place(g, i).cur = g.cur
         /\ Len(Place(g, i).blocks) = Len(g.blocks)
         /\ Place(g, i).calls = g.calls
<1> DEFINE b == [g.blocks[i] EXCEPT !.placed = TRUE]
           B == [g.blocks EXCEPT ![i] = b]
<1>1. g.blocks \in Seq(Block)
  BY DEF FnOK, FnRecord
<1>2. b \in Block
  <2>1. g.blocks[i] \in Block
    BY <1>1
  <2> QED
    BY <2>1 DEF Block
<1> HIDE DEF b
<1>3. B \in Seq(Block) /\ Len(B) = Len(g.blocks) /\ Len(g.blocks) \in Nat
  BY <1>1, <1>2
<1>4. Place(g, i) = [g EXCEPT !.blocks = B]
  BY DEF Place, b
<1> HIDE DEF B
<1> QED
  BY <1>3, <1>4, BlocksBuild

\* The insertion point moves to a block that exists.
LEMMA SetInsertPointBuilds ==
  ASSUME NEW g, FnOK(g), NEW i \in 1..Len(g.blocks)
  PROVE  /\ Builds(g, SetInsertPoint(g, i)) /\ SetInsertPoint(g, i).cur = i
         /\ SetInsertPoint(g, i).blocks = g.blocks
         /\ SetInsertPoint(g, i).calls = g.calls
<1> DEFINE h == SetInsertPoint(g, i)
<1>1. g \in FnRecord /\ g.blocks \in Seq(Block) /\ i \in Nat
  BY DEF FnOK, FnRecord
<1>2. h = [g EXCEPT !.cur = i]
  BY DEF SetInsertPoint
<1> HIDE DEF h
<1>3. h \in FnRecord
  BY <1>1, <1>2 DEF FnRecord
<1>4. /\ h.cur = i /\ h.blocks = g.blocks /\ h.calls = g.calls /\ h.name = g.name
      /\ h.body = g.body /\ h.args = g.args /\ h.complete = g.complete /\ h.slots = g.slots
  BY <1>1, <1>2 DEF FnRecord
<1>5. FnOK(h) /\ Len(h.blocks) >= Len(g.blocks)
  BY <1>1, <1>3, <1>4 DEF FnOK
<1>6. Builds(g, h)
  BY <1>4, <1>5 DEF Builds
<1> QED
  BY <1>4, <1>6 DEF h

\* A call.
LEMMA AddCallBuilds ==
  ASSUME NEW g, FnOK(g), NEW f \in Fn, NEW n \in Nat
  PROVE  Builds(g, AddCall(g, f, n)) /\ AddCall(g, f, n).calls = g.calls \cup {<<f, n>>}
<1> DEFINE C == g.calls \cup {<<f, n>>}
<1>1. C \in SUBSET (Fn \X Nat)
  BY DEF FnOK, FnRecord
<1>2. AddCall(g, f, n) = [g EXCEPT !.calls = C]
  BY DEF AddCall
<1> HIDE DEF C
<1>3. AddCall(g, f, n) \in FnRecord
  BY <1>1, <1>2 DEF FnOK, FnRecord
<1>4. g.blocks \in Seq(Block)
  BY DEF FnOK, FnRecord
<1>5. LET h == AddCall(g, f, n) IN
      /\ h.blocks = g.blocks /\ h.cur = g.cur /\ h.calls = C
      /\ h.name = g.name /\ h.body = g.body /\ h.args = g.args
      /\ h.complete = g.complete /\ h.slots = g.slots
  BY <1>2 DEF FnOK, FnRecord
<1> QED
  BY <1>3, <1>4, <1>5 DEF FnOK, Builds, C

\* A PHI node.
LEMMA AddPhiBuilds ==
  ASSUME NEW g, FnOK(g), NEW phi \in [blk : Nat, in : SUBSET (Int \X Nat)],
         NEW h, h = [g EXCEPT !.phis = @ \cup {phi}]
  PROVE  Builds(g, h) /\ h.calls = g.calls
<1> DEFINE P == g.phis \cup {phi}
<1>1. P \in SUBSET [blk : Nat, in : SUBSET (Int \X Nat)]
  BY DEF FnOK, FnRecord
<1>2. h = [g EXCEPT !.phis = P]
  OBVIOUS
<1> HIDE DEF P
<1>3. h \in FnRecord
  BY <1>1, <1>2 DEF FnOK, FnRecord
<1>4. g.blocks \in Seq(Block)
  BY DEF FnOK, FnRecord
<1>5. /\ h.blocks = g.blocks /\ h.cur = g.cur /\ h.calls = g.calls
      /\ h.name = g.name /\ h.body = g.body /\ h.args = g.args
      /\ h.complete = g.complete /\ h.slots = g.slots
  BY <1>2 DEF FnOK, FnRecord
<1> QED
  BY <1>3, <1>4, <1>5 DEF FnOK, Builds

\* A variable is resolved to a slot.
LEMMA ResolveKeeps ==
  ASSUME NEW g, FnOK(g), NEW n \in Node, NEW s \in Slot, NEW h, h = Resolve(g, n, s)
  PROVE  /\ FnOK(h) /\ h.blocks = g.blocks /\ h.cur = g.cur
         /\ h.name = g.name /\ h.body = g.body /\ h.args = g.args
         /\ h.complete = g.complete /\ h.slots = g.slots \cup {<<n, s>>}
         /\ h.calls = g.calls
<1> DEFINE S == g.slots \cup {<<n, s>>}
<1>1. S \in SUBSET (Node \X Slot)
  BY DEF FnOK, FnRecord
<1>2. h = [g EXCEPT !.slots = S]
  BY DEF Resolve
<1> HIDE DEF S
<1> QED
  BY <1>1, <1>2 DEF FnOK, FnRecord, S

\* Doing nothing is building nothing.
LEMMA BuildsItself ==
  ASSUME NEW g, FnOK(g)
  PROVE  Builds(g, g)
BY DEF Builds, FnOK, FnRecord

-----------------------------------------------------------------------------
(* The inductive invariant of the generator, and what an action has to     *)
(* guarantee besides its effect on the stack.                              *)

ModuleOK(m) == IsMap(m, Fn, [args : Seq(Var), body : BOOLEAN])

GenInv == /\ TypeOK
          /\ StackInv
          /\ Generating \/ result # Pending => FnOK(fn)

Changes ==
  /\ NamedValues' \in [Var -> Slot]
  /\ ModuleOK(TheModule')
  /\ FnOK(fn') /\ Len(fn'.blocks) >= Len(fn.blocks)
  /\ fault' \in Faults
  /\ UNCHANGED FunctionProtos

BlocksExist(f, g) == \A i \in 1..Len(f.bbs) : f.bbs[i] \in 1..Len(g.blocks)

\* The invariant after a step, from its parts.
LEMMA TypesAfter ==
  ASSUME GenInv, Changes, StackInv', result' \in Int,
         \A j \in 1..Depth' : BlocksExist(stack'[j], fn')
  PROVE  GenInv'
<1>1. stack' \in Seq(Frame)
  BY DEF StackInv
<1>2. IsMap(FunctionProtos', Fn, Seq(Var))
  BY DEF GenInv, TypeOK, Changes
<1>3. fn' \in FnRecord /\ fn'.cur \in BlockIds'
  BY DEF Changes, FnOK, BlockIds
<1>4. TypeOK'
  BY <1>1, <1>2, <1>3 DEF TypeOK, Changes, BlocksExist, BlockIds, ModuleOK
<1> QED
  BY <1>4 DEF GenInv, Changes

\* Blocks that exist go on existing.
LEMMA BlocksStay ==
  ASSUME GenInv, Changes
  PROVE  \A j \in 1..Depth : BlocksExist(stack[j], fn')
<1>1. fn.blocks \in Seq(Block) /\ fn'.blocks \in Seq(Block)
  BY DEF GenInv, TypeOK, Changes, FnOK, FnRecord
<1>2. \A j \in 1..Depth : \A i \in 1..Len(stack[j].bbs) : stack[j].bbs[i] \in 1..Len(fn.blocks)
  BY DEF GenInv, TypeOK, BlockIds
<1>3. \A b \in 1..Len(fn.blocks) : b \in 1..Len(fn'.blocks)
  BY <1>1 DEF Changes
<1> QED
  BY <1>2, <1>3 DEF BlocksExist

\* A step that calls a child, builds, and binds.
LEMMA DescendStep ==
  ASSUME GenInv, Generating, Changes, NEW f \in Frame, NEW k \in 1..Arity(f.node),
         f.node = Top.node, Len(f.vals) = k - 1, Fits(f, k), NullFree(f, 0),
         BlocksExist(f, fn'), Ast[f.node].kids[k] # NoNode, Descend(f, k)
  PROVE  GenInv'
<1> DEFINE d == Depth
           g == NewFrame(Ast[f.node].kids[k])
<1>1. StackInv'
  BY DescendKeeps DEF GenInv
<1>2. stack \in Seq(Frame) /\ stack # <<>> /\ d \in Nat /\ d >= 1
  BY TopIsFrame DEF GenInv, StackInv, Generating
<1>3. /\ Depth' = d + 1
      /\ \A j \in 1..(d - 1) : stack'[j] = stack[j]
      /\ stack'[d] = f
      /\ stack'[d + 1] = g
  BY <1>2, DescendShape DEF Depth
<1>4. result' \in Int
  BY DEF Descend, GenInv, TypeOK
<1>5. BlocksExist(g, fn')
  BY DEF BlocksExist, NewFrame
<1>6. ASSUME NEW j \in 1..Depth' PROVE BlocksExist(stack'[j], fn')
  <2>1. j \in 1..(d - 1) \/ j = d \/ j = d + 1
    BY <1>2, <1>3
  <2>2. CASE j \in 1..(d - 1)
    <3>1. j \in 1..Depth
      BY <1>2, <2>2
    <3> QED
      BY <1>3, <2>2, <3>1, BlocksStay
  <2> QED
    BY <1>3, <1>5, <2>1, <2>2
<1> QED
  BY <1>1, <1>4, <1>6, TypesAfter

\* A step that returns.
LEMMA ReturnStep ==
  ASSUME GenInv, Generating, Changes, NEW v \in Int, Return(v)
  PROVE  GenInv'
<1> DEFINE d == Depth
<1>1. StackInv'
  BY ReturnKeeps DEF GenInv
<1>2. stack \in Seq(Frame) /\ stack # <<>> /\ d \in Nat /\ d >= 1
  BY TopIsFrame DEF GenInv, StackInv, Generating
<1>3. /\ Depth' = d - 1
      /\ \A j \in 1..(d - 2) : stack'[j] = stack[j]
      /\ d > 1 => /\ stack'[d - 1] = [stack[d - 1] EXCEPT !.vals = Append(@, v)]
                  /\ result' = result
      /\ d = 1 => result' = v
  BY <1>2, ReturnShape DEF Depth
<1>4. result' \in Int
  BY <1>2, <1>3 DEF GenInv, TypeOK
<1>5. ASSUME NEW j \in 1..Depth' PROVE BlocksExist(stack'[j], fn')
  <2>1. j \in 1..Depth /\ (j \in 1..(d - 2) \/ (d > 1 /\ j = d - 1))
    BY <1>2, <1>3
  <2>2. stack[j] \in Frame
    BY <1>2, <2>1 DEF Depth
  <2>3. stack'[j].bbs = stack[j].bbs
    BY <1>3, <2>1, <2>2 DEF Frame
  <2> QED
    BY <2>1, <2>3, BlocksStay DEF BlocksExist
<1> QED
  BY <1>1, <1>4, <1>5, TypesAfter

\* A step that goes on in the same activation.
LEMMA ReplaceStep ==
  ASSUME GenInv, Generating, Changes, NEW f \in Frame, f.node = Top.node,
         stack' = Append(Below, f), UNCHANGED result, GoesOn(f), f.bbs = Top.bbs
  PROVE  GenInv'
<1> DEFINE d == Depth
<1>1. StackInv'
  BY ReplaceKeeps DEF GenInv
<1>2. stack \in Seq(Frame) /\ stack # <<>> /\ d \in Nat /\ d >= 1
  BY TopIsFrame DEF GenInv, StackInv, Generating
<1>3. /\ Depth' = d
      /\ \A j \in 1..(d - 1) : stack'[j] = stack[j]
      /\ stack'[d] = f
  BY <1>2, ReplaceShape DEF Depth
<1>4. result' \in Int
  BY DEF GenInv, TypeOK
<1>5. ASSUME NEW j \in 1..Depth' PROVE BlocksExist(stack'[j], fn')
  <2>1. j \in 1..Depth /\ (j \in 1..(d - 1) \/ j = d)
    BY <1>2, <1>3
  <2>2. stack'[j].bbs = stack[j].bbs
    BY <1>3, <2>1 DEF Top
  <2> QED
    BY <2>1, <2>2, BlocksStay DEF BlocksExist
<1> QED
  BY <1>1, <1>4, <1>5, TypesAfter

-----------------------------------------------------------------------------
(* Where the innermost activation is. *)

\* What is known of the innermost activation.
LEMMA AtTop ==
  ASSUME GenInv, Generating
  PROVE  /\ stack \in Seq(Frame) /\ stack # <<>> /\ Depth \in Nat /\ Depth >= 1
         /\ Top \in Frame /\ Top.node \in Node
         /\ Top.vals \in Seq(Int) /\ Top.old \in Seq(Slot) /\ Top.bbs \in Seq(Nat)
         /\ Done \in Nat /\ Done = Len(Top.vals) /\ Done <= Arity(Top.node)
         /\ \A i \in 1..Done : Top.vals[i] \in Int
         /\ TopAst = Ast[Top.node]
         /\ Arity(Top.node) = Len(TopAst.kids)
         /\ FnOK(fn)
         /\ BlocksExist(Top, fn)
         /\ NamedValues \in [Var -> Slot]
         /\ ModuleOK(TheModule)
         /\ fault \in Faults
<1>1. stack \in Seq(Frame) /\ stack # <<>>
  BY DEF GenInv, StackInv, Generating
<1>2. Done = Len(Top.vals) /\ TopAst = Ast[Top.node]
  BY DEF Done, TopAst
<1>3. /\ Top \in Frame /\ Top.node \in Node /\ Depth \in Nat /\ Depth >= 1
      /\ Top.vals \in Seq(Int) /\ Top.old \in Seq(Slot) /\ Top.bbs \in Seq(Nat)
      /\ Done \in Nat
  BY <1>1, TopIsFrame
<1>4. Arity(Top.node) = Len(TopAst.kids) /\ Arity(Top.node) \in Nat
  BY <1>2, <1>3, NodeShape
<1>5. Done <= Arity(Top.node)
  <2>1. CASE GotValue(Top)
    BY <2>1, <1>2 DEF GotValue
  <2>2. CASE GoesOn(Top)
    BY <2>2, <1>2, <1>3, <1>4 DEF GoesOn
  <2> QED
    BY <2>1, <2>2 DEF GenInv, StackInv
<1>6. BlocksExist(Top, fn)
  <2>1. Depth \in 1..Depth
    BY <1>3
  <2>2. \A j \in 1..Depth : \A i \in 1..Len(stack[j].bbs) : stack[j].bbs[i] \in 1..Len(fn.blocks)
    BY DEF GenInv, TypeOK, BlockIds
  <2> QED
    BY <2>1, <2>2 DEF BlocksExist, Top
<1>7. /\ NamedValues \in [Var -> Slot] /\ ModuleOK(TheModule) /\ fault \in Faults
      /\ FnOK(fn)
  BY DEF GenInv, TypeOK, ModuleOK
<1> QED
  BY <1>1, <1>2, <1>3, <1>4, <1>5, <1>6, <1>7

\* Only a var/in leaves a child out.
LEMMA NextIsNode ==
  ASSUME GenInv, Generating, Done < Arity(Top.node), TopAst.kind # "varin"
  PROVE  TopAst.kids[Done + 1] # NoNode
<1>1. Top.node \in Node /\ TopAst = Ast[Top.node] /\ Done \in Nat
  BY AtTop
<1>2. Done + 1 \in 1..Arity(Top.node)
  BY <1>1, NodeShape
<1> QED
  BY <1>1, <1>2, KidIsNode

\* The value of the latest child.
LEMMA LatestInt ==
  ASSUME GenInv, Generating, Done > 0
  PROVE  Latest \in Int /\ Latest = Top.vals[Done]
BY AtTop DEF Latest

\* Where the latest child did not fail, none did, short of a binary operator.
LEMMA NoNulls ==
  ASSUME GenInv, Generating, Done = 0 \/ Latest # Null
  PROVE  NullFree(Top, 0)
<1>1. CASE GotValue(Top)
  <2>1. NullFree(Top, Done) /\ Done > 0
    BY <1>1, AtTop DEF GotValue
  <2>2. Top.vals[Done] # Null
    BY <2>1, LatestInt
  <2> QED
    BY <2>1, <2>2 DEF NullFree
<1>2. CASE GoesOn(Top)
  BY <1>2 DEF GoesOn
<1> QED
  BY <1>1, <1>2 DEF GenInv, StackInv

\* A child that is only called never needs more than was prepared for it.
LEMMA FitsNext ==
  ASSUME GenInv, Generating,
         \/ TopAst.kind \in {"num", "var", "unary", "binary", "call"}
         \/ TopAst.kind \in {"if", "for"} /\ Done # 1
         \/ TopAst.kind = "varin" /\ Done = Len(Top.old)
  PROVE  Fits(Top, Done + 1)
<1>1. Top.node \in Node /\ Done \in Nat /\ Done = Len(Top.vals) /\ TopAst = Ast[Top.node]
  BY AtTop
<1>2. CASE GoesOn(Top)
  BY <1>1, <1>2 DEF GoesOn
<1>3. CASE GotValue(Top)
  <2>1. Done >= 1 /\ Fits(Top, Done)
    BY <1>1, <1>3 DEF GotValue
  <2>2. CASE TopAst.kind \in {"num", "var", "unary", "binary", "call"}
    BY <1>1, <2>1, <2>2 DEF Fits, BoundFor, BlocksHeld
  <2>3. CASE TopAst.kind = "if" /\ Done # 1
    BY <1>1, <2>1, <2>3 DEF Fits, BoundFor, BlocksHeld
  <2>4. CASE TopAst.kind = "for" /\ Done # 1
    BY <1>1, <2>1, <2>4 DEF Fits, BoundFor, BlocksHeld
  <2>5. CASE TopAst.kind = "varin" /\ Done = Len(Top.old)
    <3>1. Len(Top.old) = Done - 1
      BY <1>1, <2>1, <2>5 DEF Fits, BoundFor
    <3> QED
      BY <1>1, <2>5, <3>1
  <2> QED
    BY <2>2, <2>3, <2>4, <2>5
<1> QED
  BY <1>2, <1>3 DEF GenInv, StackInv

\* Calling the next child and changing nothing but the module.
LEMMA CallNext ==
  ASSUME GenInv, Generating, Done < Arity(Top.node), Fits(Top, Done + 1),
         NullFree(Top, 0), TopAst.kids[Done + 1] # NoNode,
         Descend(Top, Done + 1), UNCHANGED <<NamedValues, fn, fault, FunctionProtos>>,
         ModuleOK(TheModule')
  PROVE  GenInv'
<1>1. Done + 1 \in 1..Arity(Top.node)
  BY AtTop, NodeShape
<1>2. fn.blocks \in Seq(Block)
  BY AtTop DEF FnOK, FnRecord
<1>3. Changes
  BY <1>2, AtTop DEF Changes
<1> QED
  BY <1>1, <1>3, AtTop, DescendStep

\* Returning without touching the function.
LEMMA PlainReturn ==
  ASSUME GenInv, Generating, NEW v \in Int, Return(v),
         UNCHANGED <<fn, fault, FunctionProtos>>,
         NamedValues' \in [Var -> Slot], ModuleOK(TheModule')
  PROVE  GenInv'
<1>1. fn.blocks \in Seq(Block)
  BY AtTop DEF FnOK, FnRecord
<1>2. Changes
  BY <1>1, AtTop DEF Changes
<1> QED
  BY <1>2, ReturnStep

\* Returning after adding to the function.
LEMMA BuildAndReturn ==
  ASSUME GenInv, Generating, NEW v \in Int, Return(v), Builds(fn, fn'),
         UNCHANGED <<fault, FunctionProtos>>,
         NamedValues' \in [Var -> Slot], ModuleOK(TheModule')
  PROVE  GenInv'
<1>1. Changes
  BY AtTop DEF Changes, Builds
<1> QED
  BY <1>1, ReturnStep

\* getFunction() leaves a well-typed module.
LEMMA WithDeclKeeps ==
  ASSUME GenInv, NEW f \in Fn
  PROVE  ModuleOK(WithDecl(f))
<1>1. ModuleOK(TheModule) /\ IsMap(FunctionProtos, Fn, Seq(Var))
  BY DEF GenInv, TypeOK, ModuleOK
<1>2. CASE f \in DOMAIN TheModule \/ f \notin DOMAIN FunctionProtos
  BY <1>1, <1>2 DEF WithDecl
<1>3. CASE f \notin DOMAIN TheModule /\ f \in DOMAIN FunctionProtos
  <2> DEFINE m == [args |-> FunctionProtos[f], body |-> FALSE]
  <2>1. m \in [args : Seq(Var), body : BOOLEAN]
    BY <1>1, <1>3 DEF IsMap
  <2>2. WithDecl(f) = Put(TheModule, f, m)
    BY <1>3 DEF WithDecl
  <2> HIDE DEF m
  <2> QED
    BY <1>1, <2>1, <2>2 DEF ModuleOK, IsMap, Put
<1> QED
  BY <1>2, <1>3

\* The functions an expression can name.
LEMMA NamesAreFn ==
  ASSUME GenInv, Generating
  PROVE  /\ TopAst.kind = "unary" => UnaryFn(TopAst.name) \in Fn
         /\ TopAst.kind = "binary" => BinaryFn(TopAst.name) \in Fn
         /\ TopAst.kind = "call" => CalleeFn \in Fn
         /\ TopAst.kind \in {"var", "for"} => TopAst.name \in Var
<1>1. Top.node \in Node /\ TopAst = Ast[Top.node]
  BY AtTop
<1> QED
  BY <1>1, AstAssumption DEF Fn, UnaryFn, BinaryFn, NamedFn, CalleeFn

-----------------------------------------------------------------------------
(* One lemma per construct: its actions keep the invariant. *)

\* A failed child: the error is passed on.
LEMMA FailKeeps ==
  ASSUME GenInv, UNCHANGED FunctionProtos, NEW kind, FailWith(kind)
  PROVE  GenInv'
<1>1. Generating /\ Return(Null) /\ UNCHANGED <<NamedValues, TheModule, fn, fault>>
  BY DEF FailWith, Generating
<1>2. NamedValues \in [Var -> Slot] /\ ModuleOK(TheModule)
  BY <1>1, AtTop
<1>3. NamedValues' \in [Var -> Slot] /\ ModuleOK(TheModule')
  BY <1>1, <1>2
<1>4. UNCHANGED <<fn, fault, FunctionProtos>>
  BY <1>1
<1>5. Null \in Int
  BY DEF Null
<1> QED
  BY <1>1, <1>3, <1>4, <1>5, PlainReturn

\* Numbers and variables.
LEMMA LeafKeeps ==
  ASSUME GenInv, UNCHANGED FunctionProtos, Number \/ Variable
  PROVE  GenInv'
<1>1. Generating
  BY DEF Number, Variable, VariableLoad, VariableUnknown, At, Generating
<1>2. CASE Number
  BY <1>1, <1>2, AtTop, PlainReturn DEF Number, Const
<1>3. CASE VariableUnknown
  BY <1>1, <1>3, AtTop, PlainReturn DEF VariableUnknown, Null
<1>4. CASE VariableLoad
  <2>1. NamedValues[TopAst.name] \in Slot
    BY <1>1, <1>4, AtTop, NamesAreFn DEF VariableLoad, At
  <2>2. /\ fn' = Resolve(fn, Top.node, NamedValues[TopAst.name])
        /\ Return(fn.cur) /\ UNCHANGED <<NamedValues, TheModule, fault>>
    BY <1>4 DEF VariableLoad
  <2>3. FnOK(fn') /\ fn'.blocks = fn.blocks
    BY <1>1, <2>1, <2>2, AtTop, ResolveKeeps
  <2>4. fn.cur \in Int /\ Len(fn.blocks) \in Nat
    BY <1>1, AtTop DEF FnOK, FnRecord
  <2>5. Changes
    BY <1>1, <2>2, <2>3, <2>4, AtTop DEF Changes
  <2> QED
    BY <1>1, <2>2, <2>4, <2>5, ReturnStep
<1> QED
  BY <1>2, <1>3, <1>4 DEF Variable

\* Unary operators.
LEMMA UnaryKeeps ==
  ASSUME GenInv, UNCHANGED FunctionProtos, Unary
  PROVE  GenInv'
<1>1. CASE FailWith("unary")
  BY <1>1, FailKeeps
<1>2. CASE UnaryUnknown
  <2>1. Generating /\ Return(Null)
    BY <1>2 DEF UnaryUnknown, At, Generating
  <2> QED
    BY <1>2, <2>1, AtTop, PlainReturn DEF UnaryUnknown, Null
<1>3. CASE UnaryOperand
  <2>1. Generating /\ TopAst.kind = "unary" /\ Done = 0 /\ Descend(Top, Done + 1)
    BY <1>3 DEF UnaryOperand, At, Generating
  <2>2. Fits(Top, Done + 1) /\ NullFree(Top, 0)
    BY <2>1, FitsNext, NoNulls
  <2>3. Done < Arity(Top.node)
    BY <2>1, AtTop, NodeShape
  <2>4. TopAst.kids[Done + 1] # NoNode
    BY <2>1, <2>3, NextIsNode
  <2> QED
    BY <1>3, <2>1, <2>2, <2>3, <2>4, AtTop, CallNext DEF UnaryOperand
<1>4. CASE UnaryCall
  <2> DEFINE f == UnaryFn(TopAst.name)
  <2>1. /\ Generating /\ TopAst.kind = "unary" /\ Done = 1 /\ Return(fn.cur)
        /\ TheModule' = WithDecl(f) /\ UNCHANGED <<NamedValues, fault>>
        /\ fn' = AddCall(Use(fn, {Latest}), f, 1)
    BY <1>4 DEF UnaryCall, At, Generating
  <2>2. f \in Fn /\ ModuleOK(TheModule') /\ FnOK(fn) /\ fn.cur \in Int
    <3>1. f \in Fn
      BY <2>1, NamesAreFn
    <3>2. ModuleOK(TheModule')
      BY <2>1, <3>1, WithDeclKeeps
    <3>3. FnOK(fn)
      BY <2>1, AtTop
    <3>4. fn.cur \in Int
      BY <3>3 DEF FnOK, FnRecord
    <3> QED
      BY <3>1, <3>2, <3>3, <3>4
  <2>3. Builds(fn, Use(fn, {Latest})) /\ FnOK(Use(fn, {Latest}))
    BY <2>1, <2>2, LatestInt, UseBuilds DEF Builds
  <2>4. Builds(fn, fn')
    BY <2>1, <2>2, <2>3, AddCallBuilds, BuildsTransitive
  <2> QED
    BY <2>1, <2>2, <2>4, AtTop, BuildAndReturn
<1> QED
  BY <1>1, <1>2, <1>3, <1>4 DEF Unary

\* The process dies in the middle of a generation.
LEMMA DeathKeeps ==
  ASSUME GenInv, fault' \in Faults,
         UNCHANGED <<stack, result, NamedValues, FunctionProtos, TheModule, fn>>
  PROVE  GenInv'
<1>1. TypeOK'
  BY DEF GenInv, TypeOK, Depth, BlockIds
<1>2. StackInv'
  BY DEF GenInv, StackInv, Depth, Top, Generating
<1> QED
  BY <1>1, <1>2 DEF GenInv, Generating

\* The two operands of a binary operator have values.
LEMMA OperandsInt ==
  ASSUME GenInv, Generating, Done = 2
  PROVE  Operands \in SUBSET Int /\ Latest = Top.vals[2]
BY AtTop DEF Operands, Latest

\* Assignments.
LEMMA AssignKeeps ==
  ASSUME GenInv, UNCHANGED FunctionProtos,
         AssignEnter \/ AssignStore \/ AssignUnknown \/ AssignUndefined
  PROVE  GenInv'
<1>1. /\ Generating /\ TopAst.kind = "binary" /\ IsAssign
      /\ Top.node \in Node /\ TopAst = Ast[Top.node] /\ Arity(Top.node) = 2
  BY AtTop, NodeShape DEF AssignEnter, AssignStore, AssignUnknown, AssignUndefined, At, Generating
<1>2. CASE AssignEnter
  <2> DEFINE f == [Top EXCEPT !.vals = <<Const>>]
  <2>1. Done = 0 /\ Descend(f, 2) /\ UNCHANGED <<NamedValues, TheModule, fn, fault>>
    BY <1>2 DEF AssignEnter, At
  <2>2. /\ f \in Frame /\ f.node = Top.node /\ f.old = Top.old /\ f.bbs = Top.bbs
        /\ Len(f.vals) = 2 - 1 /\ f.vals[1] = Const
    <3> DEFINE vals == <<Const>>
    <3>1. vals \in Seq(Int) /\ Len(vals) = 1 /\ vals[1] = Const
      BY DEF Const
    <3> HIDE DEF vals
    <3>2. f = [Top EXCEPT !.vals = vals]
      BY DEF vals
    <3> HIDE DEF f
    <3>3. Top \in Frame
      BY <1>1, AtTop
    <3>4. /\ f \in Frame /\ f.node = Top.node /\ f.old = Top.old /\ f.bbs = Top.bbs
          /\ f.vals = vals
      BY <3>1, <3>2, <3>3 DEF Frame
    <3> QED
      BY <3>1, <3>4
  <2> HIDE DEF f
  <2>3. Fits(f, 2)
    <3>1. Fits(Top, 1)
      BY <1>1, <2>1, FitsNext
    <3> QED
      BY <1>1, <2>2, <3>1 DEF Fits, BoundFor, BlocksHeld
  <2>4. NullFree(f, 0)
    BY <2>2 DEF NullFree, Const, Null
  <2>5. 2 \in 1..Arity(f.node) /\ Ast[f.node].kids[2] # NoNode
    BY <1>1, <2>2, KidIsNode
  <2>6. Changes
    BY <1>1, <2>1, AtTop DEF Changes, FnOK, FnRecord
  <2>7. BlocksExist(f, fn')
    BY <1>1, <2>1, <2>2, AtTop DEF BlocksExist
  <2> QED
    BY <1>1, <2>1, <2>2, <2>3, <2>4, <2>5, <2>6, <2>7, DescendStep
<1>3. CASE AssignStore
  <2> DEFINE s == NamedValues[CastName(Lhs)]
             g == Resolve(fn, Lhs, s)
  <2>1. /\ Done = 2 /\ CastName(Lhs) \in Var /\ Return(Latest)
        /\ UNCHANGED <<NamedValues, TheModule, fault>>
        /\ fn' = Use(g, {Latest})
    BY <1>3 DEF AssignStore, At
  <2>2. Lhs \in Node
    BY <1>1, KidIsNode DEF Lhs
  <2>3. s \in Slot /\ FnOK(fn) /\ Len(fn.blocks) \in Nat /\ Latest \in Int
    BY <1>1, <2>1, AtTop, LatestInt DEF FnOK, FnRecord
  <2>4. FnOK(g) /\ g.blocks = fn.blocks
    BY <2>2, <2>3, ResolveKeeps
  <2>5. FnOK(fn') /\ fn'.blocks = fn.blocks
    BY <2>1, <2>3, <2>4, UseBuilds DEF Builds
  <2>6. Changes
    BY <1>1, <2>1, <2>3, <2>5, AtTop DEF Changes
  <2> QED
    BY <1>1, <2>1, <2>3, <2>6, ReturnStep
<1>4. CASE AssignUnknown
  BY <1>1, <1>4, AtTop, PlainReturn DEF AssignUnknown, Null
<1>5. CASE AssignUndefined
  BY <1>5, DeathKeeps DEF AssignUndefined, Faults
<1> QED
  BY <1>2, <1>3, <1>4, <1>5

\* Binary operators, assignments among them.
LEMMA BinaryKeeps ==
  ASSUME GenInv, UNCHANGED FunctionProtos, Binary
  PROVE  GenInv'
<1>1. CASE AssignEnter \/ AssignStore \/ AssignUnknown \/ AssignUndefined
  BY <1>1, AssignKeeps
<1>2. ASSUME BinaryLHS \/ BinaryRHS PROVE GenInv'
  <2>1. /\ Generating /\ TopAst.kind = "binary" /\ ~IsAssign /\ Done \in {0, 1}
        /\ Descend(Top, Done + 1) /\ UNCHANGED <<NamedValues, TheModule, fn, fault>>
    BY <1>2 DEF BinaryLHS, BinaryRHS, At, Generating
  <2>2. Top.node \in Node /\ TopAst = Ast[Top.node] /\ Arity(Top.node) = 2
    BY <2>1, AtTop, NodeShape
  <2>3. NullFree(Top, 0)
    BY <2>1, <2>2 DEF NullFree, CarriesOn, IsAssign
  <2>4. Fits(Top, Done + 1)
    BY <2>1, FitsNext
  <2>5. Done < Arity(Top.node) /\ TopAst.kids[Done + 1] # NoNode
    BY <2>1, <2>2, KidIsNode
  <2> QED
    BY <2>1, <2>3, <2>4, <2>5, AtTop, CallNext
<1>3. CASE BinaryBuiltin
  <2>1. /\ Generating /\ Done = 2 /\ fn' = Use(fn, Operands)
        /\ Return(fn.cur) /\ UNCHANGED <<NamedValues, TheModule, fault>>
    BY <1>3 DEF BinaryBuiltin, At, Generating
  <2>2. FnOK(fn) /\ fn.cur \in Int
    BY <2>1, AtTop DEF FnOK, FnRecord
  <2>3. Builds(fn, fn')
    BY <2>1, <2>2, OperandsInt, UseBuilds
  <2> QED
    BY <2>1, <2>2, <2>3, AtTop, BuildAndReturn
<1>4. CASE BinaryUser
  <2> DEFINE f == BinaryFn(TopAst.name)
             g == Use(fn, Operands)
  <2>1. /\ Generating /\ TopAst.kind = "binary" /\ Done = 2 /\ Return(fn.cur)
        /\ TheModule' = WithDecl(f) /\ UNCHANGED <<NamedValues, fault>>
        /\ fn' = AddCall(g, f, 2)
    BY <1>4 DEF BinaryUser, At, Generating
  <2>2. f \in Fn /\ ModuleOK(TheModule') /\ FnOK(fn) /\ fn.cur \in Int
    <3>1. f \in Fn
      BY <2>1, NamesAreFn
    <3>2. ModuleOK(TheModule')
      BY <2>1, <3>1, WithDeclKeeps
    <3>3. FnOK(fn)
      BY <2>1, AtTop
    <3>4. fn.cur \in Int
      BY <3>3 DEF FnOK, FnRecord
    <3> QED
      BY <3>1, <3>2, <3>3, <3>4
  <2>3. Builds(fn, g) /\ FnOK(g)
    BY <2>1, <2>2, OperandsInt, UseBuilds DEF Builds
  <2>4. Builds(fn, fn')
    BY <2>1, <2>2, <2>3, AddCallBuilds, BuildsTransitive
  <2> QED
    BY <2>1, <2>2, <2>4, AtTop, BuildAndReturn
<1>5. CASE BinaryAssertFails
  BY <1>5, DeathKeeps DEF BinaryAssertFails, Faults
<1>6. CASE BinaryFail
  <2>1. Generating
    BY <1>6 DEF BinaryFail, At, Generating
  <2> QED
    BY <1>6, <2>1, AtTop, PlainReturn DEF BinaryFail, Null
<1> QED
  BY <1>1, <1>2, <1>3, <1>4, <1>5, <1>6 DEF Binary

\* Calls.
LEMMA CallKeeps ==
  ASSUME GenInv, UNCHANGED FunctionProtos, Call
  PROVE  GenInv'
<1>1. CASE FailWith("call")
  BY <1>1, FailKeeps
<1>2. CASE CallReject
  <2>1. /\ Generating /\ TopAst.kind = "call" /\ TheModule' = WithDecl(CalleeFn)
        /\ Return(Null) /\ UNCHANGED <<NamedValues, fn, fault>>
    BY <1>2 DEF CallReject, At, Generating
  <2>2. ModuleOK(TheModule')
    BY <2>1, NamesAreFn, WithDeclKeeps
  <2> QED
    BY <2>1, <2>2, AtTop, PlainReturn DEF Null
<1>3. CASE CallArgument
  <2>1. /\ Generating /\ TopAst.kind = "call" /\ Done < Len(TopAst.kids)
        /\ Done = 0 \/ Latest # Null
        /\ TheModule' = WithDecl(CalleeFn)
        /\ Descend(Top, Done + 1) /\ UNCHANGED <<NamedValues, fn, fault>>
    BY <1>3 DEF CallArgument, Generating
  <2>2. ModuleOK(TheModule')
    BY <2>1, NamesAreFn, WithDeclKeeps
  <2>3. Fits(Top, Done + 1) /\ NullFree(Top, 0)
    BY <2>1, FitsNext, NoNulls
  <2>4. Done < Arity(Top.node)
    BY <2>1, AtTop
  <2>5. TopAst.kids[Done + 1] # NoNode
    BY <2>1, <2>4, NextIsNode
  <2> QED
    BY <2>1, <2>2, <2>3, <2>4, <2>5, CallNext
<1>4. CASE CallEmit
  <2> DEFINE V == {Top.vals[i] : i \in 1..Done}
             g == Use(fn, V)
  <2>1. /\ Generating /\ TopAst.kind = "call"
        /\ TheModule' = WithDecl(CalleeFn) /\ UNCHANGED <<NamedValues, fault>>
        /\ fn' = AddCall(g, CalleeFn, Done) /\ Return(fn.cur)
    BY <1>4 DEF CallEmit, At, Generating
  <2>2. CalleeFn \in Fn /\ ModuleOK(TheModule')
    BY <2>1, NamesAreFn, WithDeclKeeps
  <2>3. FnOK(fn) /\ fn.cur \in Int
    BY <2>1, AtTop DEF FnOK, FnRecord
  <2>4. V \in SUBSET Int /\ Done \in Nat
    BY <2>1, AtTop
  <2>5. Builds(fn, g) /\ FnOK(g)
    BY <2>3, <2>4, UseBuilds DEF Builds
  <2> HIDE DEF V, g
  <2>6. Builds(fn, fn')
    BY <2>1, <2>2, <2>3, <2>4, <2>5, AddCallBuilds, BuildsTransitive
  <2> QED
    BY <2>1, <2>2, <2>3, <2>6, AtTop, BuildAndReturn
<1> QED
  BY <1>1, <1>2, <1>3, <1>4 DEF Call

\* An if adds three blocks at a time.
LEMMA ThreeBlocksBuild ==
  ASSUME NEW g, FnOK(g)
  PROVE  /\ Builds(g, ThreeBlocks(g)) /\ FnOK(ThreeBlocks(g))
         /\ Len(ThreeBlocks(g).blocks) = Len(g.blocks) + 3
<1> DEFINE x == AddBlock(g, TRUE)
           y == AddBlock(x, FALSE)
           z == AddBlock(y, FALSE)
<1>1. Len(g.blocks) \in Nat /\ TRUE \in BOOLEAN /\ FALSE \in BOOLEAN
  BY DEF FnOK, FnRecord
<1>2. Builds(g, x) /\ FnOK(x) /\ Len(x.blocks) = Len(g.blocks) + 1
  BY <1>1, AddBlockBuilds DEF Builds
<1>3. Builds(x, y) /\ FnOK(y) /\ Len(y.blocks) = Len(x.blocks) + 1
  <2> HIDE DEF x
  <2> QED
    BY <1>1, <1>2, AddBlockBuilds DEF Builds
<1>4. Builds(y, z) /\ FnOK(z) /\ Len(z.blocks) = Len(y.blocks) + 1
  <2> HIDE DEF y
  <2> QED
    BY <1>1, <1>3, AddBlockBuilds DEF Builds
<1>5. z = ThreeBlocks(g)
  BY DEF ThreeBlocks
<1> HIDE DEF x, y, z
<1>6. Builds(g, z)
  BY <1>2, <1>3, <1>4, BuildsTransitive
<1> QED
  BY <1>1, <1>2, <1>3, <1>4, <1>5, <1>6

\* What an if that has begun its branches holds.
LEMMA IfHolds ==
  ASSUME GenInv, Generating, TopAst.kind = "if", Done >= 2
  PROVE  Len(Top.bbs) = 3 /\ \A i \in 1..3 : Top.bbs[i] \in 1..Len(fn.blocks)
<1>1. Fits(Top, Done + 1)
  BY AtTop, FitsNext
<1>2. Len(Top.bbs) = 3
  BY <1>1, AtTop DEF Fits, BlocksHeld
<1> QED
  BY <1>2, AtTop DEF BlocksExist

\* If: the three blocks it holds are the function's.
LEMMA IfKeeps ==
  ASSUME GenInv, UNCHANGED FunctionProtos, If
  PROVE  GenInv'
<1>1. CASE FailWith("if")
  BY <1>1, FailKeeps
<1>2. SUFFICES ASSUME Generating, TopAst.kind = "if",
                      IfCondition \/ IfThen \/ IfElse \/ IfMerge
               PROVE  GenInv'
  BY <1>1 DEF If, IfCondition, IfThen, IfElse, IfMerge, At, Generating
<1>3. /\ Top \in Frame /\ Top.node \in Node /\ TopAst = Ast[Top.node]
      /\ Arity(Top.node) = 3 /\ Done = Len(Top.vals) /\ FnOK(fn)
      /\ fn.blocks \in Seq(Block) /\ Len(fn.blocks) \in Nat /\ fn.cur \in Nat
  <2>1. Top \in Frame /\ Top.node \in Node /\ TopAst = Ast[Top.node] /\ Done = Len(Top.vals)
    BY <1>2, AtTop
  <2>2. Arity(Top.node) = 3
    BY <1>2, <2>1, NodeShape
  <2>3. FnOK(fn)
    BY <1>2, AtTop
  <2>4. fn.blocks \in Seq(Block) /\ fn.cur \in Nat
    BY <2>3 DEF FnOK, FnRecord
  <2> QED
    BY <2>1, <2>2, <2>3, <2>4
<1>4. \A k \in 1..3 : TopAst.kids[k] # NoNode
  BY <1>2, <1>3, KidIsNode
<1>5. CASE IfCondition
  <2>1. Done = 0 /\ Descend(Top, Done + 1) /\ UNCHANGED <<NamedValues, TheModule, fn, fault>>
    BY <1>5 DEF IfCondition, At
  <2>2. Fits(Top, Done + 1) /\ NullFree(Top, 0)
    BY <1>2, <2>1, FitsNext, NoNulls
  <2>3. Done < Arity(Top.node) /\ TopAst.kids[Done + 1] # NoNode
    BY <1>3, <1>4, <2>1
  <2> QED
    BY <1>2, <2>1, <2>2, <2>3, AtTop, CallNext
<1>6. CASE IfThen
  <2> DEFINE n == Len(fn.blocks)
             t == ThreeBlocks(fn)
             u == Use(t, {Latest})
             b == Br(u, {n + 1, n + 2})
             bbs == <<n + 1, n + 2, n + 3>>
             f == [Top EXCEPT !.bbs = bbs]
  <2>1. /\ Done = 1 /\ Latest # Null /\ fn' = SetInsertPoint(b, n + 1)
        /\ Descend(f, 2) /\ UNCHANGED <<NamedValues, TheModule, fault>>
    BY <1>6 DEF IfThen, At
  <2>2. Builds(fn, t) /\ FnOK(t) /\ Len(t.blocks) = n + 3
    BY <1>3, ThreeBlocksBuild
  <2> HIDE DEF t
  <2>3. Builds(t, u) /\ FnOK(u) /\ Len(u.blocks) = n + 3
    BY <1>2, <2>1, <2>2, LatestInt, UseBuilds DEF Builds
  <2> HIDE DEF u
  <2>4. Builds(u, b) /\ FnOK(b) /\ Len(b.blocks) = n + 3
    <3>1. {n + 1, n + 2} \in SUBSET Nat
      BY <1>3
    <3> QED
      BY <2>3, <3>1, BrBuilds DEF Builds
  <2> HIDE DEF b
  <2>5. Builds(b, fn') /\ Len(fn'.blocks) = n + 3
    <3>1. n + 1 \in 1..Len(b.blocks)
      BY <1>3, <2>4
    <3> QED
      BY <2>1, <2>4, <3>1, SetInsertPointBuilds
  <2>6. Builds(fn, fn')
    BY <1>3, <2>2, <2>3, <2>4, <2>5, BuildsTransitive
  <2>7. /\ f \in Frame /\ f.node = Top.node /\ f.old = Top.old /\ f.vals = Top.vals
        /\ f.bbs = bbs
    <3>1. bbs \in Seq(Nat)
      BY <1>3
    <3> HIDE DEF bbs
    <3> QED
      BY <1>3, <3>1 DEF Frame
  <2>8. Len(bbs) = 3 /\ \A i \in 1..3 : bbs[i] \in 1..(n + 3)
    BY <1>3
  <2> HIDE DEF f, bbs
  <2>9. BlocksExist(f, fn')
    BY <2>5, <2>7, <2>8 DEF BlocksExist
  <2>10. Fits(f, 2)
    <3>1. Len(Top.old) = 0
      BY <1>2, <1>3, <2>1, AtTop DEF GenInv, StackInv, GotValue, GoesOn, Fits, BoundFor
    <3> QED
      BY <1>2, <1>3, <2>7, <2>8, <3>1 DEF Fits, BoundFor, BlocksHeld
  <2>11. NullFree(f, 0)
    BY <1>2, <2>1, <2>7, NoNulls DEF NullFree
  <2>12. Changes
    BY <1>2, <2>1, <2>6, AtTop DEF Changes, Builds
  <2>13. /\ 2 \in 1..Arity(f.node) /\ Ast[f.node].kids[2] # NoNode
         /\ Len(f.vals) = 2 - 1
    <3>1. f.node = Top.node /\ f.vals = Top.vals
      BY <2>7
    <3>2. 2 \in 1..Arity(Top.node) /\ Ast[Top.node].kids[2] # NoNode
      BY <1>3, <1>4
    <3>3. Len(Top.vals) = 2 - 1
      BY <1>3, <2>1
    <3> QED
      BY <3>1, <3>2, <3>3
  <2> QED
    BY <1>2, <2>1, <2>7, <2>9, <2>10, <2>11, <2>12, <2>13, DescendStep
<1>7. CASE IfElse
  <2> DEFINE b == Br(fn, {Top.bbs[3]})
             p == Place(b, Top.bbs[2])
             f == [Top EXCEPT !.bbs[1] = ThenEnd]
  <2>1. /\ Done = 2 /\ Latest # Null /\ fn' = SetInsertPoint(p, Top.bbs[2])
        /\ Descend(f, 3) /\ UNCHANGED <<NamedValues, TheModule, fault>>
    BY <1>7 DEF IfElse, At
  <2>2. Len(Top.bbs) = 3 /\ \A i \in 1..3 : Top.bbs[i] \in 1..Len(fn.blocks)
    BY <1>2, <2>1, IfHolds
  <2>3. Builds(fn, b) /\ FnOK(b) /\ Len(b.blocks) = Len(fn.blocks)
    <3>1. {Top.bbs[3]} \in SUBSET Nat
      BY <1>3, <2>2
    <3> QED
      BY <1>3, <3>1, BrBuilds DEF Builds
  <2> HIDE DEF b
  <2>4. Builds(b, p) /\ FnOK(p) /\ Len(p.blocks) = Len(fn.blocks)
    BY <2>2, <2>3, PlaceBuilds DEF Builds
  <2> HIDE DEF p
  <2>5. Builds(p, fn') /\ Len(fn'.blocks) = Len(fn.blocks)
    BY <2>1, <2>2, <2>4, SetInsertPointBuilds
  <2>6. Builds(fn, fn')
    BY <1>3, <2>3, <2>4, <2>5, BuildsTransitive
  <2>7. /\ f \in Frame /\ f.node = Top.node /\ f.old = Top.old /\ f.vals = Top.vals
        /\ Len(f.bbs) = 3 /\ \A i \in 1..3 : f.bbs[i] \in 1..Len(fn.blocks)
    <3> DEFINE bbs == [Top.bbs EXCEPT ![1] = ThenEnd]
    <3>1. Top.bbs \in Seq(Nat) /\ ThenEnd \in 1..Len(fn.blocks) /\ ThenEnd \in Nat
      BY <1>3 DEF ThenEnd, FnOK, Frame
    <3>2. /\ bbs \in Seq(Nat) /\ Len(bbs) = 3
          /\ \A i \in 1..3 : bbs[i] \in 1..Len(fn.blocks)
      BY <2>2, <3>1
    <3>3. f = [Top EXCEPT !.bbs = bbs]
      OBVIOUS
    <3> HIDE DEF bbs, f
    <3>4. /\ f \in Frame /\ f.node = Top.node /\ f.old = Top.old /\ f.vals = Top.vals
          /\ f.bbs = bbs
      BY <1>3, <3>2, <3>3 DEF Frame
    <3> QED
      BY <3>2, <3>4
  <2> HIDE DEF f
  <2>8. BlocksExist(f, fn')
    BY <2>5, <2>7 DEF BlocksExist
  <2>9. Fits(f, 3)
    <3>1. Fits(Top, Done + 1)
      BY <1>2, <2>1, FitsNext
    <3> QED
      BY <1>2, <1>3, <2>1, <2>7, <3>1 DEF Fits, BoundFor, BlocksHeld
  <2>10. NullFree(f, 0)
    BY <1>2, <2>1, <2>7, NoNulls DEF NullFree
  <2>11. Changes
    BY <1>2, <2>1, <2>6, AtTop DEF Changes, Builds
  <2>12. /\ 3 \in 1..Arity(f.node) /\ Ast[f.node].kids[3] # NoNode
         /\ Len(f.vals) = 3 - 1
    <3>1. f.node = Top.node /\ f.vals = Top.vals
      BY <2>7
    <3>2. 3 \in 1..Arity(Top.node) /\ Ast[Top.node].kids[3] # NoNode
      BY <1>3, <1>4
    <3>3. Len(Top.vals) = 3 - 1
      BY <1>3, <2>1
    <3> QED
      BY <3>1, <3>2, <3>3
  <2> QED
    BY <1>2, <2>1, <2>7, <2>8, <2>9, <2>10, <2>11, <2>12, DescendStep
<1>8. CASE IfMerge
  <2> DEFINE m == Top.bbs[3]
             phi == [blk |-> m, in |-> {<<Top.vals[2], Top.bbs[1]>>, <<Latest, fn.cur>>}]
             b == Br(fn, {m})
             p == Place(b, m)
             g == SetInsertPoint(p, m)
  <2>1. /\ Done = 3 /\ fn' = [g EXCEPT !.phis = @ \cup {phi}]
        /\ Return(m) /\ UNCHANGED <<NamedValues, TheModule, fault>>
    BY <1>8 DEF IfMerge, PhiValue, At
  <2>2. /\ m \in 1..Len(fn.blocks) /\ m \in Nat /\ m \in Int
        /\ Top.bbs[1] \in 1..Len(fn.blocks) /\ Top.bbs[1] \in Nat
    BY <1>2, <1>3, <2>1, IfHolds
  <2>3. phi \in [blk : Nat, in : SUBSET (Int \X Nat)]
    <3>1. Top.vals[2] \in Int /\ Latest \in Int
      BY <1>2, <2>1, AtTop, LatestInt
    <3> QED
      BY <1>3, <2>2, <3>1
  <2> HIDE DEF phi
  <2>4. Builds(fn, b) /\ FnOK(b) /\ Len(b.blocks) = Len(fn.blocks)
    BY <1>3, <2>2, BrBuilds DEF Builds
  <2> HIDE DEF b
  <2>5. Builds(b, p) /\ FnOK(p) /\ Len(p.blocks) = Len(fn.blocks)
    BY <2>2, <2>4, PlaceBuilds DEF Builds
  <2> HIDE DEF p
  <2>6. Builds(p, g) /\ FnOK(g)
    BY <2>2, <2>5, SetInsertPointBuilds DEF Builds
  <2> HIDE DEF g
  <2>7. Builds(g, fn')
    BY <2>1, <2>3, <2>6, AddPhiBuilds
  <2>8. Builds(fn, fn')
    BY <1>3, <2>4, <2>5, <2>6, <2>7, BuildsTransitive
  <2> QED
    BY <1>2, <2>1, <2>2, <2>8, AtTop, BuildAndReturn
<1> QED
  BY <1>2, <1>5, <1>6, <1>7, <1>8

\* A for that has begun its body.
LEMMA ForHolds ==
  ASSUME GenInv, Generating, TopAst.kind = "for", Done >= 2
  PROVE  /\ Len(Top.bbs) = 1 /\ Top.bbs[1] \in 1..Len(fn.blocks)
         /\ Len(Top.old) = 1 /\ Top.old[1] \in Slot
<1>1. Fits(Top, Done + 1)
  BY AtTop, FitsNext
<1>2. Len(Top.bbs) = 1 /\ Len(Top.old) = 1
  BY <1>1, AtTop DEF Fits, BlocksHeld, BoundFor
<1> QED
  BY <1>2, AtTop DEF BlocksExist

\* A local slot is a slot.
LEMMA LocalSlotIsSlot ==
  ASSUME NEW n \in Node, NEW i \in Nat
  PROVE  LocalSlot(n, i) \in Slot
BY DEF LocalSlot, Slot

\* For: the loop block and the saved binding.
LEMMA ForKeeps ==
  ASSUME GenInv, UNCHANGED FunctionProtos, For
  PROVE  GenInv'
<1>1. CASE FailWith("for")
  BY <1>1, FailKeeps
<1>2. SUFFICES ASSUME Generating, TopAst.kind = "for",
                      ForStart \/ ForBody \/ ForNext \/ ForLatch
               PROVE  GenInv'
  BY <1>1 DEF For, ForStart, ForBody, ForNext, ForLatch, At, Generating
<1>3. /\ Top \in Frame /\ Top.node \in Node /\ TopAst = Ast[Top.node]
      /\ Arity(Top.node) \in {3, 4} /\ Arity(Top.node) = Len(TopAst.kids)
      /\ Arity(Top.node) \in Nat /\ Arity(Top.node) >= 3
      /\ Done = Len(Top.vals) /\ Done \in Nat /\ FnOK(fn)
      /\ fn.blocks \in Seq(Block) /\ Len(fn.blocks) \in Nat /\ fn.cur \in Nat
      /\ TopAst.names[1] \in Var
  <2>1. /\ Top \in Frame /\ Top.node \in Node /\ TopAst = Ast[Top.node]
        /\ Done = Len(Top.vals) /\ Done \in Nat /\ FnOK(fn)
    BY <1>2, AtTop
  <2>2. /\ Arity(Top.node) \in {3, 4} /\ Arity(Top.node) = Len(TopAst.kids)
        /\ TopAst.names \in Seq(Var) /\ Len(TopAst.names) = 1
    BY <1>2, <2>1, NodeShape
  <2>3. TopAst.names[1] \in Var
    BY <2>2
  <2>4. Arity(Top.node) \in Nat /\ Arity(Top.node) >= 3
    <3>1. Arity(Top.node) \in {3, 4}
      BY <2>2
    <3> QED
      BY <3>1
  <2>5. fn.blocks \in Seq(Block) /\ Len(fn.blocks) \in Nat /\ fn.cur \in Nat
    BY <2>1 DEF FnOK, FnRecord
  <2> QED
    BY <2>1, <2>2, <2>3, <2>4, <2>5
<1>4. \A k \in 1..Arity(Top.node) : TopAst.kids[k] # NoNode
  BY <1>2, <1>3, KidIsNode
<1>5. ASSUME ForStart \/ ForNext PROVE GenInv'
  <2>1. /\ Done # 1 /\ Done < Arity(Top.node)
        /\ Done = 0 \/ Latest # Null
        /\ Descend(Top, Done + 1) /\ UNCHANGED <<NamedValues, TheModule, fn, fault>>
    <3>1. CASE ForStart
      BY <1>3, <3>1 DEF ForStart, At
    <3>2. CASE ForNext
      <4>1. /\ Done >= 2 /\ Done < Len(TopAst.kids) /\ Latest # Null
            /\ Descend(Top, Done + 1) /\ UNCHANGED <<NamedValues, TheModule, fn, fault>>
        BY <3>2 DEF ForNext, MoreChildren
      <4>2. Done # 1
        <5>1. Done \in Nat /\ Done >= 2
          BY <1>3, <4>1
        <5> QED
          BY <5>1
      <4> QED
        BY <1>3, <4>1, <4>2
    <3> QED
      BY <1>5, <3>1, <3>2
  <2>2. Fits(Top, Done + 1) /\ NullFree(Top, 0)
    BY <1>2, <2>1, FitsNext, NoNulls
  <2>3. TopAst.kids[Done + 1] # NoNode
    BY <1>3, <1>4, <2>1
  <2> QED
    BY <1>2, <2>1, <2>2, <2>3, AtTop, CallNext
<1>6. CASE ForBody
  <2> DEFINE loop == Len(fn.blocks) + 1
             v == TopAst.names[1]
             u == Use(fn, {Latest})
             a == AddBlock(u, TRUE)
             b == Br(a, {loop})
             bbs == <<loop>>
             old == <<NamedValues[v]>>
             f == [Top EXCEPT !.bbs = bbs, !.old = old]
  <2>1. /\ Done = 1 /\ Latest # Null /\ fn' = SetInsertPoint(b, loop)
        /\ NamedValues' = [NamedValues EXCEPT ![v] = LocalSlot(Top.node, 1)]
        /\ Descend(f, 2) /\ UNCHANGED <<TheModule, fault>>
    BY <1>6 DEF ForBody, At
  <2>2. loop \in Nat /\ {loop} \in SUBSET Nat /\ TRUE \in BOOLEAN
    BY <1>3
  <2>3. Builds(fn, u) /\ FnOK(u) /\ u.blocks = fn.blocks
    BY <1>2, <1>3, <2>1, LatestInt, UseBuilds DEF Builds
  <2> HIDE DEF u
  <2>4. Builds(u, a) /\ FnOK(a) /\ Len(a.blocks) = loop
    BY <2>2, <2>3, AddBlockBuilds DEF Builds
  <2> HIDE DEF a
  <2>5. Builds(a, b) /\ FnOK(b) /\ Len(b.blocks) = loop
    BY <2>2, <2>4, BrBuilds DEF Builds
  <2> HIDE DEF b
  <2>6. Builds(b, fn') /\ Len(fn'.blocks) = loop
    <3>1. loop \in 1..Len(b.blocks)
      BY <1>3, <2>5
    <3> QED
      BY <2>1, <2>5, <3>1, SetInsertPointBuilds
  <2>7. Builds(fn, fn')
    BY <1>3, <2>3, <2>4, <2>5, <2>6, BuildsTransitive
  <2>8. /\ f \in Frame /\ f.node = Top.node /\ f.old = old /\ f.vals = Top.vals
        /\ f.bbs = bbs
    <3>1. bbs \in Seq(Nat)
      BY <2>2
    <3>2. old \in Seq(Slot)
      <4>1. NamedValues[v] \in Slot
        BY <1>2, <1>3, AtTop
      <4> QED
        BY <4>1
    <3> HIDE DEF bbs, old
    <3> QED
      BY <1>3, <3>1, <3>2 DEF Frame
  <2>9. Len(bbs) = 1 /\ bbs[1] = loop /\ Len(old) = 1
    OBVIOUS
  <2> HIDE DEF f, bbs, old
  <2>10. BlocksExist(f, fn')
    <3>1. \A i \in 1..Len(f.bbs) : f.bbs[i] = loop
      BY <2>8, <2>9
    <3> QED
      BY <1>3, <2>6, <3>1 DEF BlocksExist
  <2>11. Fits(f, 2)
    BY <1>2, <1>3, <2>8, <2>9 DEF Fits, BoundFor, BlocksHeld
  <2>12. NullFree(f, 0)
    BY <1>2, <2>1, <2>8, NoNulls DEF NullFree
  <2>13. Changes
    <3>1. NamedValues' \in [Var -> Slot]
      BY <1>2, <1>3, <2>1, AtTop, LocalSlotIsSlot
    <3> QED
      BY <1>2, <2>1, <2>7, <3>1, AtTop DEF Changes, Builds
  <2>14. /\ 2 \in 1..Arity(f.node) /\ Ast[f.node].kids[2] # NoNode
         /\ Len(f.vals) = 2 - 1
    <3>1. f.node = Top.node /\ f.vals = Top.vals
      BY <2>8
    <3>2. 2 \in 1..Arity(Top.node)
      BY <1>3
    <3>3. Ast[Top.node].kids[2] # NoNode
      BY <1>3, <1>4, <3>2
    <3>4. Len(Top.vals) = 2 - 1
      BY <1>3, <2>1
    <3> QED
      BY <3>1, <3>2, <3>3, <3>4
  <2> QED
    BY <1>2, <2>1, <2>8, <2>10, <2>11, <2>12, <2>13, <2>14, DescendStep
<1>7. CASE ForLatch
  <2> DEFINE after == Len(fn.blocks) + 1
             step == IF Done = 4 THEN Top.vals[3] ELSE Const
             u == Use(fn, {step, Latest})
             a == AddBlock(u, TRUE)
             b == Br(a, {Top.bbs[1], after})
  <2>1. /\ Done = Arity(Top.node) /\ fn' = SetInsertPoint(b, after)
        /\ NamedValues' = Unbound
        /\ Return(Const) /\ UNCHANGED <<TheModule, fault>>
    BY <1>3, <1>7 DEF ForLatch, At
  <2>2. Done >= 2
    BY <1>3, <2>1
  <2>3. /\ Top.bbs[1] \in 1..Len(fn.blocks) /\ Top.old[1] \in Slot
    BY <1>2, <2>2, ForHolds
  <2>4. {step, Latest} \in SUBSET Int
    <3>1. 3 \in 1..Done
      BY <1>3, <2>1
    <3>2. Latest \in Int /\ Top.vals[3] \in Int
      BY <1>2, <2>2, <3>1, AtTop, LatestInt
    <3> QED
      BY <3>2 DEF Const
  <2> HIDE DEF step
  <2>5. after \in Nat /\ {Top.bbs[1], after} \in SUBSET Nat /\ TRUE \in BOOLEAN
    BY <1>3, <2>3
  <2>6. Builds(fn, u) /\ FnOK(u) /\ u.blocks = fn.blocks
    BY <1>3, <2>4, UseBuilds DEF Builds
  <2> HIDE DEF u
  <2>7. Builds(u, a) /\ FnOK(a) /\ Len(a.blocks) = after
    BY <2>5, <2>6, AddBlockBuilds DEF Builds
  <2> HIDE DEF a
  <2>8. Builds(a, b) /\ FnOK(b) /\ Len(b.blocks) = after
    BY <2>5, <2>7, BrBuilds DEF Builds
  <2> HIDE DEF b
  <2>9. Builds(b, fn')
    <3>1. after \in 1..Len(b.blocks)
      BY <1>3, <2>8
    <3> QED
      BY <2>1, <2>8, <3>1, SetInsertPointBuilds
  <2>10. Builds(fn, fn')
    BY <1>3, <2>6, <2>7, <2>8, <2>9, BuildsTransitive
  <2>11. NamedValues' \in [Var -> Slot]
    BY <1>2, <1>3, <2>1, <2>3, AtTop DEF Unbound
  <2> QED
    BY <1>2, <2>1, <2>10, <2>11, AtTop, BuildAndReturn DEF Const
<1> QED
  BY <1>2, <1>5, <1>6, <1>7

\* A set of indices that is not empty has a greatest member.
LEMMA GreatestIndex ==
  ASSUME NEW b \in Nat, NEW S \in SUBSET (1..b), S # {}
  PROVE  \E i \in S : \A j \in S : j <= i
<1> DEFINE T == {b - i : i \in S}
           R == OpToRel(<, Nat)
<1>1. T \subseteq Nat
  OBVIOUS
<1>2. T # {}
  <2>1. PICK i \in S : TRUE
    OBVIOUS
  <2>2. b - i \in T
    OBVIOUS
  <2> QED
    BY <2>2
<1>3. IsWellFoundedOn(R, Nat)
  BY NatLessThanWellFounded
<1>4. \A x, y \in Nat : y < x => <<y, x>> \in R
  BY DEF OpToRel
<1> HIDE DEF T, R
<1>5. PICK x \in T : \A y \in T : ~ (<<y, x>> \in R)
  BY <1>1, <1>2, <1>3, WFMin
<1>6. \A y \in T : ~ (y < x)
  BY <1>1, <1>4, <1>5
<1>7. PICK i \in S : x = b - i
  BY DEF T
<1>8. ASSUME NEW j \in S PROVE j <= i
  <2>1. b - j \in T
    BY DEF T
  <2>2. ~ (b - j < b - i)
    BY <1>6, <1>7, <2>1
  <2>3. i \in Nat /\ j \in Nat
    OBVIOUS
  <2> HIDE DEF T
  <2> QED
    BY <2>2, <2>3
<1> QED
  BY <1>8

\* LastNamed is an index of the name, and no later one is.
LEMMA LastNamedIndex ==
  ASSUME NEW n \in Node, NEW b \in Nat, NEW v, BindsIn(n, b, v)
  PROVE  /\ LastNamed(n, b, v) \in 1..b
         /\ Ast[n].names[LastNamed(n, b, v)] = v
         /\ \A j \in 1..b : Ast[n].names[j] = v => j <= LastNamed(n, b, v)
<1> DEFINE S == {i \in 1..b : Ast[n].names[i] = v}
<1>1. S \in SUBSET (1..b) /\ S # {}
  BY DEF BindsIn
<1>2. PICK i \in S : \A j \in S : j <= i
  BY <1>1, GreatestIndex
<1>3. /\ i \in 1..b /\ Ast[n].names[i] = v
      /\ \A j \in 1..b : Ast[n].names[j] = v => j <= i
  BY <1>2
<1> QED
  BY <1>3 DEF LastNamed

\* Var/in: as many saved bindings as registered names.
LEMMA VarInKeeps ==
  ASSUME GenInv, UNCHANGED FunctionProtos, VarIn
  PROVE  GenInv'
<1>1. CASE FailWith("varin")
  BY <1>1, FailKeeps
<1>2. SUFFICES ASSUME Generating, TopAst.kind = "varin",
                      VarInitialiser \/ VarDefault \/ VarRegister \/ VarBody \/ VarLeave
               PROVE  GenInv'
  BY <1>1 DEF VarIn, VarInitialiser, VarDefault, VarRegister, VarBody, VarLeave, InVarIn, Generating
<1> DEFINE n == Top.node
           names == Ast[n].names
<1>3. /\ Top \in Frame /\ n \in Node /\ TopAst = Ast[n]
      /\ Top.vals \in Seq(Int) /\ Top.old \in Seq(Slot) /\ Len(Top.old) \in Nat
      /\ Done = Len(Top.vals) /\ Done \in Nat /\ FnOK(fn) /\ NamedValues \in [Var -> Slot]
  BY <1>2, AtTop
<1>4. /\ names \in Seq(Var) /\ Len(names) \in Nat /\ Arity(n) = Len(names) + 1
      /\ Arity(n) \in Nat
  BY <1>2, <1>3, NodeShape
<1>5. \/ Done = Len(Top.old) + 1 /\ Done <= Arity(n)
      \/ Done = Len(Top.old) /\ Done < Arity(n)
  <2>1. CASE GotValue(Top)
    <3>1. /\ 1 <= Done /\ Done <= Arity(n) /\ Len(Top.old) = BoundFor(n, Done)
      BY <1>3, <2>1 DEF GotValue, Fits
    <3>2. BoundFor(n, Done) = Done - 1
      BY <1>2, <1>3 DEF BoundFor
    <3> QED
      BY <1>3, <3>1, <3>2
  <2>2. CASE GoesOn(Top)
    <3>1. /\ Done = 0 \/ Done < Arity(n)
          /\ Len(Top.old) = BoundFor(n, Done + 1)
      BY <1>3, <2>2 DEF GoesOn, Fits
    <3>2. BoundFor(n, Done + 1) = Done + 1 - 1
      BY <1>2, <1>3 DEF BoundFor
    <3>3. Done < Arity(n)
      BY <1>3, <1>4, <3>1
    <3> QED
      BY <1>3, <3>1, <3>2, <3>3
  <2> QED
    BY <1>2, <2>1, <2>2 DEF GenInv, StackInv
<1>6. ASSUME VarInitialiser \/ VarBody PROVE GenInv'
  <2>1. /\ Done = Len(Top.old) /\ TopAst.kids[Done + 1] # NoNode
        /\ Descend(Top, Done + 1) /\ UNCHANGED <<NamedValues, TheModule, fn, fault>>
    <3>1. CASE VarInitialiser
      BY <3>1 DEF VarInitialiser, NextName
    <3>2. CASE VarBody
      <4>1. /\ Done = Len(Top.old) /\ Done = Len(names)
            /\ Descend(Top, Done + 1) /\ UNCHANGED <<NamedValues, TheModule, fn, fault>>
        BY <1>3, <3>2 DEF VarBody, NextName, Registered
      <4>2. Done + 1 \in 1..Arity(n) /\ ~(Done + 1 < Arity(n))
        BY <1>4, <4>1
      <4> QED
        BY <1>3, <4>1, <4>2, KidIsNode
    <3> QED
      BY <1>6, <3>1, <3>2
  <2>2. Fits(Top, Done + 1)
    BY <1>2, <2>1, FitsNext
  <2>3. Done < Arity(n) /\ NullFree(Top, 0)
    <3>1. Done < Arity(n)
      BY <1>3, <1>5, <2>1
    <3>2. ~GotValue(Top)
      BY <1>2, <1>3, <2>1 DEF GotValue, Fits, BoundFor
    <3> QED
      BY <1>2, <3>1, <3>2 DEF GenInv, StackInv, GoesOn
  <2> QED
    BY <1>2, <2>1, <2>2, <2>3, AtTop, CallNext
<1>7. ASSUME VarDefault \/ VarRegister PROVE GenInv'
  <2> DEFINE b == Len(Top.old)
             v == names[b + 1]
             old == Append(Top.old, NamedValues[v])
  <2>1. PICK vals :
          /\ ~Registered /\ Bind(vals)
          /\ \/ Done = b /\ vals = Append(Top.vals, Const) /\ UNCHANGED fn
             \/ Done = b + 1 /\ Latest # Null /\ vals = Top.vals /\ fn' = Use(fn, {Latest})
    BY <1>3, <1>7 DEF VarDefault, VarRegister, NextName
  <2>2. b + 1 \in 1..Len(names) /\ v \in Var
    <3>1. b # Len(names)
      BY <1>3, <2>1 DEF Registered
    <3>2. b \in Nat /\ b <= Len(names)
      <4> HIDE DEF n, names
      <4>1. b \in Nat
        BY <1>3
      <4>2. CASE Done = b + 1 /\ Done <= Arity(n)
        BY <1>4, <4>1, <4>2
      <4>3. CASE Done = b /\ Done < Arity(n)
        BY <1>4, <4>1, <4>3
      <4> QED
        BY <1>5, <4>2, <4>3
    <3>3. b + 1 \in 1..Len(names)
      <4> HIDE DEF names
      <4> QED
        BY <1>4, <3>1, <3>2
    <3>4. v \in Var
      <4> HIDE DEF b
      <4> QED
        BY <1>4, <3>3
    <3> QED
      BY <3>3, <3>4
  <2>3. /\ vals \in Seq(Int) /\ Len(vals) = b + 1
        /\ \A i \in 1..Len(vals) : vals[i] = Null => CarriesOn(n)
    <3>1. CASE Done = b /\ vals = Append(Top.vals, Const)
      <4>1. ~GotValue(Top)
        BY <1>2, <1>3, <3>1 DEF GotValue, Fits, BoundFor
      <4>2. NullFree(Top, 0)
        BY <1>2, <4>1 DEF GenInv, StackInv, GoesOn
      <4>3. /\ vals \in Seq(Int) /\ Len(vals) = b + 1 /\ vals[b + 1] = Const
            /\ \A i \in 1..b : vals[i] = Top.vals[i]
        <5>1. Const \in Int /\ Len(Top.vals) = b
          BY <1>3, <3>1 DEF Const
        <5> QED
          BY <1>3, <3>1, <5>1, AppendProperties
      <4>4. Const # Null
        BY DEF Const, Null
      <4> SUFFICES ASSUME NEW i \in 1..(b + 1), vals[i] = Null
                   PROVE  CarriesOn(n)
        BY <4>3
      <4>5. i \in 1..b
        BY <1>3, <4>3, <4>4
      <4>6. i \in 1..Len(Top.vals) /\ Top.vals[i] = Null /\ i # 0
        BY <1>3, <3>1, <4>3, <4>5
      <4> QED
        BY <4>2, <4>6 DEF NullFree
    <3>2. CASE Done = b + 1 /\ Latest # Null /\ vals = Top.vals
      <4>1. NullFree(Top, 0)
        BY <1>2, <3>2, NoNulls
      <4>2. \A i \in 1..Len(vals) : vals[i] = Null => CarriesOn(n)
        BY <3>2, <4>1 DEF NullFree
      <4> QED
        BY <1>3, <3>2, <4>2
    <3> QED
      BY <2>1, <3>1, <3>2
  <2>4. Builds(fn, fn')
    <3>1. CASE UNCHANGED fn
      BY <1>3, <3>1, BuildsItself
    <3>2. CASE Done = b + 1 /\ fn' = Use(fn, {Latest})
      BY <1>2, <1>3, <3>2, LatestInt, UseBuilds
    <3> QED
      BY <2>1, <3>1, <3>2
  <2> DEFINE f == [Top EXCEPT !.vals = vals, !.old = old]
  <2>5. /\ stack' = Append(Below, f) /\ UNCHANGED <<result, TheModule, fault>>
        /\ NamedValues' = [NamedValues EXCEPT ![v] = LocalSlot(n, b + 1)]
    BY <1>3, <2>1 DEF Bind, NextName
  <2>6. old \in Seq(Slot) /\ Len(old) = b + 1
    <3>1. NamedValues[v] \in Slot
      BY <1>3, <2>2
    <3> QED
      BY <1>3, <3>1
  <2> HIDE DEF old
  <2>7. /\ f \in Frame /\ f.node = n /\ f.vals = vals /\ f.old = old /\ f.bbs = Top.bbs
    BY <1>3, <2>3, <2>6 DEF Frame
  <2> HIDE DEF f
  <2>8. GoesOn(f)
    <3>1. Len(f.vals) = b + 1 /\ Len(f.old) = b + 1 /\ b + 1 < Arity(n)
      BY <1>4, <2>2, <2>3, <2>6, <2>7
    <3>2. Fits(f, b + 1 + 1)
      <4>1. BoundFor(n, b + 1 + 1) = b + 1
        BY <1>2, <1>3 DEF BoundFor
      <4>2. \A k \in Nat : BlocksHeld(n, k) = 0
        BY <1>2, <1>3 DEF BlocksHeld
      <4>3. Len(Top.bbs) = 0
        BY <1>2, <1>3, <4>2 DEF GenInv, StackInv, GotValue, GoesOn, Fits
      <4> QED
        BY <1>3, <2>7, <3>1, <4>1, <4>2, <4>3 DEF Fits
    <3>3. NullFree(f, 0)
      BY <2>3, <2>7 DEF NullFree
    <3> QED
      BY <1>2, <1>3, <2>7, <3>1, <3>2, <3>3 DEF GoesOn
  <2>9. Changes
    <3>1. NamedValues' \in [Var -> Slot]
      BY <1>3, <2>2, <2>5, LocalSlotIsSlot
    <3> QED
      BY <1>2, <2>4, <2>5, <3>1, AtTop DEF Changes, Builds
  <2> QED
    BY <1>2, <2>5, <2>7, <2>8, <2>9, ReplaceStep
<1>8. CASE VarLeave
  <2>1. /\ Done = Len(names) + 1 /\ NamedValues' = Restored
        /\ Return(Latest) /\ UNCHANGED <<TheModule, fn, fault>>
    BY <1>3, <1>8 DEF VarLeave
  <2>2. Latest \in Int
    BY <1>2, <1>4, <2>1, LatestInt
  <2>3. NamedValues' \in [Var -> Slot]
    <3>1. ASSUME NEW v \in Var, BindsIn(n, Len(Top.old), v)
          PROVE  Top.old[LastNamed(n, Len(Top.old), v)] \in Slot
      BY <1>3, <3>1, LastNamedIndex
    <3> QED
      BY <1>3, <2>1, <3>1 DEF Restored
  <2> QED
    BY <1>2, <2>1, <2>2, <2>3, AtTop, PlainReturn
<1> QED
  BY <1>2, <1>6, <1>7, <1>8

\* The return instruction after the body.
LEMMA ReturnBodyKeeps ==
  ASSUME GenInv, UNCHANGED FunctionProtos, ReturnBody
  PROVE  GenInv' /\ fn'.slots = fn.slots
<1> DEFINE u == Use(fn, {result})
           b == Br(u, {})
<1>1. /\ ~Generating /\ result >= Const /\ fn' = [b EXCEPT !.complete = TRUE]
      /\ UNCHANGED <<stack, result, NamedValues, TheModule, fault>>
  BY DEF ReturnBody
<1>2. result \in Int /\ FnOK(fn)
  BY <1>1 DEF GenInv, TypeOK, Const, Pending
<1>3. Builds(fn, u) /\ FnOK(u)
  BY <1>2, UseBuilds DEF Builds
<1> HIDE DEF u
<1>4. Builds(u, b) /\ FnOK(b)
  BY <1>3, BrBuilds DEF Builds
<1> HIDE DEF b
<1>5. Builds(fn, b)
  BY <1>2, <1>3, <1>4, BuildsTransitive
<1>6. /\ fn' \in FnRecord /\ fn'.blocks = b.blocks /\ fn'.cur = b.cur /\ fn'.slots = b.slots
  BY <1>1, <1>4 DEF FnOK, FnRecord
<1>7. FnOK(fn') /\ Len(fn'.blocks) >= Len(fn.blocks)
  BY <1>4, <1>5, <1>6 DEF FnOK, Builds
<1>8. Changes
  BY <1>1, <1>7 DEF Changes, GenInv, TypeOK, ModuleOK
<1>9. StackInv'
  BY <1>1 DEF GenInv, StackInv, Depth, Generating
<1>10. ASSUME NEW j \in 1..Depth' PROVE BlocksExist(stack'[j], fn')
  BY <1>1, <1>8, BlocksStay DEF Depth
<1> QED
  BY <1>1, <1>2, <1>5, <1>6, <1>8, <1>9, <1>10, TypesAfter DEF Builds

\* Every step of the generator keeps the invariant;
LEMMA StepKeeps ==
  ASSUME GenInv, Step
  PROVE  GenInv'
<1>1. UNCHANGED FunctionProtos
  BY DEF Step
<1>2. \/ Number \/ Variable \/ Unary \/ Binary \/ Call
      \/ If \/ For \/ VarIn \/ ReturnBody
  BY DEF Step
<1> QED
  BY <1>1, <1>2, LeafKeeps, UnaryKeeps, BinaryKeeps, CallKeeps, IfKeeps, ForKeeps,
     VarInKeeps, ReturnBodyKeeps

\* so does no step.
LEMMA StutterKeeps ==
  ASSUME GenInv, UNCHANGED vars
  PROVE  GenInv'
<1>1. UNCHANGED <<stack, result, NamedValues, FunctionProtos, TheModule, fn>> /\ UNCHANGED fault
  BY DEF vars
<1> QED
  BY <1>1, DeathKeeps DEF GenInv, TypeOK
-----------------------------------------------------------------------------
(* Entering a body. *)

\* The type of the parameter scope.
LEMMA ParamScopeType ==
  ASSUME NEW r \in Node, NEW params \in Seq(Var)
  PROVE  ParamScope(r, params) \in [Var -> Slot]
<1>1. ASSUME NEW v \in Var, \E i \in 1..Len(params) : params[i] = v
      PROVE  ArgSlot(r, CHOOSE i \in 1..Len(params) : params[i] = v) \in Slot
  <2> DEFINE c == CHOOSE i \in 1..Len(params) : params[i] = v
  <2>1. c \in 1..Len(params)
    BY <1>1
  <2> HIDE DEF c
  <2>2. ASSUME NEW i \in 1..Len(params) PROVE ArgSlot(r, i) \in Slot
    BY DEF ArgSlot, Slot
  <2>3. ArgSlot(r, c) \in Slot
    BY <2>1, <2>2
  <2> QED
    BY <2>3 DEF c
<1>2. NoSlot \in Slot
  BY DEF Slot
<1> DEFINE at(v) == ArgSlot(r, CHOOSE i \in 1..Len(params) : params[i] = v)
           has(v) == \E i \in 1..Len(params) : params[i] = v
<1>3. \A v \in Var : (IF has(v) THEN at(v) ELSE NoSlot) \in Slot
  BY <1>1, <1>2
<1>4. ParamScope(r, params) = [v \in Var |-> IF has(v) THEN at(v) ELSE NoSlot]
  BY DEF ParamScope
<1> HIDE DEF at, has
<1> QED
  BY <1>3, <1>4

\* A function whose entry block has just been created.
LEMMA NewFunctionOK ==
  ASSUME NEW f \in Fn, NEW r \in Node, NEW args \in Seq(Var)
  PROVE  LET g == NewFunction(f, r, args)
         IN  /\ FnOK(g) /\ g.name = f /\ g.body = r /\ g.args = args
             /\ g.slots = {} /\ g.calls = {} /\ ~g.complete
<1> DEFINE g == NewFunction(f, r, args)
           blocks == <<EmptyBlock(TRUE)>>
<1>1. EmptyBlock(TRUE) \in Block
  BY DEF EmptyBlock, Block
<1>2. g = [NoFunction EXCEPT !.name = f, !.body = r, !.args = args,
                             !.blocks = blocks, !.cur = Entry]
  BY Zenon DEF NewFunction
<1>3. blocks \in Seq(Block) /\ Len(blocks) = 1
  <2>1. \A b \in Block : <<b>> \in Seq(Block) /\ Len(<<b>>) = 1
    OBVIOUS
  <2> QED
    BY <1>1, <2>1, Zenon
<1> HIDE DEF g, blocks
<1>4. /\ g.name = f /\ g.body = r /\ g.args = args /\ g.slots = {} /\ g.calls = {}
      /\ g.complete = FALSE /\ g.blocks = blocks /\ g.cur = Entry
  BY <1>2 DEF NoFunction
<1>5. g \in FnRecord
  <2>1. /\ f \in Fn \cup {NoFunction.name} /\ r \in Node \cup {NoNode}
        /\ args \in Seq(Var) /\ Entry \in Nat
    BY DEF Entry
  <2> HIDE DEF Entry
  <2> QED
    BY <1>2, <1>3, <2>1 DEF FnRecord, NoFunction
<1>6. g.cur \in 1..Len(g.blocks)
  BY <1>3, <1>4 DEF Entry
<1> QED
  BY <1>4, <1>5, <1>6 DEF FnOK, g

\* An activation that has just begun.
LEMMA FreshFrame ==
  ASSUME NEW r \in Node
  PROVE  LET fr == NewFrame(r)
         IN  /\ fr \in Frame /\ fr.node = r
             /\ Len(fr.vals) = 0 /\ Len(fr.old) = 0 /\ Len(fr.bbs) = 0
             /\ GoesOn(fr)
             /\ <<fr>> \in Seq(Frame) /\ Len(<<fr>>) = 1 /\ <<fr>>[1] = fr
<1> DEFINE fr == NewFrame(r)
<1>1. fr \in Frame /\ fr.vals = <<>> /\ fr.old = <<>> /\ fr.bbs = <<>> /\ fr.node = r
  BY DEF NewFrame, Frame
<1> HIDE DEF fr
<1>2. <<fr>> \in Seq(Frame) /\ Len(<<fr>>) = 1 /\ <<fr>>[1] = fr
  BY <1>1
<1>3. GoesOn(fr)
  <2>1. Fits(fr, 1)
    BY <1>1, NodeShape DEF Fits, BoundFor, BlocksHeld
  <2> QED
    BY <1>1, <2>1 DEF GoesOn, NullFree
<1> QED
  BY <1>1, <1>2, <1>3 DEF fr
-----------------------------------------------------------------------------
(* What a step leaves alone. *)

\* h differs from g in these fields at most.
Only(fields, g, h) == DOMAIN h = DOMAIN g /\ \A x \in DOMAIN g \ fields : h[x] = g[x]
BuilderFields == {"blocks", "cur", "phis", "uses"}

\* Changes of the same fields add up, and more fields may be named.
LEMMA OnlyTransitive ==
  ASSUME NEW fields, NEW more, fields \subseteq more, NEW f, NEW g, NEW h,
         Only(fields, f, g), Only(more, g, h)
  PROVE  Only(more, f, h)
BY DEF Only

\* The IRBuilder never touches the rest of the function.
LEMMA BuilderWorks ==
  ASSUME NEW g, NEW x, NEW y
  PROVE  /\ Only(BuilderFields, g, Use(g, x))
         /\ Only(BuilderFields, g, Br(g, x))
         /\ Only(BuilderFields, g, Place(g, x))
         /\ Only(BuilderFields, g, SetInsertPoint(g, x))
         /\ Only(BuilderFields, g, [g EXCEPT !.phis = @ \cup {x}])
         /\ Only({"calls"}, g, AddCall(g, x, y))
         /\ Only({"slots"}, g, Resolve(g, x, y))
<1>1. Only(BuilderFields, g, Use(g, x))
  BY DEF Only, BuilderFields, Use
<1>2. Only(BuilderFields, g, Br(g, x))
  BY DEF Only, BuilderFields, Br
<1>3. Only(BuilderFields, g, Place(g, x))
  BY DEF Only, BuilderFields, Place
<1>4. Only(BuilderFields, g, SetInsertPoint(g, x))
  BY DEF Only, BuilderFields, SetInsertPoint
<1>5. Only(BuilderFields, g, [g EXCEPT !.phis = @ \cup {x}])
  BY DEF Only, BuilderFields
<1>6. Only({"calls"}, g, AddCall(g, x, y))
  BY DEF Only, AddCall
<1>7. Only({"slots"}, g, Resolve(g, x, y))
  BY DEF Only, Resolve
<1> QED
  BY <1>1, <1>2, <1>3, <1>4, <1>5, <1>6, <1>7

\* The same of a new block.
LEMMA AddBlockWorks ==
  ASSUME NEW g
  PROVE  Only(BuilderFields, g, AddBlock(g, TRUE)) /\ Only(BuilderFields, g, AddBlock(g, FALSE))
<1>1. ASSUME NEW b PROVE Only(BuilderFields, g, [g EXCEPT !.blocks = Append(@, b)])
  BY DEF Only, BuilderFields
<1>2. AddBlock(g, TRUE) = [g EXCEPT !.blocks = Append(@, EmptyBlock(TRUE))]
  BY Zenon DEF AddBlock
<1>3. AddBlock(g, FALSE) = [g EXCEPT !.blocks = Append(@, EmptyBlock(FALSE))]
  BY Zenon DEF AddBlock
<1>4. Only(BuilderFields, g, AddBlock(g, TRUE))
  BY <1>1, <1>2, Zenon
<1>5. Only(BuilderFields, g, AddBlock(g, FALSE))
  BY <1>1, <1>3, Zenon
<1> QED
  BY <1>4, <1>5

\* Only a variable is resolved to a slot, and only three actions emit calls.
LEMMA StepTouches ==
  ASSUME Step, Generating
  PROVE  /\ Only(BuilderFields \cup {"slots", "calls"}, fn, fn')
         /\ VariableLoad \/ AssignStore \/ Only(BuilderFields \cup {"calls"}, fn, fn')
         /\ UnaryCall \/ BinaryUser \/ CallEmit \/ Only(BuilderFields \cup {"slots"}, fn, fn')
<1> DEFINE all == BuilderFields \cup {"slots", "calls"}
<1>1. \A fields : fn' = fn => Only(fields, fn, fn')
  BY DEF Only
<1>2. BuilderFields \subseteq all /\ {"slots"} \subseteq all /\ {"calls"} \subseteq all
      /\ BuilderFields \subseteq BuilderFields \cup {"slots"}
      /\ BuilderFields \subseteq BuilderFields \cup {"calls"}
      /\ {"slots"} \subseteq BuilderFields \cup {"slots"}
      /\ {"calls"} \subseteq BuilderFields \cup {"calls"}
  BY DEF BuilderFields
<1>3. ASSUME Only(BuilderFields, fn, fn')
      PROVE  /\ Only(all, fn, fn')
             /\ Only(BuilderFields \cup {"calls"}, fn, fn')
             /\ Only(BuilderFields \cup {"slots"}, fn, fn')
  BY <1>3, <1>2 DEF Only
<1>4. CASE UNCHANGED fn
  BY <1>1, <1>4
<1>5. CASE VariableLoad
  <2>1. Only({"slots"}, fn, fn')
    BY <1>5, BuilderWorks DEF VariableLoad
  <2> QED
    BY <1>2, <1>5, <2>1 DEF Only
<1>6. CASE AssignStore
  <2> DEFINE g == Resolve(fn, Lhs, NamedValues[CastName(Lhs)])
  <2>1. Only({"slots"}, fn, g)
    BY BuilderWorks
  <2>2. Only(BuilderFields, g, Use(g, {Latest})) /\ fn' = Use(g, {Latest})
    BY <1>6, BuilderWorks DEF AssignStore
  <2> HIDE DEF g
  <2>3. Only(BuilderFields \cup {"slots"}, fn, fn')
    BY <1>2, <2>1, <2>2 DEF Only
  <2> QED
    BY <1>2, <1>6, <2>3 DEF Only
<1>7. ASSUME NEW V, NEW f, NEW n, fn' = AddCall(Use(fn, V), f, n)
      PROVE  Only(all, fn, fn') /\ Only(BuilderFields \cup {"calls"}, fn, fn')
  <2> DEFINE g == Use(fn, V)
  <2>1. Only(BuilderFields, fn, g) /\ Only({"calls"}, g, fn')
    BY <1>7, BuilderWorks
  <2> HIDE DEF g
  <2>2. Only(BuilderFields \cup {"calls"}, fn, fn')
    BY <1>2, <2>1 DEF Only
  <2> QED
    BY <1>2, <2>2 DEF Only
<1>8. CASE UnaryCall \/ BinaryUser \/ CallEmit
  <2>1. \E V, f, n : fn' = AddCall(Use(fn, V), f, n)
    BY <1>8 DEF UnaryCall, BinaryUser, CallEmit
  <2> QED
    BY <1>7, <1>8, <2>1
<1>9. CASE BinaryBuiltin \/ VarRegister
  <2>1. \E V : fn' = Use(fn, V)
    BY <1>9 DEF BinaryBuiltin, VarRegister
  <2> QED
    BY <1>3, <2>1, BuilderWorks
<1>10. CASE IfThen
  <2> DEFINE g1 == AddBlock(fn, TRUE)
             g2 == AddBlock(g1, FALSE)
             g3 == AddBlock(g2, FALSE)
             g4 == Use(g3, {Latest})
             g5 == Br(g4, {Len(fn.blocks) + 1, Len(fn.blocks) + 2})
  <2>1. fn' = SetInsertPoint(g5, Len(fn.blocks) + 1)
    BY <1>10, Zenon DEF IfThen, ThreeBlocks
  <2>2. /\ Only(BuilderFields, fn, g1) /\ Only(BuilderFields, g1, g2) /\ Only(BuilderFields, g2, g3)
        /\ Only(BuilderFields, g3, g4) /\ Only(BuilderFields, g4, g5)
    BY BuilderWorks, AddBlockWorks, Zenon
  <2> HIDE DEF g1, g2, g3, g4, g5
  <2>3. Only(BuilderFields, g5, fn')
    BY <2>1, BuilderWorks
  <2> QED
    BY <1>3, <2>2, <2>3, OnlyTransitive
<1>11. CASE IfElse
  <2> DEFINE g1 == Br(fn, {Top.bbs[3]})
             g2 == Place(g1, Top.bbs[2])
  <2>1. fn' = SetInsertPoint(g2, Top.bbs[2])
    BY <1>11 DEF IfElse
  <2>2. Only(BuilderFields, fn, g1) /\ Only(BuilderFields, g1, g2) /\ Only(BuilderFields, g2, fn')
    BY <2>1, BuilderWorks
  <2> HIDE DEF g1, g2
  <2> QED
    BY <1>3, <2>2, OnlyTransitive
<1>12. CASE IfMerge
  <2> DEFINE merge == Top.bbs[3]
             g1 == Br(fn, {merge})
             g2 == Place(g1, merge)
             g3 == SetInsertPoint(g2, merge)
  <2>1. PICK phi : fn' = [g3 EXCEPT !.phis = @ \cup {phi}]
    BY <1>12 DEF IfMerge
  <2>2. Only(BuilderFields, fn, g1) /\ Only(BuilderFields, g1, g2) /\ Only(BuilderFields, g2, g3)
    BY BuilderWorks, Zenon
  <2> HIDE DEF g1, g2, g3
  <2>3. Only(BuilderFields, g3, fn')
    BY <2>1, BuilderWorks, Zenon
  <2> QED
    BY <1>3, <2>2, <2>3, OnlyTransitive
<1>13. ASSUME NEW V, NEW succs, NEW i,
              fn' = SetInsertPoint(Br(AddBlock(Use(fn, V), TRUE), succs), i)
       PROVE  Only(BuilderFields, fn, fn')
  <2> DEFINE g1 == Use(fn, V)
             g2 == AddBlock(g1, TRUE)
             g3 == Br(g2, succs)
  <2>1. fn' = SetInsertPoint(g3, i)
    BY <1>13, Zenon
  <2>2. Only(BuilderFields, fn, g1) /\ Only(BuilderFields, g1, g2) /\ Only(BuilderFields, g2, g3)
    BY BuilderWorks, AddBlockWorks, Zenon
  <2> HIDE DEF g1, g2, g3
  <2>3. Only(BuilderFields, g3, fn')
    BY <2>1, BuilderWorks
  <2> QED
    BY <2>2, <2>3, OnlyTransitive
<1>14. CASE ForBody
  <2>1. fn' = SetInsertPoint(Br(AddBlock(Use(fn, {Latest}), TRUE), {Len(fn.blocks) + 1}),
                             Len(fn.blocks) + 1)
    BY <1>14, Zenon DEF ForBody
  <2> QED
    BY <1>3, <1>13, <2>1, Zenon
<1>15. CASE ForLatch
  <2> DEFINE step == IF Done = 4 THEN Top.vals[3] ELSE Const
             after == Len(fn.blocks) + 1
  <2>1. fn' = SetInsertPoint(Br(AddBlock(Use(fn, {step, Latest}), TRUE), {Top.bbs[1], after}),
                             after)
    BY <1>15, Zenon DEF ForLatch
  <2> QED
    BY <1>3, <1>13, <2>1, Zenon
<1>16. \/ UNCHANGED fn \/ VariableLoad \/ AssignStore
       \/ UnaryCall \/ BinaryUser \/ CallEmit \/ BinaryBuiltin \/ VarRegister
       \/ IfThen \/ IfElse \/ IfMerge \/ ForBody \/ ForLatch
  BY DEF Step, Number, Variable, VariableUnknown, Unary, UnaryOperand, UnaryUnknown,
         FailWith, Binary, AssignEnter, AssignUnknown, AssignUndefined, BinaryLHS, BinaryRHS,
         BinaryAssertFails, BinaryFail, Call, CallReject, CallArgument, If, IfCondition,
         For, ForStart, ForNext, VarIn, VarInitialiser, VarDefault, VarBody, VarLeave,
         ReturnBody
<1> QED
  BY <1>4, <1>5, <1>6, <1>8, <1>9, <1>10, <1>11, <1>12, <1>14, <1>15, <1>16
\* Once no activation is left, only the return instruction is to be added.
LEMMA OutsideStep ==
  ASSUME Step, ~Generating
  PROVE  ReturnBody
BY DEF Step, Generating, Number, Variable, VariableLoad, VariableUnknown, Unary,
   UnaryOperand, UnaryCall, UnaryUnknown, FailWith, Call, CallReject, CallArgument, CallEmit,
   Binary, AssignEnter, AssignStore, AssignUnknown, AssignUndefined, BinaryLHS, BinaryRHS,
   BinaryBuiltin, BinaryUser, BinaryAssertFails, BinaryFail, At,
   If, IfCondition, IfThen, IfElse, IfMerge, For, ForStart, ForBody, ForNext, ForLatch,
   VarIn, InVarIn, VarInitialiser, VarDefault, VarRegister, VarBody, VarLeave

\* A step of the generator goes on with the same function.
LEMMA StepKeepsHeader ==
  ASSUME fn \in FnRecord, Step
  PROVE  /\ fn'.name = fn.name /\ fn'.body = fn.body /\ fn'.args = fn.args
         /\ Generating => fn'.complete = fn.complete
         /\ VariableLoad \/ AssignStore \/ fn'.slots = fn.slots
         /\ UnaryCall \/ BinaryUser \/ CallEmit \/ fn'.calls = fn.calls
<1>1. {"name", "body", "args", "complete", "slots", "calls"} \subseteq DOMAIN fn
  BY DEF FnRecord
<1>2. CASE Generating
  <2>1. /\ Only(BuilderFields \cup {"slots", "calls"}, fn, fn')
        /\ VariableLoad \/ AssignStore \/ Only(BuilderFields \cup {"calls"}, fn, fn')
        /\ UnaryCall \/ BinaryUser \/ CallEmit \/ Only(BuilderFields \cup {"slots"}, fn, fn')
    BY <1>2, StepTouches
  <2>2. /\ fn'.name = fn.name /\ fn'.body = fn.body /\ fn'.args = fn.args
        /\ fn'.complete = fn.complete
    BY <1>1, <2>1 DEF Only, BuilderFields
  <2>3. Only(BuilderFields \cup {"calls"}, fn, fn') => fn'.slots = fn.slots
    BY <1>1 DEF Only, BuilderFields
  <2>4. Only(BuilderFields \cup {"slots"}, fn, fn') => fn'.calls = fn.calls
    BY <1>1 DEF Only, BuilderFields
  <2> QED
    BY <2>1, <2>2, <2>3, <2>4
<1>3. CASE ~Generating
  <2> DEFINE g == Use(fn, {result})
             h == Br(g, {})
  <2>1. /\ Only(BuilderFields, fn, g) /\ Only(BuilderFields, g, h)
        /\ fn' = [h EXCEPT !.complete = TRUE]
    BY <1>3, OutsideStep, BuilderWorks DEF ReturnBody
  <2> HIDE DEF g, h
  <2>2. Only(BuilderFields, fn, h)
    BY <2>1, OnlyTransitive
  <2> QED
    BY <1>1, <1>3, <2>1, <2>2 DEF Only, BuilderFields
<1> QED
  BY <1>2, <1>3

\* Activations keep their nodes.
SameNodes == /\ Len(stack') <= Depth + 1
             /\ \A j \in 1..Len(stack') : j <= Depth => stack'[j].node = stack[j].node

\* So do calling a child, returning, and replacing the innermost frame.
LEMMA CallsKeepNodes ==
  ASSUME stack \in Seq(Frame), stack # <<>>
  PROVE  /\ \A f, k : f.node = Top.node /\ Descend(f, k) => SameNodes
         /\ \A v : Return(v) => SameNodes
         /\ \A f : f.node = Top.node /\ stack' = Append(Below, f) => SameNodes
<1>1. /\ Depth \in Nat /\ Depth >= 1 /\ Below \in Seq(Frame) /\ Len(Below) = Depth - 1
      /\ \A j \in 1..(Depth - 1) : Below[j] = stack[j]
      /\ Depth = Len(stack) /\ Top = stack[Depth]
  BY TopIsFrame DEF Depth, Top
<1>2. ASSUME NEW f, f.node = Top.node
      PROVE  /\ Append(Below, f) \in Seq(Frame \cup {f})
             /\ Len(Append(Below, f)) = Depth
             /\ \A j \in 1..Depth : Append(Below, f)[j].node = stack[j].node
  <2>1. Below \in Seq(Frame \cup {f})
    BY <1>1
  <2> HIDE DEF Below
  <2>2. /\ Append(Below, f) \in Seq(Frame \cup {f}) /\ Len(Append(Below, f)) = Depth
        /\ Append(Below, f)[Depth] = f
        /\ \A j \in 1..(Depth - 1) : Append(Below, f)[j] = stack[j]
    BY <1>1, <2>1, AppendProperties
  <2>3. \A j \in 1..Depth : j = Depth \/ j \in 1..(Depth - 1)
    BY <1>1
  <2> QED
    BY <1>1, <1>2, <2>2, <2>3
<1>3. ASSUME NEW f, NEW k, f.node = Top.node, Descend(f, k)
      PROVE  SameNodes
  <2> DEFINE s == Append(Below, f)
             g == NewFrame(Ast[f.node].kids[k])
  <2>1. /\ s \in Seq(Frame \cup {f}) /\ Len(s) = Depth
        /\ \A j \in 1..Depth : s[j].node = stack[j].node
    BY <1>2, <1>3
  <2>2. stack' = Append(s, g)
    BY <1>3 DEF Descend
  <2> HIDE DEF s, g
  <2>3. s \in Seq(Frame \cup {f, g})
    BY <2>1
  <2>4. Len(stack') = Depth + 1 /\ \A j \in 1..Depth : stack'[j] = s[j]
    BY <2>1, <2>2, <2>3, AppendProperties
  <2> QED
    BY <1>1, <2>1, <2>4 DEF SameNodes
<1>4. ASSUME NEW v, Return(v) PROVE SameNodes
  <2>1. CASE Depth = 1
    <3>1. Len(stack') = 0
      BY <1>4, <2>1 DEF Return
    <3> QED
      BY <1>1, <3>1 DEF SameNodes
  <2>2. CASE Depth # 1
    <3>1. stack' = [Below EXCEPT ![Depth - 1].vals = Append(@, v)]
      BY <1>4, <2>2 DEF Return
    <3> HIDE DEF Below
    <3>2. /\ Len(stack') = Depth - 1
          /\ \A j \in 1..(Depth - 1) : stack'[j].node = Below[j].node
      <4>1. \A j \in 1..(Depth - 1) : Below[j] \in Frame
        BY <1>1
      <4>2. DOMAIN Below = 1..(Depth - 1)
        BY <1>1
      <4>3. Len(stack') = Depth - 1
        BY <1>1, <3>1, <4>2
      <4>4. ASSUME NEW j \in 1..(Depth - 1) PROVE stack'[j].node = Below[j].node
        <5>1. CASE j = Depth - 1
          BY <3>1, <4>1, <4>2, <5>1 DEF Frame
        <5>2. CASE j # Depth - 1
          BY <3>1, <4>2, <5>2
        <5> QED
          BY <5>1, <5>2
      <4> QED
        BY <4>3, <4>4
    <3> QED
      BY <1>1, <3>2 DEF SameNodes
  <2> QED
    BY <2>1, <2>2
<1>5. ASSUME NEW f, f.node = Top.node, stack' = Append(Below, f) PROVE SameNodes
  BY <1>1, <1>2, <1>5 DEF SameNodes
<1> QED
  BY <1>3, <1>4, <1>5

\* No step gives an activation another node, or begins a generation.
LEMMA StepKeepsNodes ==
  ASSUME stack \in Seq(Frame), Step
  PROVE  SameNodes /\ (Generating' => Generating)
<1>1. CASE UNCHANGED stack
  BY <1>1 DEF SameNodes, Depth, Generating
<1>2. ASSUME Generating, NEW f, NEW k, f.node = Top.node, Descend(f, k) PROVE SameNodes
  BY <1>2, CallsKeepNodes DEF Generating
<1>3. ASSUME Generating, NEW v, Return(v) PROVE SameNodes
  BY <1>3, CallsKeepNodes DEF Generating
<1>4. CASE Generating
  <2>1. Top \in Frame
    BY <1>4, TopIsFrame DEF Generating
  <2>2. CASE Number \/ Variable \/ Unary \/ Call
    BY <1>2, <1>3, <1>4, <2>2 DEF Number, Variable, VariableLoad, VariableUnknown, Unary,
       UnaryOperand, UnaryCall, UnaryUnknown, FailWith, Call, CallReject, CallArgument, CallEmit
  <2>3. CASE Binary
    <3>1. [Top EXCEPT !.vals = <<Const>>].node = Top.node
      BY <2>1 DEF Frame
    <3> QED
      BY <1>1, <1>2, <1>3, <1>4, <2>3, <3>1 DEF Binary, AssignEnter, AssignStore, AssignUnknown,
         AssignUndefined, BinaryLHS, BinaryRHS, BinaryBuiltin, BinaryUser, BinaryAssertFails,
         BinaryFail
  <2>4. CASE If
    <3>1. /\ \A b : [Top EXCEPT !.bbs = b].node = Top.node
          /\ [Top EXCEPT !.bbs[1] = ThenEnd].node = Top.node
      BY <2>1 DEF Frame
    <3>2. CASE IfThen
      <4>1. \E b : Descend([Top EXCEPT !.bbs = b], 2)
        BY <3>2 DEF IfThen
      <4> QED
        BY <1>2, <1>4, <3>1, <4>1
    <3> QED
      BY <1>2, <1>3, <1>4, <2>4, <3>1, <3>2 DEF If, IfCondition, IfElse, IfMerge, FailWith
  <2>5. CASE For
    <3>1. \A b, o : [Top EXCEPT !.bbs = b, !.old = o].node = Top.node
      BY <2>1 DEF Frame
    <3>2. CASE ForBody
      <4>1. \E b, o : Descend([Top EXCEPT !.bbs = b, !.old = o], 2)
        BY <3>2 DEF ForBody
      <4> QED
        BY <1>2, <1>4, <3>1, <4>1
    <3> QED
      BY <1>2, <1>3, <1>4, <2>5, <3>2 DEF For, ForStart, ForNext, ForLatch, FailWith
  <2>6. CASE VarIn
    <3>1. \A x, y : [Top EXCEPT !.vals = x, !.old = y].node = Top.node
      BY <2>1 DEF Frame
    <3>2. ASSUME NEW x, Bind(x) PROVE SameNodes
      <4>1. \E y : stack' = Append(Below, [Top EXCEPT !.vals = x, !.old = y])
        BY <3>2 DEF Bind
      <4> QED
        BY <1>4, <3>1, <4>1, CallsKeepNodes DEF Generating
    <3> QED
      BY <1>2, <1>3, <1>4, <2>6, <3>2 DEF VarIn, VarInitialiser, VarDefault, VarRegister,
         VarBody, VarLeave, FailWith
  <2>7. CASE ReturnBody
    BY <1>1, <2>7 DEF ReturnBody
  <2> QED
    BY <1>4, <2>2, <2>3, <2>4, <2>5, <2>6, <2>7 DEF Step
<1>5. CASE ~Generating
  <2>1. ReturnBody
    BY <1>5, OutsideStep
  <2> QED
    BY <1>1, <1>5, <2>1 DEF ReturnBody, Generating
<1> QED
  BY <1>4, <1>5

-----------------------------------------------------------------------------
(***************************************************************************)
(* The generator works on one map from names to slots, NamedValues, which  *)
(* it changes on the way into a for or a var/in and is to change back on   *)
(* the way out.  A step keeps that map equal to the lexical scope of the   *)
(* construct being generated, provided that no var/in introduces a name    *)
(* twice.                                                                  *)
(***************************************************************************)
NamesDistinct == \A n \in Node : Distinct(Ast[n].names)

-----------------------------------------------------------------------------
(* Scopes of the trees. *)

\* Before it has bound a name a node is in the scope it was generated in.
LEMMA ScopeZero ==
  ASSUME NEW n \in Node
  PROVE  Scope(n, 0) = LexEnv[n]
<1>1. LexEnv[n] \in [Var -> Slot]
  BY LexEnvAssumption
<1>2. \A v \in Var : ~BindsIn(n, 0, v)
  BY DEF BindsIn
<1>3. \A v \in Var : Scope(n, 0)[v] = LexEnv[n][v]
  BY <1>2 DEF Scope
<1>4. Scope(n, 0) = [v \in Var |-> Scope(n, 0)[v]]
  BY DEF Scope
<1> QED
  BY <1>1, <1>3, <1>4

\* A child is generated in the scope its parent has opened by then.
LEMMA KidScope ==
  ASSUME NEW n \in Node, NEW k \in 1..Arity(n), Ast[n].kids[k] # NoNode
  PROVE  Ast[n].kids[k] \in Node /\ LexEnv[Ast[n].kids[k]] = Scope(n, BoundFor(n, k))
BY KidIsNode, LexEnvAssumption

\* Binding the next name of a node opens the next scope.
LEMMA BindScope ==
  ASSUME NEW n \in Node, NEW b \in Nat, b + 1 <= Len(Ast[n].names)
  PROVE  [Scope(n, b) EXCEPT ![Ast[n].names[b + 1]] = LocalSlot(n, b + 1)] = Scope(n, b + 1)
<1> DEFINE w == Ast[n].names[b + 1]
           names == Ast[n].names
<1>1. DOMAIN Scope(n, b) = Var /\ DOMAIN Scope(n, b + 1) = Var
  BY DEF Scope
<1>2. ASSUME NEW v \in Var, v = w
      PROVE  Scope(n, b + 1)[v] = LocalSlot(n, b + 1)
  <2>1. BindsIn(n, b + 1, v)
    BY <1>2 DEF BindsIn
  <2>2. LastNamed(n, b + 1, v) \in 1..(b + 1) /\ b + 1 <= LastNamed(n, b + 1, v)
    BY <1>2, <2>1, LastNamedIndex
  <2>3. LastNamed(n, b + 1, v) = b + 1
    BY <2>2
  <2> QED
    BY <2>1, <2>3 DEF Scope
<1>3. ASSUME NEW v \in Var, v # w
      PROVE  Scope(n, b + 1)[v] = Scope(n, b)[v]
  <2>1. \A i \in 1..(b + 1) : names[i] = v => i \in 1..b
    BY <1>3
  <2>2. BindsIn(n, b + 1, v) <=> BindsIn(n, b, v)
    <3>1. \A i \in 1..b : i \in 1..(b + 1)
      OBVIOUS
    <3> QED
      BY <2>1, <3>1 DEF BindsIn
  <2>3. CASE BindsIn(n, b, v)
    <3> DEFINE i == LastNamed(n, b, v)
               j == LastNamed(n, b + 1, v)
    <3>1. i \in 1..b /\ names[i] = v /\ \A k \in 1..b : names[k] = v => k <= i
      BY <2>3, LastNamedIndex
    <3>2. j \in 1..(b + 1) /\ names[j] = v /\ \A k \in 1..(b + 1) : names[k] = v => k <= j
      BY <2>2, <2>3, LastNamedIndex
    <3> HIDE DEF i, j
    <3>3. j \in 1..b
      BY <2>1, <3>2
    <3>4. j <= i /\ i <= j
      BY <3>1, <3>2, <3>3
    <3>5. i = j
      BY <3>1, <3>3, <3>4
    <3> QED
      BY <2>2, <2>3, <3>5 DEF Scope, i, j
  <2>4. CASE ~BindsIn(n, b, v)
    BY <2>2, <2>4 DEF Scope
  <2> QED
    BY <2>3, <2>4
<1> DEFINE s == [Scope(n, b) EXCEPT ![w] = LocalSlot(n, b + 1)]
<1>4. DOMAIN s = Var /\ \A v \in Var : s[v] = Scope(n, b + 1)[v]
  BY <1>1, <1>2, <1>3
<1>5. s = [v \in Var |-> s[v]] /\ Scope(n, b + 1) = [v \in Var |-> Scope(n, b + 1)[v]]
  BY <1>1, <1>4 DEF Scope
<1> QED
  BY <1>4, <1>5

\* A name that no earlier name of the node repeats still has its outer meaning.
LEMMA FirstMention ==
  ASSUME NamesDistinct, NEW n \in Node, NEW b \in Nat, b + 1 <= Len(Ast[n].names)
  PROVE  Scope(n, b)[Ast[n].names[b + 1]] = LexEnv[n][Ast[n].names[b + 1]]
<1> DEFINE w == Ast[n].names[b + 1]
<1>1. w \in Var
  <2>1. Ast[n].names \in Seq(Var) /\ b + 1 \in 1..Len(Ast[n].names)
    BY NodeShape
  <2> QED
    BY <2>1
<1>2. ~BindsIn(n, b, w)
  <2>1. SUFFICES ASSUME NEW i \in 1..b, Ast[n].names[i] = w PROVE FALSE
    BY DEF BindsIn
  <2>2. i \in 1..Len(Ast[n].names) /\ b + 1 \in 1..Len(Ast[n].names) /\ i # b + 1
    BY NodeShape
  <2> QED
    BY <2>1, <2>2 DEF NamesDistinct, Distinct
<1> QED
  BY <1>1, <1>2 DEF Scope
\* Putting the old bindings back restores the scope around the node.
LEMMA RestoreScope ==
  ASSUME NEW n \in Node, NEW b \in Nat, NEW old,
         \A i \in 1..b : old[i] = LexEnv[n][Ast[n].names[i]]
  PROVE  [v \in Var |-> IF BindsIn(n, b, v) THEN old[LastNamed(n, b, v)]
                                            ELSE Scope(n, b)[v]] = LexEnv[n]
<1> DEFINE r(v) == IF BindsIn(n, b, v) THEN old[LastNamed(n, b, v)] ELSE Scope(n, b)[v]
<1>1. LexEnv[n] \in [Var -> Slot]
  BY LexEnvAssumption
<1>2. ASSUME NEW v \in Var PROVE r(v) = LexEnv[n][v]
  <2>1. CASE BindsIn(n, b, v)
    BY <2>1, LastNamedIndex
  <2>2. CASE ~BindsIn(n, b, v)
    BY <2>2 DEF Scope
  <2> QED
    BY <2>1, <2>2
<1> HIDE DEF r
<1>3. [v \in Var |-> r(v)] = LexEnv[n]
  BY <1>1, <1>2
<1> QED
  BY <1>3 DEF r

\* The same for a single name.
LEMMA RestoreOne ==
  ASSUME NEW n \in Node, NEW w \in Var, Ast[n].names = <<w>>
  PROVE  [Scope(n, 1) EXCEPT ![w] = LexEnv[n][w]] = LexEnv[n]
<1> DEFINE s == [Scope(n, 1) EXCEPT ![w] = LexEnv[n][w]]
<1>1. LexEnv[n] \in [Var -> Slot]
  BY LexEnvAssumption
<1>2. DOMAIN Scope(n, 1) = Var /\ DOMAIN s = Var /\ s = [v \in Var |-> s[v]]
  BY DEF Scope
<1>3. ASSUME NEW v \in Var PROVE s[v] = LexEnv[n][v]
  <2>1. CASE v = w
    BY <1>2, <2>1
  <2>2. CASE v # w
    <3>1. ~BindsIn(n, 1, v)
      BY <2>2 DEF BindsIn
    <3> QED
      BY <1>2, <2>2, <3>1 DEF Scope
  <2> QED
    BY <2>1, <2>2
<1> QED
  BY <1>1, <1>2, <1>3

-----------------------------------------------------------------------------
(* Scopes and the stack. *)

\* The bindings an activation saved are those of the scope around its node.
Saved(f) == \A i \in 1..Len(f.old) : f.old[i] = LexEnv[f.node][Ast[f.node].names[i]]

InScope == /\ Generating => NamedValues = Scope(Top.node, Len(Top.old))
           /\ \A j \in 1..Depth : Saved(stack[j])
Lexical == \A use \in fn.slots : use[2] = LexEnv[use[1]][Ast[use[1]].name]

\* Returning with the scope around the node restored.
LEMMA ReturnScope ==
  ASSUME GenInv, Generating, InScope, NEW v \in Int, Return(v),
         NamedValues' = LexEnv[Top.node]
  PROVE  InScope'
<1>1. stack \in Seq(Frame) /\ stack # <<>> /\ Depth \in Nat /\ Depth >= 1 /\ Top = stack[Depth]
  BY AtTop DEF Top
<1>2. /\ stack' \in Seq(Frame) /\ Len(stack') = Depth - 1
      /\ \A j \in 1..(Depth - 2) : stack'[j] = stack[j]
      /\ Depth > 1 => stack'[Depth - 1] = [stack[Depth - 1] EXCEPT !.vals = Append(@, v)]
  BY <1>1, ReturnShape
<1>3. Depth' = Depth - 1
  BY <1>2 DEF Depth
<1>4. CASE Depth = 1
  BY <1>2, <1>3, <1>4 DEF InScope, Generating
<1>5. CASE Depth # 1
  <2> DEFINE f == stack[Depth - 1]
             k == Len(f.vals) + 1
  <2>1. f \in Frame /\ f.node \in Node /\ Len(f.vals) \in Nat
    <3>1. f \in Frame
      BY <1>1, <1>5, TopIsFrame
    <3> HIDE DEF f
    <3> QED
      BY <3>1 DEF Frame
  <2>2. Waits(f, Top)
    <3>1. Depth - 1 \in 1..(Depth - 1) /\ Depth - 1 + 1 = Depth
      BY <1>1, <1>5
    <3> QED
      BY <1>1, <3>1 DEF GenInv, StackInv
  <2>3. k \in 1..Arity(f.node)
    <3>1. k <= Arity(f.node)
      BY <2>2 DEF Waits
    <3>2. k \in Nat /\ k >= 1 /\ Arity(f.node) \in Nat
      BY <2>1, NodeShape
    <3> HIDE DEF k
    <3> QED
      BY <3>1, <3>2
  <2>4. Ast[f.node].kids[k] # NoNode /\ Top.node = Ast[f.node].kids[k]
        /\ Len(f.old) = BoundFor(f.node, k)
    BY <2>2 DEF Waits, Fits
  <2>5. LexEnv[Top.node] = Scope(f.node, Len(f.old))
    BY <2>1, <2>3, <2>4, KidScope
  <2>6. stack'[Depth - 1].node = f.node /\ stack'[Depth - 1].old = f.old
    <3>1. stack'[Depth - 1] = [f EXCEPT !.vals = Append(@, v)]
      BY <1>1, <1>2, <1>5
    <3> HIDE DEF f
    <3> QED
      BY <2>1, <3>1 DEF Frame
  <2>7. Top' = stack'[Depth - 1]
    BY <1>3 DEF Top
  <2>8. (Generating => NamedValues = Scope(Top.node, Len(Top.old)))'
    BY <2>5, <2>6, <2>7
  <2>9. ASSUME NEW j \in 1..Depth' PROVE Saved(stack'[j])
    <3>1. j \in 1..(Depth - 1)
      BY <1>3
    <3>2. Saved(stack[j])
      BY <1>1, <3>1 DEF InScope
    <3>3. stack'[j].node = stack[j].node /\ stack'[j].old = stack[j].old
      <4>1. CASE j = Depth - 1
        BY <2>6, <4>1
      <4>2. CASE j # Depth - 1
        BY <1>1, <1>2, <3>1, <4>2
      <4> QED
        BY <4>1, <4>2
    <3> QED
      BY <3>2, <3>3 DEF Saved
  <2> QED
    BY <2>8, <2>9 DEF InScope, Saved
<1> QED
  BY <1>4, <1>5

\* Calling a child in the scope its parent has opened.
LEMMA DescendScope ==
  ASSUME GenInv, Generating, InScope, NEW f \in Frame, NEW k \in 1..Arity(f.node),
         f.node = Top.node, Len(f.old) = BoundFor(f.node, k), Saved(f),
         Ast[f.node].kids[k] # NoNode, Descend(f, k),
         NamedValues' = Scope(f.node, Len(f.old))
  PROVE  InScope'
<1> DEFINE kid == Ast[f.node].kids[k]
<1>1. stack \in Seq(Frame) /\ stack # <<>> /\ Depth \in Nat /\ Depth >= 1
  BY AtTop
<1>2. /\ stack' \in Seq(Frame) /\ Len(stack') = Depth + 1
      /\ \A j \in 1..(Depth - 1) : stack'[j] = stack[j]
      /\ stack'[Depth] = f /\ stack'[Depth + 1] = NewFrame(kid)
  BY <1>1, DescendShape
<1>3. f.node \in Node /\ kid \in Node /\ LexEnv[kid] = Scope(f.node, Len(f.old))
  BY KidScope DEF Frame
<1>4. Depth' = Depth + 1 /\ Top' = NewFrame(kid)
  BY <1>2 DEF Depth, Top
<1>5. NewFrame(kid).node = kid /\ NewFrame(kid).old = <<>> /\ Len(<<>>) = 0
  BY DEF NewFrame
<1>6. (Generating => NamedValues = Scope(Top.node, Len(Top.old)))'
  <2>1. NamedValues' = Scope(kid, 0)
    BY <1>3, ScopeZero
  <2>2. Top'.node = kid /\ Len(Top'.old) = 0
    BY <1>4, <1>5
  <2> QED
    BY <2>1, <2>2
<1>7. ASSUME NEW j \in 1..Depth' PROVE Saved(stack'[j])
  <2>1. CASE j \in 1..(Depth - 1)
    <3>1. j \in 1..Depth /\ stack'[j] = stack[j]
      BY <1>1, <1>2, <2>1
    <3> QED
      BY <3>1 DEF InScope
  <2>2. CASE j = Depth
    BY <1>2, <2>2
  <2>3. CASE j = Depth + 1
    <3> DEFINE g == NewFrame(kid)
    <3>1. stack'[j] = g /\ Len(g.old) = 0
      BY <1>2, <1>5, <2>3
    <3> HIDE DEF g
    <3>2. Saved(g)
      BY <3>1 DEF Saved
    <3> QED
      BY <3>1, <3>2
  <2> QED
    BY <1>1, <1>4, <2>1, <2>2, <2>3
<1> QED
  BY <1>6, <1>7 DEF InScope, Saved

\* Going on in the same activation, a name further.
LEMMA ReplaceScope ==
  ASSUME GenInv, Generating, InScope, NEW f \in Frame, f.node = Top.node, Saved(f),
         stack' = Append(Below, f), NamedValues' = Scope(f.node, Len(f.old))
  PROVE  InScope'
<1>1. stack \in Seq(Frame) /\ stack # <<>> /\ Depth \in Nat /\ Depth >= 1
  BY AtTop
<1>2. /\ stack' \in Seq(Frame) /\ Len(stack') = Depth
      /\ \A j \in 1..(Depth - 1) : stack'[j] = stack[j]
      /\ stack'[Depth] = f
  BY <1>1, ReplaceShape
<1>3. Depth' = Depth /\ Top' = f
  BY <1>2 DEF Depth, Top
<1>4. (Generating => NamedValues = Scope(Top.node, Len(Top.old)))'
  BY <1>3
<1>5. ASSUME NEW j \in 1..Depth' PROVE Saved(stack'[j])
  <2>1. CASE j \in 1..(Depth - 1)
    BY <1>1, <1>2, <2>1 DEF InScope
  <2>2. CASE j = Depth
    BY <1>2, <2>2
  <2>3. j \in 1..(Depth - 1) \/ j = Depth
    BY <1>1, <1>3
  <2> QED
    BY <2>1, <2>2, <2>3
<1> QED
  BY <1>4, <1>5 DEF InScope, Saved
-----------------------------------------------------------------------------
(* The frame of a caller that has prepared itself for its next child. *)

\* "=" puts a constant in the place of its left operand's value.
LEMMA AssignFrame ==
  ASSUME NEW f \in Frame
  PROVE  LET g == [f EXCEPT !.vals = <<Const>>]
         IN  g \in Frame /\ g.node = f.node /\ g.old = f.old
<1> DEFINE vals == <<Const>>
<1>1. vals \in Seq(Int)
  BY DEF Const
<1> HIDE DEF vals
<1>2. LET g == [f EXCEPT !.vals = vals]
      IN  g \in Frame /\ g.node = f.node /\ g.old = f.old
  BY <1>1 DEF Frame
<1> QED
  BY <1>2, Zenon DEF vals

\* An if has created its blocks, or has looked ThenBB up again.
LEMMA IfFrames ==
  ASSUME NEW f \in Frame
  PROVE  /\ \A b \in Seq(Nat) : LET g == [f EXCEPT !.bbs = b]
                                IN  g \in Frame /\ g.node = f.node /\ g.old = f.old
                                    /\ g.vals = f.vals
         /\ \A n \in Nat : Len(f.bbs) = 3 =>
              LET g == [f EXCEPT !.bbs[1] = n]
              IN  g \in Frame /\ g.node = f.node /\ g.old = f.old /\ g.vals = f.vals
<1>1. ASSUME NEW b \in Seq(Nat), NEW g, g = [f EXCEPT !.bbs = b]
      PROVE  g \in Frame /\ g.node = f.node /\ g.old = f.old /\ g.vals = f.vals
  BY <1>1 DEF Frame
<1>2. ASSUME NEW n \in Nat, Len(f.bbs) = 3
      PROVE  [f.bbs EXCEPT ![1] = n] \in Seq(Nat)
  <2>1. f.bbs \in Seq(Nat) /\ 1 \in 1..Len(f.bbs)
    BY <1>2 DEF Frame
  <2> QED
    BY <1>2, <2>1, ExceptSeq
<1>3. ASSUME NEW n \in Nat, Len(f.bbs) = 3
      PROVE  LET g == [f EXCEPT !.bbs[1] = n]
             IN  g \in Frame /\ g.node = f.node /\ g.old = f.old /\ g.vals = f.vals
  <2> DEFINE b == [f.bbs EXCEPT ![1] = n]
             g == [f EXCEPT !.bbs[1] = n]
  <2>1. g = [f EXCEPT !.bbs = b]
    OBVIOUS
  <2>2. b \in Seq(Nat)
    BY <1>2, <1>3
  <2> HIDE DEF b, g
  <2>3. g \in Frame /\ g.node = f.node /\ g.old = f.old /\ g.vals = f.vals
    BY <1>1, <2>1, <2>2
  <2> QED
    BY <2>3 DEF g
<1>4. \A b \in Seq(Nat) : LET g == [f EXCEPT !.bbs = b]
                         IN  g \in Frame /\ g.node = f.node /\ g.old = f.old
                             /\ g.vals = f.vals
  BY <1>1
<1> QED
  BY <1>3, <1>4

\* A for has saved the old binding and created LoopBB.
LEMMA ForFrame ==
  \A f \in Frame, loop \in Nat, s \in Slot :
    LET g == [f EXCEPT !.bbs = <<loop>>, !.old = <<s>>]
    IN  g \in Frame /\ g.node = f.node /\ g.old = <<s>> /\ g.vals = f.vals
<1> TAKE f \in Frame, loop \in Nat, s \in Slot
<1> DEFINE b == <<loop>>
           o == <<s>>
<1>1. b \in Seq(Nat) /\ o \in Seq(Slot)
  OBVIOUS
<1> HIDE DEF b, o
<1>2. LET g == [f EXCEPT !.bbs = b, !.old = o]
      IN  g \in Frame /\ g.node = f.node /\ g.old = o /\ g.vals = f.vals
  BY <1>1 DEF Frame
<1> QED
  BY <1>2, Zenon DEF b, o

-----------------------------------------------------------------------------
(* An error, once returned, is returned on. *)

NullIn(f) == \E i \in 1..Len(f.vals) : f.vals[i] = Null

\* Returning null, or a value where no child failed.
LEMMA ReturnFails ==
  ASSUME GenInv, Generating, Failed, NEW v \in Int, Return(v), v = Null \/ ~NullIn(Top)
  PROVE  Failed'
<1>1. /\ stack \in Seq(Frame) /\ stack # <<>> /\ Depth \in Nat /\ Depth >= 1
      /\ Top = stack[Depth]
  BY AtTop DEF Top
<1>2. /\ stack' \in Seq(Frame) /\ Len(stack') = Depth - 1
      /\ \A j \in 1..(Depth - 2) : stack'[j] = stack[j]
      /\ Depth > 1 => stack'[Depth - 1] = [stack[Depth - 1] EXCEPT !.vals = Append(@, v)]
      /\ Depth = 1 => result' = v
  BY <1>1, ReturnShape
<1>3. Depth' = Depth - 1
  BY <1>2 DEF Depth
<1>4. PICK j \in 1..Depth : NullIn(stack[j])
  <2>1. result # Null
    BY DEF GenInv, StackInv, Pending, Null
  <2> QED
    BY <2>1 DEF Failed, NullIn
<1>5. SUFFICES result' = Null \/ \E i \in 1..Depth' : NullIn(stack'[i])
  BY DEF Failed, NullIn
<1>6. CASE j \in 1..(Depth - 2)
  BY <1>1, <1>2, <1>3, <1>4, <1>6
<1>7. CASE ~(j \in 1..(Depth - 2)) /\ Depth > 1
  <2> DEFINE f == stack[Depth - 1]
             g == stack'[Depth - 1]
  <2>1. f \in Frame
    BY <1>1, <1>7, TopIsFrame
  <2>2. g = [f EXCEPT !.vals = Append(@, v)]
    BY <1>1, <1>2, <1>7
  <2> HIDE DEF f, g
  <2>3. f.vals \in Seq(Int) /\ g.vals = Append(f.vals, v)
    BY <2>1, <2>2 DEF Frame
  <2>4. /\ Len(g.vals) = Len(f.vals) + 1 /\ Len(f.vals) \in Nat
        /\ g.vals[Len(f.vals) + 1] = v
        /\ \A i \in 1..Len(f.vals) : g.vals[i] = f.vals[i]
    BY <2>3, AppendProperties
  <2>5. CASE j = Depth - 1
    <3>1. NullIn(f)
      BY <1>4, <2>5 DEF f
    <3>2. PICK i \in 1..Len(f.vals) : f.vals[i] = Null
      BY <3>1 DEF NullIn
    <3>3. i \in 1..Len(g.vals) /\ g.vals[i] = Null
      BY <2>4, <3>2
    <3>4. NullIn(g)
      BY <3>3 DEF NullIn
    <3> QED
      BY <1>1, <1>3, <1>7, <3>4 DEF g
  <2>6. CASE j = Depth
    <3>1. v = Null
      BY <1>1, <1>4, <2>6
    <3>2. NullIn(g)
      BY <2>4, <3>1 DEF NullIn
    <3> QED
      BY <1>1, <1>3, <1>7, <3>2 DEF g
  <2>7. j = Depth \/ j = Depth - 1
    BY <1>1, <1>7
  <2> QED
    BY <2>5, <2>6, <2>7
<1>8. CASE Depth = 1
  <2>1. j = Depth
    BY <1>8
  <2>2. v = Null
    BY <1>1, <1>4, <2>1
  <2> QED
    BY <1>2, <1>8, <2>2
<1>9. Depth = 1 \/ Depth > 1
  BY <1>1
<1> QED
  BY <1>6, <1>7, <1>8, <1>9

\* A stack that keeps the frames below, and the nulls of the innermost one.
LEMMA KeepingFails ==
  ASSUME GenInv, Generating, Failed, Len(stack') \in Nat, Len(stack') >= Depth,
         \A j \in 1..(Depth - 1) : stack'[j] = stack[j],
         NullIn(Top) => NullIn(stack'[Depth])
  PROVE  Failed'
<1>1. Depth \in Nat /\ Depth >= 1 /\ Top = stack[Depth] /\ Depth' = Len(stack')
  BY AtTop DEF Top, Depth
<1>2. PICK j \in 1..Depth : NullIn(stack[j])
  <2>1. result # Null
    BY DEF GenInv, StackInv, Pending, Null
  <2> QED
    BY <2>1 DEF Failed, NullIn
<1>3. j \in 1..Depth' /\ (j = Depth \/ j \in 1..(Depth - 1))
  BY <1>1
<1>4. NullIn(stack'[j])
  BY <1>1, <1>2, <1>3
<1> QED
  BY <1>3, <1>4 DEF Failed, NullIn

\* Calling a child.
LEMMA DescendFails ==
  ASSUME GenInv, Generating, Failed, NEW f \in Frame, NEW k \in Nat, Descend(f, k),
         NullIn(Top) => NullIn(f)
  PROVE  Failed'
<1> DEFINE g == NewFrame(Ast[f.node].kids[k])
           s == Append(Below, f)
<1>1. /\ Depth \in Nat /\ Depth >= 1 /\ Below \in Seq(Frame) /\ Len(Below) = Depth - 1
      /\ \A j \in 1..(Depth - 1) : Below[j] = stack[j]
  BY AtTop, TopIsFrame
<1>2. stack' = Append(s, g)
  BY DEF Descend
<1> HIDE DEF g
<1>3. /\ s \in Seq(Frame \cup {g}) /\ Len(s) = Depth /\ s[Depth] = f
      /\ \A j \in 1..(Depth - 1) : s[j] = stack[j]
  <2>1. Below \in Seq(Frame \cup {g})
    BY <1>1
  <2> HIDE DEF Below
  <2> QED
    BY <1>1, <2>1, AppendProperties
<1> HIDE DEF s
<1>4. /\ Len(stack') = Depth + 1 /\ stack'[Depth] = f
      /\ \A j \in 1..(Depth - 1) : stack'[j] = stack[j]
  <2>1. g \in Frame \cup {g}
    OBVIOUS
  <2>2. Len(Append(s, g)) = Depth + 1 /\ \A j \in 1..Depth : Append(s, g)[j] = s[j]
    BY <1>3, <2>1, AppendProperties
  <2> QED
    BY <1>1, <1>2, <1>3, <2>2
<1> QED
  BY <1>1, <1>4, KeepingFails
\* Where the latest child did not fail, none did, short of a binary operator.
LEMMA NoneFailed ==
  ASSUME GenInv, Generating, Done = 0 \/ Latest # Null, ~CarriesOn(Top.node)
  PROVE  ~NullIn(Top)
<1>1. NullFree(Top, 0)
  BY NoNulls
<1>2. \A i \in 1..Len(Top.vals) : i # 0
  BY AtTop
<1> QED
  BY <1>1, <1>2 DEF NullFree, NullIn

\* Nor did one of the two operands of a builtin or a user's operator.
LEMMA OperandsFine ==
  ASSUME GenInv, Generating, Done = 2, Null \notin Operands
  PROVE  ~NullIn(Top)
<1>1. Len(Top.vals) = 2
  BY AtTop
<1>2. \A i \in 1..2 : i = 1 \/ i = 2
  OBVIOUS
<1> QED
  BY <1>1, <1>2 DEF Operands, NullIn

\* A failed generation stays failed.
LEMMA FailedStays ==
  ASSUME GenInv, Step, Failed
  PROVE  Failed'
<1>1. CASE ~Generating
  <2>1. result # Null /\ stack = <<>>
    BY <1>1, OutsideStep DEF ReturnBody, Const, Null, Generating
  <2> QED
    BY <2>1 DEF Failed, Depth
<1>2. SUFFICES ASSUME Generating PROVE Failed'
  BY <1>1
<1>3. /\ Top \in Frame /\ Top.vals \in Seq(Int) /\ Done \in Nat /\ Done = Len(Top.vals)
      /\ fn.cur \in Int /\ TopAst = Ast[Top.node]
  <2>1. Top \in Frame /\ Top.vals \in Seq(Int) /\ Done \in Nat /\ Done = Len(Top.vals) /\ FnOK(fn)
        /\ TopAst = Ast[Top.node]
    BY <1>2, AtTop
  <2> QED
    BY <2>1 DEF FnOK, FnRecord
<1>4. ASSUME Return(Null) PROVE Failed'
  BY <1>2, <1>4, ReturnFails DEF Null
<1>5. ASSUME NEW v \in Int, Return(v), ~NullIn(Top) PROVE Failed'
  BY <1>2, <1>5, ReturnFails
<1>6. ASSUME NEW k \in Nat, Descend(Top, k) PROVE Failed'
  BY <1>2, <1>3, <1>6, DescendFails
<1>7. ASSUME UNCHANGED <<stack, result>> PROVE Failed'
  BY <1>7 DEF Failed, Depth
<1>8. Done = 0 => ~NullIn(Top)
  BY <1>3 DEF NullIn
<1>9. CASE FailWith("unary") \/ FailWith("call") \/ FailWith("if") \/ FailWith("for")
           \/ FailWith("varin")
  BY <1>4, <1>9 DEF FailWith
<1>10. CASE Number \/ Variable
  BY <1>3, <1>4, <1>5, <1>8, <1>10 DEF Number, Variable, VariableLoad, VariableUnknown, At, Const
<1>11. ASSUME TopAst.kind # "binary", Done = 0 \/ Latest # Null PROVE ~NullIn(Top)
  BY <1>2, <1>3, <1>11, NoneFailed DEF CarriesOn
<1>12. CASE UnaryOperand \/ UnaryCall \/ UnaryUnknown
  <2>1. CASE UnaryCall
    <3>1. ~NullIn(Top)
      BY <1>11, <2>1 DEF UnaryCall, At
    <3> QED
      BY <1>3, <1>5, <2>1, <3>1 DEF UnaryCall
  <2> QED
    BY <1>4, <1>6, <1>12, <2>1 DEF UnaryOperand, UnaryUnknown
<1>13. CASE AssignEnter
  <2> DEFINE f == [Top EXCEPT !.vals = <<Const>>]
  <2>1. Done = 0 /\ Descend(f, 2)
    BY <1>13 DEF AssignEnter, At
  <2>2. f \in Frame
    BY <1>3, AssignFrame
  <2> HIDE DEF f
  <2> QED
    BY <1>2, <1>8, <2>1, <2>2, DescendFails
<1>14. CASE AssignStore
  <2>1. Done = 2 /\ TopAst.name = "=" /\ Latest # Null /\ Return(Latest)
    BY <1>14 DEF AssignStore, At, IsAssign
  <2>2. ~NullIn(Top)
    BY <1>2, <1>3, <2>1, NoneFailed DEF CarriesOn
  <2>3. Latest \in Int
    BY <1>2, <2>1, LatestInt
  <2> QED
    BY <1>5, <2>1, <2>2, <2>3
<1>15. CASE BinaryBuiltin \/ BinaryUser
  <2>1. Done = 2 /\ Null \notin Operands /\ Return(fn.cur)
    BY <1>15 DEF BinaryBuiltin, BinaryUser, At
  <2> QED
    BY <1>2, <1>3, <1>5, <2>1, OperandsFine
<1>16. CASE BinaryLHS \/ BinaryRHS
  BY <1>6, <1>16 DEF BinaryLHS, BinaryRHS
<1>17. CASE AssignUnknown \/ BinaryFail
  BY <1>4, <1>17 DEF AssignUnknown, BinaryFail
<1>18. CASE AssignUndefined \/ BinaryAssertFails
  BY <1>7, <1>18 DEF AssignUndefined, BinaryAssertFails
<1>19. CASE CallReject \/ CallArgument \/ CallEmit
  <2>1. CASE CallEmit
    <3>1. ~NullIn(Top)
      BY <1>11, <2>1 DEF CallEmit, At
    <3> QED
      BY <1>3, <1>5, <2>1, <3>1 DEF CallEmit
  <2>2. CASE CallArgument
    BY <1>3, <1>6, <2>2 DEF CallArgument
  <2> QED
    BY <1>4, <1>19, <2>1, <2>2 DEF CallReject
<1>20. CASE IfCondition \/ IfThen \/ IfElse \/ IfMerge
  <2>1. CASE IfThen
    <3>1. PICK b \in Seq(Nat) : Descend([Top EXCEPT !.bbs = b], 2)
      <4> DEFINE n == Len(fn.blocks)
                 b == <<n + 1, n + 2, n + 3>>
      <4>1. Descend([Top EXCEPT !.bbs = b], 2)
        BY <2>1 DEF IfThen
      <4>2. n \in Nat
        BY <1>2, AtTop DEF FnOK, FnRecord
      <4> HIDE DEF n
      <4>3. b \in Seq(Nat)
        BY <4>2
      <4> QED
        BY <4>1, <4>3
    <3>2. [Top EXCEPT !.bbs = b] \in Frame /\ [Top EXCEPT !.bbs = b].vals = Top.vals
      BY <1>3, <3>1, IfFrames
    <3> QED
      BY <1>2, <3>1, <3>2, DescendFails DEF NullIn
  <2>2. CASE IfElse
    <3> DEFINE f == [Top EXCEPT !.bbs[1] = ThenEnd]
    <3>1. f \in Frame /\ f.vals = Top.vals
      <4>1. fn.cur \in Nat /\ Top.bbs \in Seq(Nat)
        BY <1>2, AtTop DEF FnOK, FnRecord
      <4>2. Len(Top.bbs) = 3
        BY <1>2, <2>2, IfHolds DEF IfElse, At
      <4> QED
        BY <1>3, <4>1, <4>2, IfFrames DEF ThenEnd
    <3>2. Descend(f, 3)
      BY <2>2 DEF IfElse
    <3> QED
      BY <1>2, <3>1, <3>2, DescendFails DEF NullIn
  <2>3. CASE IfMerge
    <3>1. ~NullIn(Top) /\ Done = 3 /\ TopAst.kind = "if" /\ Return(PhiValue)
      BY <1>11, <2>3 DEF IfMerge, At
    <3>2. PhiValue \in Int
      BY <1>2, <3>1, IfHolds DEF PhiValue, GenInv, TypeOK
    <3> QED
      BY <1>5, <3>1, <3>2
  <2> QED
    BY <1>6, <1>20, <2>1, <2>2, <2>3 DEF IfCondition
<1>21. CASE ForStart \/ ForBody \/ ForNext \/ ForLatch
  <2>1. CASE ForBody
    <3> DEFINE loop == Len(fn.blocks) + 1
               v == TopAst.names[1]
               s == NamedValues[v]
               f == [Top EXCEPT !.bbs = <<loop>>, !.old = <<s>>]
    <3>1. Descend(f, 2) /\ TopAst.kind = "for"
      BY <2>1 DEF ForBody, At
    <3>2. loop \in Nat /\ s \in Slot
      <4>1. FnOK(fn) /\ NamedValues \in [Var -> Slot] /\ Top.node \in Node
        BY <1>2, AtTop
      <4>2. TopAst.names \in Seq(Var) /\ Len(TopAst.names) = 1
        BY <1>3, <3>1, <4>1, NodeShape
      <4>3. v \in Var
        BY <4>2
      <4>4. loop \in Nat
        BY <4>1 DEF FnOK, FnRecord
      <4>5. NamedValues[v] \in Slot
        <5> HIDE DEF v
        <5> QED
          BY <4>1, <4>3
      <4> QED
        BY <4>4, <4>5
    <3>3. Top \in Frame
      BY <1>3
    <3> HIDE DEF loop, v, s
    <3>4. f \in Frame /\ f.vals = Top.vals
      BY <3>2, <3>3, ForFrame, Zenon
    <3> HIDE DEF f
    <3> QED
      BY <1>2, <3>1, <3>4, DescendFails DEF NullIn
  <2>2. CASE ForLatch
    <3>1. ~NullIn(Top)
      BY <1>11, <2>2 DEF ForLatch, At
    <3> QED
      BY <1>5, <2>2, <3>1 DEF ForLatch, Const
  <2> QED
    BY <1>3, <1>6, <1>21, <2>1, <2>2 DEF ForStart, ForNext
<1>22. CASE VarInitialiser \/ VarBody
  <2>1. NextName \in Nat
    BY <1>2, AtTop DEF NextName
  <2> QED
    BY <1>6, <1>22, <2>1 DEF VarInitialiser, VarBody
<1>23. CASE VarDefault \/ VarRegister
  <2>1. PICK vals, old : /\ stack' = Append(Below, [Top EXCEPT !.vals = vals, !.old = old])
                         /\ vals = Top.vals \/ vals = Append(Top.vals, Const)
                         /\ UNCHANGED result
    BY <1>23 DEF VarDefault, VarRegister, Bind
  <2> DEFINE f == [Top EXCEPT !.vals = vals, !.old = old]
  <2>2. f.vals = vals
    BY <1>3 DEF Frame
  <2> HIDE DEF f
  <2>3. NullIn(Top) => NullIn(f)
    <3>1. ASSUME NEW i \in 1..Len(Top.vals), Top.vals[i] = Null
          PROVE  i \in 1..Len(vals) /\ vals[i] = Null
      <4>1. CASE vals = Top.vals
        BY <3>1, <4>1
      <4>2. CASE vals = Append(Top.vals, Const)
        <5>1. Const \in Int
          BY DEF Const
        <5>2. Len(vals) = Len(Top.vals) + 1 /\ \A m \in 1..Len(Top.vals) : vals[m] = Top.vals[m]
          BY <1>3, <4>2, <5>1, AppendProperties
        <5> QED
          BY <1>3, <3>1, <5>2
      <4> QED
        BY <2>1, <4>1, <4>2
    <3> QED
      BY <2>2, <3>1 DEF NullIn
  <2>4. /\ Len(stack') = Depth /\ stack'[Depth] = f
        /\ \A j \in 1..(Depth - 1) : stack'[j] = stack[j]
    <3>1. /\ Depth \in Nat /\ Depth >= 1 /\ Below \in Seq(Frame) /\ Len(Below) = Depth - 1
          /\ \A j \in 1..(Depth - 1) : Below[j] = stack[j]
      BY <1>2, AtTop, TopIsFrame
    <3>2. Below \in Seq(Frame \cup {f}) /\ stack' = Append(Below, f)
      BY <2>1, <3>1 DEF f
    <3> HIDE DEF Below
    <3> QED
      BY <3>1, <3>2, AppendProperties
  <2>5. Depth \in Nat
    BY <1>2, AtTop
  <2> QED
    BY <1>2, <2>3, <2>4, <2>5, KeepingFails
<1>24. CASE VarLeave
  <2>1. TopAst.kind = "varin" /\ Latest # Null /\ Return(Latest)
        /\ Done = Len(TopAst.names) + 1
    BY <1>24 DEF VarLeave, InVarIn
  <2>2. ~NullIn(Top)
    BY <1>11, <2>1
  <2>3. Latest \in Int
    <3>1. Done > 0
      BY <1>2, <1>3, <2>1, AtTop, NodeShape
    <3> QED
      BY <1>2, <3>1, LatestInt
  <2> QED
    BY <1>5, <2>1, <2>2, <2>3
<1> QED
  BY <1>2, <1>9, <1>10, <1>12, <1>13, <1>14, <1>15, <1>16, <1>17, <1>18, <1>19, <1>20, <1>21,
     <1>22, <1>23, <1>24 DEF Step, Unary, Binary, Call, If, For, VarIn, ReturnBody

-----------------------------------------------------------------------------
(* A step keeps the map equal to the scope. *)

\* A null is seen by the caller.
LEMMA NullReturned ==
  ASSUME GenInv, Generating, Return(Null)
  PROVE  Failed'
<1>1. stack \in Seq(Frame) /\ stack # <<>> /\ Depth \in Nat /\ Depth >= 1
  BY AtTop
<1>2. Null \in Int
  BY DEF Null
<1>3. /\ Len(stack') = Depth - 1
      /\ Depth > 1 => stack'[Depth - 1] = [stack[Depth - 1] EXCEPT !.vals = Append(@, Null)]
      /\ Depth = 1 => result' = Null
  BY <1>1, <1>2, ReturnShape
<1>4. CASE Depth = 1
  BY <1>3, <1>4 DEF Failed
<1>5. CASE Depth > 1
  <2> DEFINE f == stack[Depth - 1]
             g == stack'[Depth - 1]
  <2>1. f \in Frame
    BY <1>1, <1>5, TopIsFrame
  <2>2. g = [f EXCEPT !.vals = Append(@, Null)]
    BY <1>3, <1>5
  <2> HIDE DEF f, g
  <2>3. f.vals \in Seq(Int) /\ g.vals = Append(f.vals, Null)
    BY <2>1, <2>2 DEF Frame
  <2>4. Len(g.vals) = Len(f.vals) + 1 /\ Len(f.vals) \in Nat /\ g.vals[Len(f.vals) + 1] = Null
    BY <1>2, <2>3, AppendProperties
  <2>5. Len(f.vals) + 1 \in 1..Len(g.vals)
    BY <2>4
  <2>6. Depth - 1 \in 1..Depth'
    BY <1>1, <1>3, <1>5 DEF Depth
  <2> QED
    BY <2>4, <2>5, <2>6 DEF Failed, g
<1> QED
  BY <1>1, <1>4, <1>5

\* Only a for and a var/in ever bind anything.
LEMMA NothingBound ==
  ASSUME GenInv, Generating, TopAst.kind \notin {"for", "varin"}
  PROVE  Len(Top.old) = 0
<1>1. \A k : BoundFor(Top.node, k) = 0
  BY AtTop DEF BoundFor
<1>2. GotValue(Top) \/ GoesOn(Top)
  BY DEF GenInv, StackInv
<1> QED
  BY <1>1, <1>2 DEF GotValue, GoesOn, Fits

\* A construct that binds nothing returns.
LEMMA PlainReturnScope ==
  ASSUME GenInv, Generating, InScope, TopAst.kind \notin {"for", "varin"},
         NEW v \in Int, Return(v), UNCHANGED NamedValues
  PROVE  InScope'
<1>1. Len(Top.old) = 0 /\ Top.node \in Node
  BY NothingBound, AtTop
<1>2. NamedValues' = LexEnv[Top.node]
  BY <1>1, ScopeZero DEF InScope
<1> QED
  BY <1>2, ReturnScope

\* A construct that binds nothing calls a child; f is its frame by then.
LEMMA PlainDescendScope ==
  ASSUME GenInv, Generating, InScope, TopAst.kind \notin {"for", "varin"},
         NEW f \in Frame, f.node = Top.node, f.old = Top.old,
         NEW k \in 1..Arity(Top.node), Descend(f, k), UNCHANGED NamedValues
  PROVE  InScope'
<1>1. Len(Top.old) = 0 /\ Top.node \in Node /\ TopAst = Ast[Top.node]
      /\ Depth \in Nat /\ Depth >= 1
  BY NothingBound, AtTop
<1>2. BoundFor(f.node, k) = 0
  BY <1>1 DEF BoundFor
<1>3. Ast[f.node].kids[k] # NoNode
  BY <1>1, KidIsNode
<1>4. Saved(f)
  BY <1>1 DEF Saved
<1>5. NamedValues' = Scope(f.node, Len(f.old))
  BY DEF InScope
<1> QED
  BY <1>1, <1>2, <1>3, <1>4, <1>5, DescendScope

\* The same construct as a parent of one, two or more children.
LEMMA PlainCallScope ==
  ASSUME GenInv, Generating, InScope, TopAst.kind \notin {"for", "varin"},
         NEW k \in 1..Arity(Top.node), Descend(Top, k), UNCHANGED NamedValues
  PROVE  InScope'
BY AtTop, PlainDescendScope

\* The bindings the innermost activation saved.
LEMMA TopSaved ==
  ASSUME GenInv, Generating, InScope
  PROVE  Saved(Top) /\ NamedValues = Scope(Top.node, Len(Top.old))
<1>1. Depth \in 1..Depth
  BY AtTop
<1> QED
  BY <1>1 DEF InScope, Top

\* Any construct calls its next child in the scope it has opened by then.
LEMMA NextChildScope ==
  ASSUME GenInv, Generating, InScope, Done < Arity(Top.node), Fits(Top, Done + 1),
         TopAst.kids[Done + 1] # NoNode, Descend(Top, Done + 1), UNCHANGED NamedValues
  PROVE  InScope'
<1>1. Top \in Frame /\ Top.node \in Node /\ Done \in Nat /\ TopAst = Ast[Top.node]
      /\ Arity(Top.node) \in Nat
  BY AtTop, NodeShape
<1>2. Done + 1 \in 1..Arity(Top.node)
  BY <1>1
<1>3. Saved(Top) /\ NamedValues' = Scope(Top.node, Len(Top.old))
  BY TopSaved
<1>4. Len(Top.old) = BoundFor(Top.node, Done + 1)
  BY DEF Fits
<1> QED
  BY <1>1, <1>2, <1>3, <1>4, DescendScope

\* How many names a var/in has registered when it has the values of Done of its children.
LEMMA VarInCount ==
  ASSUME GenInv, Generating, TopAst.kind = "varin"
  PROVE  \/ Len(Top.old) = Done /\ Done < Arity(Top.node)
         \/ Len(Top.old) = Done - 1 /\ Done <= Arity(Top.node)
<1>1. /\ Top.node \in Node /\ TopAst = Ast[Top.node] /\ Done = Len(Top.vals) /\ Done \in Nat
      /\ Arity(Top.node) \in Nat /\ Arity(Top.node) >= 2
  <2>1. /\ Top.node \in Node /\ TopAst = Ast[Top.node] /\ Done = Len(Top.vals) /\ Done \in Nat
    BY AtTop
  <2>2. /\ Len(Ast[Top.node].names) >= 1 /\ Len(Ast[Top.node].names) \in Nat
        /\ Arity(Top.node) = Len(Ast[Top.node].names) + 1
    BY <2>1, NodeShape
  <2> QED
    BY <2>1, <2>2
<1>2. \A k \in Nat : BoundFor(Top.node, k) = k - 1
  BY <1>1 DEF BoundFor
<1>3. CASE GotValue(Top)
  BY <1>1, <1>2, <1>3 DEF GotValue, Fits
<1>4. CASE GoesOn(Top)
  <2>1. (Done = 0 \/ Done < Arity(Top.node)) /\ Len(Top.old) = BoundFor(Top.node, Done + 1)
    BY <1>1, <1>4 DEF GoesOn, Fits
  <2>2. BoundFor(Top.node, Done + 1) = Done
    <3>1. Done + 1 \in Nat /\ Done + 1 - 1 = Done
      BY <1>1
    <3>2. BoundFor(Top.node, Done + 1) = Done + 1 - 1
      BY <1>1 DEF BoundFor
    <3> QED
      BY <3>1, <3>2
  <2> QED
    BY <1>1, <2>1, <2>2
<1> QED
  BY <1>3, <1>4 DEF GenInv, StackInv

\* If: its blocks come and go, the scope does not.
LEMMA IfScope ==
  ASSUME GenInv, Generating, InScope, ~Failed', If
  PROVE  InScope'
<1>1. CASE FailWith("if")
  BY <1>1, NullReturned DEF FailWith
<1>2. SUFFICES ASSUME TopAst.kind = "if", IfCondition \/ IfThen \/ IfElse \/ IfMerge
               PROVE  InScope'
  BY <1>1 DEF If, IfCondition, IfThen, IfElse, IfMerge, At
<1>3. /\ Top \in Frame /\ Top.node \in Node /\ TopAst = Ast[Top.node] /\ Arity(Top.node) = 3
      /\ FnOK(fn) /\ fn.cur \in Nat /\ Len(fn.blocks) \in Nat
  <2>1. Top \in Frame /\ Top.node \in Node /\ TopAst = Ast[Top.node] /\ FnOK(fn)
    BY AtTop
  <2>2. Arity(Top.node) = 3
    BY <1>2, <2>1, NodeShape
  <2>3. fn.cur \in Nat /\ Len(fn.blocks) \in Nat
    BY <2>1 DEF FnOK, FnRecord
  <2> QED
    BY <2>1, <2>2, <2>3
<1>4. 1 \in 1..3 /\ 2 \in 1..3 /\ 3 \in 1..3
  OBVIOUS
<1>5. CASE IfCondition
  BY <1>2, <1>3, <1>4, <1>5, PlainCallScope DEF IfCondition
<1>6. CASE IfThen
  <2> DEFINE m == Len(fn.blocks)
             b == <<m + 1, m + 2, m + 3>>
             f == [Top EXCEPT !.bbs = b]
  <2>1. Descend(f, 2) /\ UNCHANGED NamedValues
    BY <1>6 DEF IfThen
  <2>2. b \in Seq(Nat)
    <3>1. m \in Nat
      BY <1>3
    <3> HIDE DEF m
    <3> QED
      BY <3>1
  <2> HIDE DEF b
  <2>3. f \in Frame /\ f.node = Top.node /\ f.old = Top.old
    BY <1>3, <2>2, IfFrames
  <2> HIDE DEF f
  <2> QED
    BY <1>2, <1>3, <1>4, <2>1, <2>3, PlainDescendScope
<1>7. CASE IfElse
  <2> DEFINE f == [Top EXCEPT !.bbs[1] = ThenEnd]
  <2>1. Descend(f, 3) /\ UNCHANGED NamedValues
    BY <1>7 DEF IfElse
  <2>2. Len(Top.bbs) = 3
    BY <1>2, <1>7, IfHolds DEF IfElse, At
  <2>3. f \in Frame /\ f.node = Top.node /\ f.old = Top.old
    BY <1>3, <2>2, IfFrames DEF ThenEnd
  <2> HIDE DEF f
  <2> QED
    BY <1>2, <1>3, <1>4, <2>1, <2>3, PlainDescendScope
<1>8. CASE IfMerge
  <2>1. PhiValue \in Int
    <3>1. Done = 3
      BY <1>8 DEF IfMerge, At
    <3>2. Top.bbs[3] \in 1..Len(fn.blocks)
      BY <1>2, <1>4, <3>1, IfHolds
    <3> QED
      BY <3>2 DEF PhiValue
  <2> QED
    BY <1>2, <1>8, <2>1, PlainReturnScope DEF IfMerge
<1> QED
  BY <1>2, <1>5, <1>6, <1>7, <1>8

\* For: the loop variable is bound after the start expression and unbound at the latch.
LEMMA ForScope ==
  ASSUME GenInv, Generating, InScope, ~Failed', For
  PROVE  InScope'
<1>1. CASE FailWith("for")
  BY <1>1, NullReturned DEF FailWith
<1>2. SUFFICES ASSUME TopAst.kind = "for", ForStart \/ ForBody \/ ForNext \/ ForLatch
               PROVE  InScope'
  BY <1>1 DEF For, ForStart, ForBody, ForNext, ForLatch, At
<1> DEFINE n == Top.node
           w == Ast[n].names[1]
<1>3. /\ Top \in Frame /\ n \in Node /\ TopAst = Ast[n] /\ Arity(n) = Len(TopAst.kids)
      /\ Done \in Nat /\ Done = Len(Top.vals) /\ NamedValues \in [Var -> Slot]
      /\ FnOK(fn) /\ Len(fn.blocks) \in Nat
  BY AtTop DEF FnOK, FnRecord
<1>4. /\ Arity(n) \in Nat /\ Arity(n) >= 3
      /\ Ast[n].names = <<w>> /\ Len(Ast[n].names) = 1 /\ w \in Var
  <2>1. Ast[n].names \in Seq(Var) /\ Len(Ast[n].names) = 1 /\ Arity(n) \in {3, 4}
    BY <1>2, <1>3, NodeShape
  <2>2. w \in Var /\ Ast[n].names = <<w>>
    BY <2>1
  <2> QED
    BY <2>1, <2>2
<1>5. \A k \in 1..Arity(n) : Ast[n].kids[k] # NoNode
  BY <1>2, <1>3, KidIsNode
<1>6. Saved(Top) /\ NamedValues = Scope(n, Len(Top.old))
  BY TopSaved
<1>7. ASSUME ForStart \/ ForNext PROVE InScope'
  <2>1. /\ Done # 1 /\ Done < Arity(n) /\ Descend(Top, Done + 1) /\ UNCHANGED NamedValues
    <3>1. CASE ForStart
      BY <1>4, <3>1 DEF ForStart, At
    <3>2. CASE ForNext
      <4>1. Done >= 2
        BY <3>2 DEF ForNext, MoreChildren
      <4>2. Done \in Nat
        BY <1>3
      <4>3. Done # 1
        BY <4>1, <4>2
      <4> QED
        BY <1>3, <3>2, <4>3 DEF ForNext, MoreChildren
    <3> QED
      BY <1>7, <3>1, <3>2
  <2>2. Fits(Top, Done + 1)
    BY <1>2, <2>1, FitsNext
  <2>3. TopAst.kids[Done + 1] # NoNode
    <3>1. Done + 1 \in 1..Arity(n)
      BY <1>3, <1>4, <2>1
    <3> QED
      BY <1>3, <1>5, <3>1
  <2> QED
    BY <2>1, <2>2, <2>3, NextChildScope
<1>8. CASE ForBody
  <2> DEFINE loop == Len(fn.blocks) + 1
             s == NamedValues[w]
             f == [Top EXCEPT !.bbs = <<loop>>, !.old = <<s>>]
  <2>1. /\ Done = 1 /\ Descend(f, 2)
        /\ NamedValues' = [NamedValues EXCEPT ![w] = LocalSlot(n, 1)]
    BY <1>3, <1>8 DEF ForBody, At
  <2>2. Len(Top.old) = 0
    <3>1. GotValue(Top)
      BY <1>2, <1>3, <2>1 DEF GenInv, StackInv, GoesOn
    <3> QED
      BY <1>2, <1>3, <2>1, <3>1 DEF GotValue, Fits, BoundFor
  <2>3. NamedValues = Scope(n, 0) /\ Scope(n, 0) = LexEnv[n] /\ s = LexEnv[n][w]
    BY <1>3, <1>6, <2>2, ScopeZero
  <2>4. NamedValues' = Scope(n, 1)
    <3>1. [Scope(n, 0) EXCEPT ![Ast[n].names[0 + 1]] = LocalSlot(n, 0 + 1)] = Scope(n, 0 + 1)
      <4>1. 0 \in Nat /\ 0 + 1 <= Len(Ast[n].names)
        BY <1>4
      <4> QED
        BY <1>3, <4>1, BindScope
    <3>2. [Scope(n, 0) EXCEPT ![w] = LocalSlot(n, 1)] = Scope(n, 1)
      <4>1. 0 + 1 = 1
        OBVIOUS
      <4> QED
        BY <3>1, <4>1
    <3> HIDE DEF w, n
    <3>3. NamedValues' = [Scope(n, 0) EXCEPT ![w] = LocalSlot(n, 1)]
      BY <2>1, <2>3
    <3> QED
      BY <3>2, <3>3
  <2>5. f \in Frame /\ f.node = n /\ f.old = <<s>>
    <3>1. loop \in Nat
      BY <1>3
    <3>2. s \in Slot
      <4> HIDE DEF w
      <4> QED
        BY <1>3, <1>4
    <3>3. Top \in Frame
      BY <1>3
    <3> HIDE DEF loop, s
    <3> QED
      BY <3>1, <3>2, <3>3, ForFrame, Zenon
  <2>6. Len(f.old) = 1 /\ f.old[1] = s
    BY <2>5
  <2> HIDE DEF f, s
  <2>7. Saved(f)
    BY <2>3, <2>5, <2>6 DEF Saved
  <2>8. BoundFor(n, 2) = 1 /\ 2 \in 1..Arity(n)
    BY <1>2, <1>3, <1>4 DEF BoundFor
  <2> QED
    BY <1>5, <2>1, <2>4, <2>5, <2>6, <2>7, <2>8, DescendScope
<1>9. CASE ForLatch
  <2>1. Done >= 2 /\ NamedValues' = Unbound /\ Return(Const) /\ Const \in Int
    BY <1>3, <1>4, <1>9 DEF ForLatch, At, Const
  <2>2. Len(Top.old) = 1
    BY <1>2, <2>1, ForHolds
  <2>3. Top.old[1] = LexEnv[n][w]
    BY <1>6, <2>2 DEF Saved
  <2>4. NamedValues' = [Scope(n, 1) EXCEPT ![w] = LexEnv[n][w]]
    BY <1>3, <1>6, <2>1, <2>2, <2>3 DEF Unbound
  <2>5. NamedValues' = LexEnv[n]
    BY <1>3, <1>4, <2>4, RestoreOne
  <2> QED
    BY <2>1, <2>5, ReturnScope
<1> QED
  BY <1>2, <1>7, <1>8, <1>9

\* VarIn: the names are bound one by one and unbound together.
LEMMA VarInScope ==
  ASSUME NamesDistinct, GenInv, Generating, InScope, ~Failed', VarIn
  PROVE  InScope'
<1>1. CASE FailWith("varin")
  BY <1>1, NullReturned DEF FailWith
<1>2. SUFFICES ASSUME TopAst.kind = "varin",
                      VarInitialiser \/ VarDefault \/ VarRegister \/ VarBody \/ VarLeave
               PROVE  InScope'
  BY <1>1 DEF VarIn, VarInitialiser, VarDefault, VarRegister, VarBody, VarLeave, InVarIn
<1> DEFINE n == Top.node
           names == Ast[n].names
<1>3. /\ Top \in Frame /\ n \in Node /\ TopAst = Ast[n]
      /\ Top.vals \in Seq(Int) /\ Top.old \in Seq(Slot) /\ Len(Top.old) \in Nat
      /\ Done = Len(Top.vals) /\ Done \in Nat /\ NamedValues \in [Var -> Slot]
  BY AtTop
<1>4. /\ names \in Seq(Var) /\ Len(names) \in Nat /\ Arity(n) = Len(names) + 1
      /\ Arity(n) \in Nat
  BY <1>2, <1>3, NodeShape
<1>5. Saved(Top) /\ NamedValues = Scope(n, Len(Top.old))
  BY TopSaved
<1>6. \/ Len(Top.old) = Done /\ Done < Arity(n)
      \/ Len(Top.old) = Done - 1 /\ Done <= Arity(n)
  BY <1>2, VarInCount
<1>7. ASSUME VarInitialiser \/ VarBody PROVE InScope'
  <2>1. /\ Done = Len(Top.old) /\ TopAst.kids[Done + 1] # NoNode
        /\ Descend(Top, Done + 1) /\ UNCHANGED NamedValues
    <3>1. CASE VarInitialiser
      BY <3>1 DEF VarInitialiser, NextName
    <3>2. CASE VarBody
      <4>1. /\ Done = Len(Top.old) /\ Done = Len(names)
            /\ Descend(Top, Done + 1) /\ UNCHANGED NamedValues
        BY <1>3, <3>2 DEF VarBody, NextName, Registered
      <4>2. Done + 1 \in 1..Arity(n) /\ ~(Done + 1 < Arity(n))
        BY <1>4, <4>1
      <4> QED
        BY <1>3, <4>1, <4>2, KidIsNode
    <3> QED
      BY <1>7, <3>1, <3>2
  <2>2. Fits(Top, Done + 1)
    BY <1>2, <2>1, FitsNext
  <2>3. Done < Arity(n)
    BY <1>3, <1>6, <2>1
  <2> QED
    BY <2>1, <2>2, <2>3, NextChildScope
<1>8. ASSUME VarDefault \/ VarRegister PROVE InScope'
  <2> DEFINE b == Len(Top.old)
             v == names[b + 1]
             old == Append(Top.old, NamedValues[v])
  <2>1. PICK vals : /\ ~Registered /\ Bind(vals)
                    /\ vals = Append(Top.vals, Const) \/ vals = Top.vals
    BY <1>8 DEF VarDefault, VarRegister
  <2> DEFINE f == [Top EXCEPT !.vals = vals, !.old = old]
  <2>2. b \in Nat /\ b + 1 <= Len(names) /\ b + 1 \in 1..Len(names) /\ v \in Var
    <3>1. b \in Nat /\ b # Len(names)
      BY <1>3, <2>1 DEF Registered
    <3> HIDE DEF b, names
    <3>2. b <= Len(names)
      BY <1>3, <1>4, <1>6, <3>1 DEF b
    <3>3. b + 1 <= Len(names) /\ b + 1 \in 1..Len(names)
      BY <1>4, <3>1, <3>2
    <3> QED
      BY <1>4, <3>1, <3>3
  <2>3. /\ stack' = Append(Below, f)
        /\ NamedValues' = [NamedValues EXCEPT ![v] = LocalSlot(n, b + 1)]
    BY <1>3, <2>1 DEF Bind, NextName
  <2>4. NamedValues[v] = LexEnv[n][v] /\ NamedValues[v] \in Slot
    BY <1>3, <1>5, <2>2, FirstMention
  <2>5. /\ old \in Seq(Slot) /\ Len(old) = b + 1 /\ old[b + 1] = NamedValues[v]
        /\ \A i \in 1..b : old[i] = Top.old[i]
    <3>1. NamedValues[v] \in Slot
      BY <2>4
    <3> QED
      BY <1>3, <3>1, AppendProperties
  <2>6. vals \in Seq(Int)
    <3>1. Const \in Int
      BY DEF Const
    <3>2. Append(Top.vals, Const) \in Seq(Int)
      BY <1>3, <3>1, AppendProperties
    <3> QED
      BY <1>3, <2>1, <3>2
  <2> HIDE DEF old
  <2>7. f \in Frame /\ f.node = n /\ f.old = old
    BY <1>3, <2>5, <2>6 DEF Frame
  <2> HIDE DEF f
  <2>8. Saved(f)
    <3>1. ASSUME NEW i \in 1..(b + 1) PROVE old[i] = LexEnv[n][names[i]]
      <4>1. CASE i \in 1..b
        BY <1>5, <2>5, <4>1 DEF Saved
      <4>2. CASE i = b + 1
        BY <2>4, <2>5, <4>2
      <4> QED
        BY <2>2, <4>1, <4>2
    <3> QED
      BY <2>5, <2>7, <3>1 DEF Saved
  <2>9. NamedValues' = Scope(n, b + 1)
    BY <1>3, <1>5, <2>2, <2>3, BindScope
  <2> QED
    BY <2>3, <2>5, <2>7, <2>8, <2>9, ReplaceScope
<1>9. CASE VarLeave
  <2>1. /\ Done = Len(names) + 1 /\ NamedValues' = Restored /\ Return(Latest)
    BY <1>3, <1>9 DEF VarLeave
  <2>2. Latest \in Int
    BY <1>4, <2>1, LatestInt
  <2>3. NamedValues' = LexEnv[n]
    <3>1. \A i \in 1..Len(Top.old) : Top.old[i] = LexEnv[n][Ast[n].names[i]]
      BY <1>5 DEF Saved
    <3>2. NamedValues' = [v \in Var |-> IF BindsIn(n, Len(Top.old), v)
                                          THEN Top.old[LastNamed(n, Len(Top.old), v)]
                                          ELSE Scope(n, Len(Top.old))[v]]
      BY <1>5, <2>1 DEF Restored
    <3> DEFINE b == Len(Top.old)
               old == Top.old
    <3>3. [v \in Var |-> IF BindsIn(n, b, v) THEN old[LastNamed(n, b, v)]
                                              ELSE Scope(n, b)[v]] = LexEnv[n]
      <4>1. n \in Node /\ b \in Nat /\ \A i \in 1..b : old[i] = LexEnv[n][Ast[n].names[i]]
        BY <1>3, <3>1
      <4> HIDE DEF n, b, old
      <4> QED
        BY <4>1, RestoreScope
    <3> QED
      BY <3>2, <3>3
  <2> QED
    BY <2>1, <2>2, <2>3, ReturnScope
<1> QED
  BY <1>2, <1>7, <1>8, <1>9

\* The innermost activations of the other kinds.
LEMMA LeafScope ==
  ASSUME GenInv, Generating, InScope, ~Failed', Number \/ Variable \/ Unary \/ Call
  PROVE  InScope'
<1>1. /\ fn.cur \in Int /\ Const \in Int /\ Done \in Nat /\ Arity(Top.node) = Len(TopAst.kids)
      /\ Top.node \in Node /\ TopAst = Ast[Top.node] /\ Arity(Top.node) \in Nat
  <2>1. FnOK(fn) /\ Done \in Nat /\ Arity(Top.node) = Len(TopAst.kids)
        /\ Top.node \in Node /\ TopAst = Ast[Top.node]
    BY AtTop
  <2> QED
    BY <2>1, NodeShape DEF FnOK, FnRecord, Const
<1>2. ~Return(Null)
  BY NullReturned
<1>3. ASSUME TopAst.kind \notin {"for", "varin"}, Return(fn.cur) \/ Return(Const),
             UNCHANGED NamedValues
      PROVE  InScope'
  BY <1>1, <1>3, PlainReturnScope
<1>4. ASSUME TopAst.kind \notin {"for", "varin"}, Done < Len(TopAst.kids),
             Descend(Top, Done + 1), UNCHANGED NamedValues
      PROVE  InScope'
  <2>1. Done + 1 \in 1..Arity(Top.node)
    BY <1>1, <1>4
  <2> QED
    BY <1>4, <2>1, PlainCallScope
<1>5. CASE Number \/ Variable
  BY <1>2, <1>3, <1>5 DEF Number, Variable, VariableLoad, VariableUnknown, At
<1>6. CASE Unary
  <2>1. CASE UnaryOperand
    <3>1. TopAst.kind = "unary" /\ Done = 0 /\ Descend(Top, 1) /\ UNCHANGED NamedValues
      BY <2>1 DEF UnaryOperand, At
    <3>2. Arity(Top.node) = 1
      BY <1>1, <3>1, NodeShape
    <3> QED
      BY <1>1, <1>4, <3>1, <3>2
  <2> QED
    BY <1>2, <1>3, <1>6, <2>1 DEF Unary, UnaryCall, UnaryUnknown, FailWith, At
<1>7. CASE Call
  <2>1. CASE CallArgument
    BY <1>4, <2>1 DEF CallArgument
  <2>2. CASE CallEmit
    BY <1>3, <2>2 DEF CallEmit, At
  <2> QED
    BY <1>2, <1>7, <2>1, <2>2 DEF Call, CallReject, FailWith
<1> QED
  BY <1>5, <1>6, <1>7

\* Binary: the left operand of an assignment is not generated.
LEMMA BinaryScope ==
  ASSUME GenInv, Generating, InScope, ~Failed', Binary
  PROVE  InScope'
<1>1. TopAst.kind = "binary"
  BY DEF Binary, AssignEnter, AssignStore, AssignUnknown, AssignUndefined, BinaryLHS, BinaryRHS,
     BinaryBuiltin, BinaryUser, BinaryAssertFails, BinaryFail, At
<1>2. /\ Top \in Frame /\ Top.node \in Node /\ TopAst = Ast[Top.node] /\ Arity(Top.node) = 2
      /\ fn.cur \in Int
  <2>1. Top \in Frame /\ Top.node \in Node /\ TopAst = Ast[Top.node] /\ FnOK(fn)
    BY AtTop
  <2> QED
    BY <1>1, <2>1, NodeShape DEF FnOK, FnRecord
<1>3. 1 \in 1..2 /\ 2 \in 1..2
  OBVIOUS
<1>4. ~Return(Null)
  BY NullReturned
<1>5. CASE AssignEnter
  <2> DEFINE f == [Top EXCEPT !.vals = <<Const>>]
  <2>1. Descend(f, 2) /\ UNCHANGED NamedValues
    BY <1>5 DEF AssignEnter
  <2>2. f \in Frame /\ f.node = Top.node /\ f.old = Top.old
    BY <1>2, AssignFrame
  <2> HIDE DEF f
  <2> QED
    BY <1>1, <1>2, <1>3, <2>1, <2>2, PlainDescendScope
<1>6. CASE AssignStore
  <2>1. Latest \in Int
    BY <1>6, LatestInt DEF AssignStore, At
  <2> QED
    BY <1>1, <1>6, <2>1, PlainReturnScope DEF AssignStore
<1>7. CASE BinaryLHS \/ BinaryRHS
  BY <1>1, <1>2, <1>3, <1>7, PlainCallScope DEF BinaryLHS, BinaryRHS
<1>8. CASE BinaryBuiltin \/ BinaryUser
  BY <1>1, <1>2, <1>8, PlainReturnScope DEF BinaryBuiltin, BinaryUser
<1>9. CASE AssignUndefined \/ BinaryAssertFails
  <2>1. UNCHANGED <<stack, NamedValues>>
    BY <1>9 DEF AssignUndefined, BinaryAssertFails
  <2> QED
    BY <2>1 DEF InScope, Saved, Generating, Depth, Top
<1> QED
  BY <1>4, <1>5, <1>6, <1>7, <1>8, <1>9 DEF Binary, AssignUnknown, BinaryFail

\* What a variable is resolved to is what the scope says.
LEMMA LexicalStays ==
  ASSUME GenInv, InScope, Lexical, Step
  PROVE  Lexical'
<1>1. fn \in FnRecord
  BY DEF GenInv, TypeOK
<1>2. CASE fn'.slots = fn.slots
  BY <1>2 DEF Lexical
<1>3. ASSUME NEW n, fn'.slots = fn.slots \cup {<<n, NamedValues[Ast[n].name]>>},
             NamedValues = LexEnv[n]
      PROVE  Lexical'
  <2>1. ASSUME NEW use \in fn'.slots PROVE use[2] = LexEnv[use[1]][Ast[use[1]].name]
    <3>1. CASE use \in fn.slots
      BY <3>1 DEF Lexical
    <3>2. CASE use = <<n, NamedValues[Ast[n].name]>>
      BY <1>3, <3>2
    <3> QED
      BY <1>3, <3>1, <3>2
  <2> QED
    BY <2>1 DEF Lexical
<1>4. ASSUME Generating, TopAst.kind \notin {"for", "varin"}
      PROVE  NamedValues = LexEnv[Top.node] /\ Top.node \in Node /\ TopAst = Ast[Top.node]
             /\ Len(Top.old) = 0
  <2>1. Len(Top.old) = 0 /\ Top.node \in Node /\ TopAst = Ast[Top.node]
    BY <1>4, NothingBound, AtTop
  <2> QED
    BY <1>4, <2>1, ScopeZero DEF InScope
<1>5. CASE VariableLoad
  <2>1. Generating /\ TopAst.kind = "var" /\ fn' = Resolve(fn, Top.node, NamedValues[TopAst.name])
    BY <1>5 DEF VariableLoad, At, Generating
  <2>2. fn'.slots = fn.slots \cup {<<Top.node, NamedValues[TopAst.name]>>}
    BY <1>1, <2>1 DEF Resolve, FnRecord
  <2> QED
    BY <1>3, <1>4, <2>1, <2>2
<1>6. CASE AssignStore
  <2> DEFINE g == Resolve(fn, Lhs, NamedValues[CastName(Lhs)])
  <2>1. Generating /\ TopAst.kind = "binary" /\ fn' = Use(g, {Latest})
    BY <1>6 DEF AssignStore, At, Generating
  <2>2. g.slots = fn.slots \cup {<<Lhs, NamedValues[CastName(Lhs)]>>}
    BY <1>1 DEF Resolve, FnRecord
  <2>3. fn'.slots = g.slots
    <3>1. "slots" \in DOMAIN g
      BY <1>1 DEF Resolve, FnRecord
    <3> HIDE DEF g
    <3> QED
      BY <2>1, <3>1 DEF Use
  <2>4. LexEnv[Lhs] = LexEnv[Top.node]
    <3>1. Top.node \in Node /\ TopAst = Ast[Top.node] /\ TopAst.kind = "binary"
      BY <1>4, <2>1
    <3>2. 1 \in 1..Arity(Top.node) /\ Ast[Top.node].kids[1] # NoNode /\ BoundFor(Top.node, 1) = 0
      <4>1. Arity(Top.node) = 2
        BY <3>1, NodeShape
      <4>2. 1 \in 1..Arity(Top.node)
        BY <4>1
      <4> QED
        BY <3>1, <4>2, KidIsNode DEF BoundFor
    <3>3. LexEnv[Ast[Top.node].kids[1]] = Scope(Top.node, 0)
      BY <3>1, <3>2, KidScope
    <3> QED
      BY <3>1, <3>3, ScopeZero DEF Lhs
  <2> QED
    BY <1>3, <1>4, <2>1, <2>2, <2>3, <2>4 DEF CastName
<1> QED
  BY <1>1, <1>2, <1>5, <1>6, StepKeepsHeader

-----------------------------------------------------------------------------
(* The invariant. *)

ScopeInv == ~Failed /\ OwnParameters => InScope /\ Lexical

\* A function has just been entered.
LEMMA ScopeAtEntry ==
  ASSUME NEW r \in Root, NEW f \in Fn, NEW args \in Seq(Var),
         stack = <<NewFrame(r)>>, NamedValues = ParamScope(r, args),
         fn = NewFunction(f, r, args)
  PROVE  ScopeInv
<1>1. SUFFICES ASSUME OwnParameters PROVE InScope /\ Lexical
  BY DEF ScopeInv
<1>2. r \in Node
  BY AstAssumption
<1>3. fn.body = r /\ fn.args = args /\ fn.slots = {}
  BY <1>2, NewFunctionOK
<1>4. NamedValues = LexEnv[r]
  BY <1>1, <1>3, LexEnvAssumption DEF OwnParameters
<1> DEFINE fr == NewFrame(r)
<1>5. fr.node = r /\ Len(fr.old) = 0 /\ Len(<<fr>>) = 1 /\ <<fr>>[1] = fr
  BY DEF NewFrame
<1>6. stack = <<fr>>
  OBVIOUS
<1> HIDE DEF fr
<1>7. Depth = 1 /\ Top = fr /\ stack[1] = fr
  BY <1>5, <1>6 DEF Depth, Top
<1>8. Generating => NamedValues = Scope(Top.node, Len(Top.old))
  <2>1. NamedValues = Scope(r, 0)
    BY <1>2, <1>4, ScopeZero
  <2> QED
    BY <1>5, <1>7, <2>1
<1>9. ASSUME NEW j \in 1..Depth PROVE Saved(stack[j])
  <2>1. j = 1
    BY <1>7
  <2> QED
    BY <1>5, <1>7, <2>1 DEF Saved
<1> QED
  BY <1>3, <1>8, <1>9 DEF InScope, Lexical, Saved

Entered == \E r \in Root, f \in Fn, args \in Seq(Var) :
  stack = <<NewFrame(r)>> /\ NamedValues = ParamScope(r, args) /\ fn = NewFunction(f, r, args)

\* The same, of some function.
LEMMA ScopeEntered == Entered => ScopeInv
BY ScopeAtEntry DEF Entered

\* A step of the generator.
LEMMA ScopeKeeps ==
  ASSUME NamesDistinct, GenInv, ScopeInv, Step
  PROVE  ScopeInv'
<1>1. SUFFICES ASSUME ~Failed', OwnParameters' PROVE InScope' /\ Lexical'
  BY DEF ScopeInv
<1>2. InScope /\ Lexical
  <2>1. ~Failed
    BY <1>1, FailedStays
  <2>2. OwnParameters
    <3>1. fn'.body = fn.body /\ fn'.args = fn.args
      BY StepKeepsHeader DEF GenInv, TypeOK
    <3> QED
      BY <1>1, <3>1 DEF OwnParameters
  <2> QED
    BY <2>1, <2>2 DEF ScopeInv
<1>3. InScope'
  <2>1. CASE ~Generating
    <3>1. UNCHANGED <<stack, NamedValues>>
      BY <2>1, OutsideStep DEF ReturnBody
    <3> QED
      BY <1>2, <3>1 DEF InScope, Saved, Generating, Depth, Top
  <2>2. CASE Generating
    <3>1. ~ReturnBody
      BY <2>2 DEF ReturnBody
    <3> QED
      BY <1>1, <1>2, <2>2, <3>1, LeafScope, BinaryScope, IfScope, ForScope, VarInScope DEF Step
  <2> QED
    BY <2>1, <2>2
<1> QED
  BY <1>2, <1>3, LexicalStays

\* Nothing changes the scope while the generator's state stays.
LEMMA ScopeIdle ==
  ASSUME ScopeInv, UNCHANGED <<stack, result, NamedValues, fn>>
  PROVE  ScopeInv'
BY DEF ScopeInv, Failed, OwnParameters, InScope, Lexical, Saved, Generating, Depth, Top

\* What the invariant is for.
LEMMA ScopeHolds ==
  ASSUME ScopeInv
  PROVE  ScopeRestored /\ ResolvesLexically
BY DEF ScopeInv, InScope, Lexical, ScopeRestored, ResolvesLexically
-----------------------------------------------------------------------------
(***************************************************************************)
(* What one step preserves of the control flow graph: why, when            *)
(* FunctionAST::codegen() comes to the end of a body, every block is       *)
(* placed, terminated and reachable, every PHI lists its predecessors, and *)
(* every definition dominates its uses.                                    *)
(***************************************************************************)

(***************************************************************************)
(* Control flow graphs as the generator grows them: blocks 1..N, entered   *)
(* at block Entry, with the successors s[b] of every block b.  Dominance   *)
(* is stated by a set of blocks that control cannot leave without passing  *)
(* through a, which says the same as the walk Reachable(a) and is what     *)
(* survives when the graph grows.                                          *)
(***************************************************************************)
Graph(N, s) == N \in Nat /\ s \in [1..N -> SUBSET (1..N)]

\* S holds everything that can be reached without passing through a.
Avoids(s, a, S) == {Entry} \ {a} \subseteq S /\ \A x \in S : s[x] \ {a} \subseteq S

Dom(N, s, a, b) == \E S \in SUBSET (1..N) : a \notin S /\ b \notin S /\ Avoids(s, a, S)

\* b is in every set that holds everything reachable (0 is no block).
Reached(N, s, b) == \A S \in SUBSET (1..N) : Avoids(s, 0, S) => b \in S

\* The graph grows by blocks without successors and by the edges out of c,
\* which had none.
Grows(N, s, M, t, c) ==
  /\ Graph(N, s) /\ Graph(M, t) /\ N <= M
  /\ c \in 1..N /\ s[c] = {}
  /\ \A x \in 1..N : x # c => t[x] = s[x]
  /\ \A x \in (N + 1)..M : t[x] = {}

\* Every block dominates itself.
LEMMA DomSelf ==
  ASSUME NEW N, NEW s, Graph(N, s), NEW a \in 1..N
  PROVE  Dom(N, s, a, a)
<1> DEFINE S == (1..N) \ {a}
<1>1. CASE Entry \in 1..N
  <2>1. Avoids(s, a, S)
    BY <1>1 DEF Avoids, Graph
  <2> QED
    BY <2>1 DEF Dom
<1>2. CASE Entry \notin 1..N
  BY <1>2 DEF Entry, Graph
<1> QED
  BY <1>1, <1>2

\* Dominance between old blocks survives new edges into blocks from which
\* nothing leads on.
LEMMA DomStays ==
  ASSUME NEW N, NEW s, NEW M, NEW t, NEW c, Grows(N, s, M, t, c),
         NEW a, NEW b \in 1..N, Dom(N, s, a, b),
         \A x \in t[c] : t[x] = {} /\ x # b
  PROVE  Dom(M, t, a, b)
<1>1. PICK S \in SUBSET (1..N) : a \notin S /\ b \notin S /\ Avoids(s, a, S)
  BY DEF Dom
<1> DEFINE W == S \cup (t[c] \ {a})
<1>2. N \in Nat /\ M \in Nat /\ N <= M /\ c \in 1..N /\ t[c] \subseteq 1..M
  BY DEF Grows, Graph
<1>3. W \in SUBSET (1..M) /\ a \notin W /\ b \notin W
  <2>1. 1..N \subseteq 1..M
    BY <1>2
  <2> QED
    BY <1>1, <1>2, <2>1
<1>4. ASSUME NEW x \in W PROVE t[x] \ {a} \subseteq W
  <2>1. CASE x \in S /\ x # c
    BY <2>1, <1>1 DEF Grows, Avoids
  <2>2. CASE x = c
    BY <2>2
  <2>3. CASE x \in t[c]
    BY <2>3
  <2> QED
    BY <2>1, <2>2, <2>3
<1>5. Avoids(t, a, W)
  BY <1>1, <1>4 DEF Avoids
<1> QED
  BY <1>3, <1>5 DEF Dom

\* It also survives an edge back to a block that dominates the end of which
\* the edge leaves.
LEMMA DomLoop ==
  ASSUME NEW N, NEW s, NEW M, NEW t, NEW c, Grows(N, s, M, t, c),
         NEW a \in 1..N, NEW b \in 1..N, Dom(N, s, a, b),
         NEW l \in 1..N, Dom(N, s, l, c),
         \A x \in t[c] : x = l \/ x \in (N + 1)..M
  PROVE  Dom(M, t, a, b)
<1>1. PICK S \in SUBSET (1..N) : a \notin S /\ b \notin S /\ Avoids(s, a, S)
  BY DEF Dom
<1>2. PICK L \in SUBSET (1..N) : l \notin L /\ c \notin L /\ Avoids(s, l, L)
  BY DEF Dom
<1> DEFINE new == t[c] \cap ((N + 1)..M)
<1>3. /\ N \in Nat /\ M \in Nat /\ N <= M /\ c \in 1..N /\ t[c] \subseteq 1..M
      /\ \A x \in 1..N : x # c => t[x] = s[x]
      /\ \A x \in new : t[x] = {}
  BY DEF Grows, Graph
<1>4. new \subseteq 1..M /\ new \cap (1..N) = {}
  BY <1>3
<1>5. CASE l \in S \/ l = a
  <2> DEFINE W == S \cup new
  <2>1. W \in SUBSET (1..M) /\ a \notin W /\ b \notin W
    <3>1. 1..N \subseteq 1..M
      BY <1>3
    <3> HIDE DEF new
    <3> QED
      BY <1>1, <1>4, <3>1
  <2>2. ASSUME NEW x \in W PROVE t[x] \ {a} \subseteq W
    <3>1. CASE x \in S /\ x # c
      BY <3>1, <1>1, <1>3 DEF Avoids
    <3>2. CASE x = c
      BY <3>2, <1>5
    <3>3. CASE x \in new
      BY <3>3, <1>3
    <3> QED
      BY <3>1, <3>2, <3>3
  <2>3. Avoids(t, a, W)
    BY <1>1, <2>2 DEF Avoids
  <2> QED
    BY <2>1, <2>3 DEF Dom
<1>6. CASE l \notin S
  <2> DEFINE W == S \cap L
  <2>1. W \in SUBSET (1..M) /\ a \notin W /\ b \notin W
    BY <1>1, <1>3
  <2>2. ASSUME NEW x \in W PROVE t[x] \ {a} \subseteq W
    <3>1. x # c /\ x \in 1..N
      BY <1>2
    <3>2. s[x] \ {a} \subseteq S /\ s[x] \ {l} \subseteq L
      BY <1>1, <1>2 DEF Avoids
    <3> QED
      BY <1>3, <1>6, <3>1, <3>2
  <2>3. {Entry} \ {a} \subseteq W
    BY <1>1, <1>2, <1>6 DEF Avoids
  <2>4. Avoids(t, a, W)
    BY <2>2, <2>3 DEF Avoids
  <2> QED
    BY <2>1, <2>4 DEF Dom
<1> QED
  BY <1>5, <1>6

\* What dominates the end that grows dominates the new block behind it.
LEMMA DomNext ==
  ASSUME NEW N, NEW s, NEW M, NEW t, NEW c, Grows(N, s, M, t, c),
         NEW a, Dom(N, s, a, c), NEW n \in (N + 1)..M
  PROVE  Dom(M, t, a, n)
<1>1. PICK S \in SUBSET (1..N) : a \notin S /\ c \notin S /\ Avoids(s, a, S)
  BY DEF Dom
<1>2. N \in Nat /\ M \in Nat /\ N <= M
  BY DEF Grows, Graph
<1>3. S \in SUBSET (1..M) /\ n \notin S
  BY <1>1, <1>2
<1>4. Avoids(t, a, S)
  BY <1>1 DEF Avoids, Grows
<1> QED
  BY <1>1, <1>3, <1>4 DEF Dom

\* What dominates both ends that lead into a block dominates the block.
LEMMA DomJoin ==
  ASSUME NEW N, NEW s, NEW M, NEW t, NEW c, Grows(N, s, M, t, c),
         NEW m \in 1..N, m # Entry, t[c] = {m},
         NEW e, \A x \in 1..N : m \in s[x] => x = e,
         NEW a, a # m, Dom(N, s, a, e), Dom(N, s, a, c)
  PROVE  Dom(M, t, a, m)
<1>1. PICK S \in SUBSET (1..N) : a \notin S /\ e \notin S /\ Avoids(s, a, S)
  BY DEF Dom
<1>2. PICK C \in SUBSET (1..N) : a \notin C /\ c \notin C /\ Avoids(s, a, C)
  BY DEF Dom
<1> DEFINE W == (S \cap C) \ {m}
<1>3. N \in Nat /\ M \in Nat /\ N <= M
  BY DEF Grows, Graph
<1>4. W \in SUBSET (1..M) /\ a \notin W /\ m \notin W
  BY <1>1, <1>2, <1>3
<1>5. ASSUME NEW x \in W PROVE t[x] \ {a} \subseteq W
  <2>1. x \in 1..N /\ x # c /\ x # e
    BY <1>1, <1>2
  <2>2. t[x] = s[x] /\ m \notin s[x]
    BY <2>1 DEF Grows
  <2>3. s[x] \ {a} \subseteq S \cap C
    BY <1>1, <1>2 DEF Avoids
  <2> QED
    BY <2>2, <2>3
<1>6. {Entry} \ {a} \subseteq W
  BY <1>1, <1>2 DEF Avoids
<1>7. Avoids(t, a, W)
  BY <1>5, <1>6 DEF Avoids
<1> QED
  BY <1>4, <1>7 DEF Dom

\* What can be reached stays so when the graph grows,
LEMMA ReachedStays ==
  ASSUME NEW N, NEW s, NEW M, NEW t, NEW c, Grows(N, s, M, t, c),
         NEW b, Reached(N, s, b)
  PROVE  Reached(M, t, b)
<1>1. SUFFICES ASSUME NEW S \in SUBSET (1..M), Avoids(t, 0, S) PROVE b \in S
  BY DEF Reached
<1> DEFINE W == S \cap (1..N)
<1>2. N \in Nat /\ M \in Nat /\ N <= M /\ c \in 1..N /\ s[c] = {}
  BY DEF Grows, Graph
<1>3. ASSUME NEW x \in W PROVE s[x] \ {0} \subseteq W
  <2>1. CASE x = c
    BY <2>1, <1>2
  <2>2. CASE x # c
    <3>1. t[x] = s[x] /\ s[x] \subseteq 1..N
      BY <2>2 DEF Grows, Graph
    <3> QED
      BY <1>1, <3>1 DEF Avoids
  <2> QED
    BY <2>1, <2>2
<1>4. Entry \in 1..N
  BY <1>2 DEF Entry
<1>5. Avoids(s, 0, W)
  BY <1>1, <1>3, <1>4 DEF Avoids
<1> QED
  BY <1>5 DEF Reached

\* and so can the blocks that the end leads to.
LEMMA ReachedNext ==
  ASSUME NEW N, NEW s, NEW M, NEW t, NEW c, Grows(N, s, M, t, c),
         Reached(N, s, c), NEW n \in t[c]
  PROVE  Reached(M, t, n)
<1>1. SUFFICES ASSUME NEW S \in SUBSET (1..M), Avoids(t, 0, S) PROVE n \in S
  BY DEF Reached
<1>2. c \in S
  BY <1>1, ReachedStays DEF Reached
<1>3. n # 0
  BY DEF Grows, Graph
<1> QED
  BY <1>1, <1>2, <1>3 DEF Avoids
-----------------------------------------------------------------------------
(***************************************************************************)
(* The walk of Reachable: layer k holds what can be reached in k steps.    *)
(***************************************************************************)
Expand(s, a, B) == B \cup ((UNION {s[b] : b \in B}) \ {a})
Layer(N, s, a, R, k) == IF k = 0 THEN {Entry} \ {a} ELSE Expand(s, a, R[k - 1])
Layers(N, s, a, R) == R = [k \in 0..N |-> Layer(N, s, a, R, k)]

\* A set that avoids a is closed under the steps of the walk, and conversely.
LEMMA ExpandStays ==
  ASSUME NEW s, NEW a, NEW B
  PROVE  /\ \A S : B \subseteq S /\ (\A b \in B : s[b] \ {a} \subseteq S) => Expand(s, a, B) \subseteq S
         /\ \A b \in B : s[b] \ {a} \subseteq Expand(s, a, B)
<1> DEFINE U == UNION {s[b] : b \in B}
<1> DEFINE V == {s[b] : b \in B}
<1>1. \A x : x \in U <=> \E b \in B : x \in s[b]
  <2>1. \A y : y \in V <=> \E b \in B : y = s[b]
    OBVIOUS
  <2>2. U = UNION V
    OBVIOUS
  <2> HIDE DEF U, V
  <2>3. \A x : x \in U <=> \E y \in V : x \in y
    BY <2>2
  <2> QED
    BY <2>1, <2>3
<1>2. Expand(s, a, B) = B \cup (U \ {a})
  BY DEF Expand
<1> HIDE DEF U
<1>3. ASSUME NEW S, B \subseteq S, \A b \in B : s[b] \ {a} \subseteq S
      PROVE  Expand(s, a, B) \subseteq S
  <2>1. ASSUME NEW x \in U, x # a PROVE x \in S
    <3>1. PICK b \in B : x \in s[b]
      BY <1>1
    <3> QED
      BY <1>3, <2>1, <3>1
  <2> QED
    BY <1>2, <1>3, <2>1
<1>4. \A b \in B : s[b] \ {a} \subseteq Expand(s, a, B)
  BY <1>1, <1>2
<1> QED
  BY <1>3, <1>4

\* A set of naturals that is not empty has a least member.
LEMMA LeastOf ==
  ASSUME NEW T, T \subseteq Nat, T # {}
  PROVE  \E x \in T : \A y \in T : ~(y < x)
<1>1. \E x \in T : \A y \in T : ~(<<y, x>> \in OpToRel(<, Nat))
  BY NatLessThanWellFounded, WFMin
<1> QED
  BY <1>1 DEF OpToRel

\* There are such layers: the recursion in Reachable defines a function.
LEMMA LayersExist ==
  ASSUME NEW N \in Nat, NEW s, NEW a
  PROVE  \E R : Layers(N, s, a, R)
<1> DEFINE UpTo(R, m) == \A k \in 0..m : R[k] = Layer(N, s, a, R, k)
           Fun(R) == R = [k \in 0..N |-> R[k]]
           Bad == {m \in 0..N : ~ \E R : Fun(R) /\ UpTo(R, m)}
<1>1. ASSUME Bad # {} PROVE FALSE
  <2>1. Bad \subseteq Nat
    OBVIOUS
  <2>2. PICK m \in Bad : \A y \in Bad : ~(y < m)
    BY <1>1, <2>1, LeastOf
  <2>3. m \in 0..N /\ ~ \E R : Fun(R) /\ UpTo(R, m)
    BY <2>2
  <2>4. CASE m = 0
    <3> DEFINE R == [k \in 0..N |-> {Entry} \ {a}]
    <3>1. Fun(R) /\ UpTo(R, 0)
      BY DEF Layer
    <3> QED
      BY <2>3, <2>4, <3>1
  <2>5. CASE m # 0
    <3>1. m - 1 \in 0..N /\ m - 1 < m /\ m \in Nat
      BY <2>3, <2>5
    <3>2. m - 1 \notin Bad
      BY <2>2, <3>1
    <3>3. PICK R : Fun(R) /\ UpTo(R, m - 1)
      BY <3>1, <3>2
    <3> DEFINE Q == [R EXCEPT ![m] = Layer(N, s, a, R, m)]
    <3>4. DOMAIN R = 0..N
      BY <3>3
    <3>5. Q[m] = Layer(N, s, a, R, m) /\ \A k \in 0..N : k # m => Q[k] = R[k]
      BY <3>4, <2>3
    <3>6. Fun(Q)
      BY <3>4
    <3> HIDE DEF Q
    <3>7. ASSUME NEW k \in 0..m PROVE Q[k] = Layer(N, s, a, Q, k)
      <4>1. k \in 0..N /\ (k # 0 => k - 1 \in 0..N /\ k - 1 # m)
        BY <2>3, <3>1
      <4>2. Layer(N, s, a, Q, k) = Layer(N, s, a, R, k)
        BY <3>5, <4>1 DEF Layer
      <4>3. CASE k = m
        BY <3>5, <4>2, <4>3
      <4>4. CASE k # m
        <5>1. k \in 0..(m - 1)
          BY <3>1, <4>4
        <5> QED
          BY <3>3, <3>5, <4>1, <4>2, <4>4, <5>1
      <4> QED
        BY <4>3, <4>4
    <3> QED
      BY <2>3, <3>6, <3>7
  <2> QED
    BY <2>4, <2>5
<1>2. PICK R : Fun(R) /\ UpTo(R, N)
  <2>1. N \in 0..N
    OBVIOUS
  <2> HIDE DEF Fun, UpTo
  <2> QED
    BY <1>1, <2>1
<1>3. [k \in 0..N |-> R[k]] = [k \in 0..N |-> Layer(N, s, a, R, k)]
  BY <1>2
<1> QED
  BY <1>2, <1>3 DEF Layers

\* The walk stays within every set that avoids a.
LEMMA LayersWithin ==
  ASSUME NEW N \in Nat, NEW s, NEW a, NEW R, Layers(N, s, a, R),
         NEW S, Avoids(s, a, S)
  PROVE  R[N] \subseteq S
<1> DEFINE Bad == {k \in 0..N : ~ (R[k] \subseteq S)}
<1>1. \A k \in 0..N : R[k] = Layer(N, s, a, R, k)
  BY DEF Layers
<1>2. ASSUME Bad # {} PROVE FALSE
  <2>1. Bad \subseteq Nat
    OBVIOUS
  <2>2. PICK m \in Bad : \A y \in Bad : ~(y < m)
    BY <1>2, <2>1, LeastOf
  <2>3. m \in 0..N /\ ~ (R[m] \subseteq S)
    BY <2>2
  <2>4. CASE m = 0
    BY <1>1, <2>3, <2>4 DEF Layer, Avoids
  <2>5. CASE m # 0
    <3>1. m - 1 \in 0..N /\ m - 1 < m
      BY <2>3, <2>5
    <3>2. R[m - 1] \subseteq S
      BY <2>2, <3>1
    <3>3. R[m] = Expand(s, a, R[m - 1])
      BY <1>1, <2>3, <2>5 DEF Layer
    <3>4. \A b \in R[m - 1] : s[b] \ {a} \subseteq S
      BY <3>2 DEF Avoids
    <3> QED
      BY <2>3, <3>2, <3>3, <3>4, ExpandStays
  <2> QED
    BY <2>4, <2>5
<1> QED
  BY <1>2

\* The walk stays in the graph, and the entry in the walk.
LEMMA LayersGrow ==
  ASSUME NEW N, NEW s, Graph(N, s), N # 0, NEW a, NEW R, Layers(N, s, a, R)
  PROVE  \A k \in 0..N : R[k] \subseteq 1..N /\ {Entry} \ {a} \subseteq R[k]
<1> DEFINE Bad == {k \in 0..N : ~ (R[k] \subseteq 1..N /\ {Entry} \ {a} \subseteq R[k])}
<1>1. N \in Nat /\ \A k \in 0..N : R[k] = Layer(N, s, a, R, k)
  BY DEF Layers, Graph
<1>2. ASSUME Bad # {} PROVE FALSE
  <2>1. Bad \subseteq Nat
    BY <1>1
  <2>2. PICK m \in Bad : \A y \in Bad : ~(y < m)
    BY <1>2, <2>1, LeastOf
  <2>3. m \in 0..N /\ ~ (R[m] \subseteq 1..N /\ {Entry} \ {a} \subseteq R[m])
    BY <2>2
  <2>4. CASE m = 0
    <3>1. Entry \in 1..N
      BY <1>1 DEF Entry
    <3> QED
      BY <1>1, <2>3, <2>4, <3>1 DEF Layer
  <2>5. CASE m # 0
    <3>1. m - 1 \in 0..N /\ m - 1 < m
      BY <1>1, <2>3, <2>5
    <3>2. R[m - 1] \subseteq 1..N /\ {Entry} \ {a} \subseteq R[m - 1]
      BY <2>2, <3>1
    <3>3. R[m] = Expand(s, a, R[m - 1])
      BY <1>1, <2>3, <2>5 DEF Layer
    <3>4. \A b \in R[m - 1] : s[b] \subseteq 1..N
      BY <3>2 DEF Graph
    <3> QED
      BY <2>3, <3>2, <3>3, <3>4 DEF Expand
  <2> QED
    BY <2>4, <2>5
<1> QED
  BY <1>2

\* A layer that is not closed has one more block than the steps before it;
\* there are only N blocks, so N steps reach everything.
LEMMA LayersReach ==
  ASSUME NEW N, NEW s, Graph(N, s), N # 0, NEW R, Layers(N, s, 0, R)
  PROVE  Avoids(s, 0, R[N])
<1> DEFINE Shut(k) == Expand(s, 0, R[k]) = R[k]
<1>1. N \in Nat /\ \A k \in 0..N : R[k] \subseteq 1..N /\ Entry \in R[k]
  BY LayersGrow DEF Graph, Entry
<1>2. \A k \in 0..N : k # 0 => R[k] = Expand(s, 0, R[k - 1])
  BY DEF Layers, Layer
<1>3. IsFiniteSet(1..N) /\ Cardinality(1..N) = N
  BY <1>1, FS_Interval
<1>4. \A k \in 0..N : IsFiniteSet(R[k]) /\ Cardinality(R[k]) \in Nat
  <2> TAKE k \in 0..N
  <2>1. R[k] \in SUBSET (1..N)
    BY <1>1
  <2>2. IsFiniteSet(R[k])
    BY <1>3, <2>1, FS_Subset
  <2> QED
    BY <2>2, FS_CardinalityType
<1>5. SUFFICES ASSUME ~Shut(N) PROVE FALSE
  <2>1. ASSUME Shut(N) PROVE \A b \in R[N] : s[b] \ {0} \subseteq R[N]
    BY <2>1, ExpandStays
  <2>2. Entry \in R[N]
    BY <1>1
  <2> QED
    BY <2>1, <2>2 DEF Avoids
<1>6. \A k \in 0..N : ~Shut(k)
  <2> DEFINE Bad == {n \in 0..N : Shut(N - n)}
  <2>1. ASSUME NEW k \in 0..N, k # N, Shut(k) PROVE Shut(k + 1)
    <3>1. k + 1 \in 0..N /\ k + 1 # 0 /\ (k + 1) - 1 = k
      BY <1>1, <2>1
    <3>2. R[k + 1] = Expand(s, 0, R[k])
      BY <1>2, <3>1
    <3> QED
      BY <2>1, <3>2
  <2> HIDE DEF Shut
  <2>2. ASSUME Bad # {} PROVE FALSE
    <3>1. Bad \subseteq Nat
      BY <1>1
    <3>2. PICK m \in Bad : \A y \in Bad : ~(y < m)
      BY <2>2, <3>1, LeastOf
    <3>3. m \in 0..N /\ Shut(N - m)
      BY <3>2
    <3>4. m # 0
      BY <1>1, <1>5, <3>3
    <3>5. N - m \in 0..N /\ N - m # N /\ m - 1 \in 0..N /\ m - 1 < m /\ (N - m) + 1 = N - (m - 1)
      BY <1>1, <3>3, <3>4
    <3>6. Shut(N - (m - 1))
      BY <2>1, <3>3, <3>5
    <3> QED
      BY <3>2, <3>5, <3>6
  <2>3. \A k \in 0..N : N - k \in 0..N /\ N - (N - k) = k
    BY <1>1
  <2> QED
    BY <2>2, <2>3
<1>7. \A k \in 0..N : Cardinality(R[k]) > k
  <2> DEFINE Bad == {k \in 0..N : ~(Cardinality(R[k]) > k)}
  <2>1. ASSUME Bad # {} PROVE FALSE
    <3>1. Bad \subseteq Nat
      BY <1>1
    <3>2. PICK m \in Bad : \A y \in Bad : ~(y < m)
      BY <2>1, <3>1, LeastOf
    <3>3. m \in 0..N /\ ~(Cardinality(R[m]) > m)
      BY <3>2
    <3>4. CASE m = 0
      <4>1. R[0] # {} /\ 0 \in 0..N
        BY <1>1
      <4>2. Cardinality(R[0]) # 0
        BY <1>4, <4>1, FS_EmptySet
      <4> QED
        BY <1>4, <3>3, <3>4, <4>1, <4>2
    <3>5. CASE m # 0
      <4>1. m - 1 \in 0..N /\ m - 1 < m
        BY <1>1, <3>3, <3>5
      <4>2. Cardinality(R[m - 1]) > m - 1
        BY <3>2, <4>1
      <4>3. R[m] = Expand(s, 0, R[m - 1])
        BY <1>2, <3>3, <3>5
      <4>4. R[m - 1] \subseteq R[m] /\ R[m - 1] # R[m]
        BY <1>6, <4>1, <4>3 DEF Expand
      <4>5. Cardinality(R[m - 1]) <= Cardinality(R[m]) /\ Cardinality(R[m]) # Cardinality(R[m - 1])
        BY <1>4, <3>3, <4>4, FS_Subset
      <4> QED
        BY <1>1, <1>4, <3>3, <4>1, <4>2, <4>5
    <3> QED
      BY <3>4, <3>5
  <2> QED
    BY <2>1
<1>8. N \in 0..N /\ Cardinality(R[N]) <= N
  BY <1>1, <1>3, FS_Subset
<1> QED
  BY <1>1, <1>4, <1>7, <1>8

-----------------------------------------------------------------------------
(***************************************************************************)
(* The graph of a function under construction, and the two verdicts that   *)
(* ExprCodegen states with Reachable.                                      *)
(***************************************************************************)
Size(g) == Len(g.blocks)
Succ(g) == [b \in 1..Len(g.blocks) |-> UNION {g.blocks[b].term[i] : i \in 1..Len(g.blocks[b].term)}]

\* Reachable is the last layer of the walk.
LEMMA ReachableIsLastLayer ==
  ASSUME Graph(Size(fn), Succ(fn)), Size(fn) # 0, NEW a
  PROVE  \E R : Layers(Size(fn), Succ(fn), a, R) /\ Reachable(a) = R[Size(fn)]
<1> DEFINE N == Size(fn)
           s == Succ(fn)
           P(h) == h = [k \in 0..Len(fn.blocks) |->
                          IF k = 0 THEN {Entry} \ {a}
                          ELSE LET before == h[k - 1]
                               IN  before \cup ((UNION {Succs(b) : b \in before}) \ {a})]
           C == CHOOSE h : P(h)
<1>1. N \in Nat /\ N = Len(fn.blocks) /\ \A b \in 1..N : s[b] = Succs(b)
  BY DEF Graph, Succ, Succs, Size
<1>2. Reachable(a) = C[N]
  BY DEF Reachable, Size
<1>3. PICK R : Layers(N, s, a, R)
  BY <1>1, LayersExist
<1>4. \A k \in 0..N : R[k] \subseteq 1..N
  BY <1>3, LayersGrow
<1>5. ASSUME NEW B, B \subseteq 1..N
      PROVE  B \cup ((UNION {Succs(b) : b \in B}) \ {a}) = Expand(s, a, B)
  <2>1. {Succs(b) : b \in B} = {s[b] : b \in B}
    BY <1>1, <1>5
  <2> QED
    BY <2>1 DEF Expand
<1> DEFINE Step1(h, k) == IF k = 0 THEN {Entry} \ {a}
                          ELSE h[k - 1] \cup ((UNION {Succs(b) : b \in h[k - 1]}) \ {a})
<1>6. \A h : P(h) <=> h = [k \in 0..N |-> Step1(h, k)]
  BY <1>1
<1>7. R = [k \in 0..N |-> Layer(N, s, a, R, k)]
  BY <1>3 DEF Layers
<1>8. ASSUME NEW k \in 0..N PROVE Step1(R, k) = Layer(N, s, a, R, k)
  <2>1. CASE k = 0
    BY <2>1 DEF Layer
  <2>2. CASE k # 0
    <3>1. R[k - 1] \subseteq 1..N
      BY <1>1, <1>4, <2>2
    <3> QED
      BY <1>5, <2>2, <3>1 DEF Layer
  <2> QED
    BY <2>1, <2>2
<1> HIDE DEF P, Step1
<1>9. P(R)
  <2>1. [k \in 0..N |-> Step1(R, k)] = [k \in 0..N |-> Layer(N, s, a, R, k)]
    BY <1>8
  <2> QED
    BY <1>6, <1>7, <2>1
<1>10. P(C)
  BY <1>9, Zenon
<1>11. \A k \in 0..N : C[k] = Step1(C, k) /\ R[k] = Step1(R, k)
  <2>1. C = [k \in 0..N |-> Step1(C, k)] /\ R = [k \in 0..N |-> Step1(R, k)]
    BY <1>6, <1>9, <1>10
  <2> HIDE DEF C
  <2> QED
    BY <2>1
<1> HIDE DEF C
<1>12. \A k \in 0..N : C[k] = R[k]
  <2> DEFINE Bad == {k \in 0..N : C[k] # R[k]}
  <2>1. ASSUME Bad # {} PROVE FALSE
    <3>1. Bad \subseteq Nat
      BY <1>1
    <3>2. PICK m \in Bad : \A y \in Bad : ~(y < m)
      BY <2>1, <3>1, LeastOf
    <3>3. m \in 0..N /\ C[m] # R[m]
      BY <3>2
    <3>4. CASE m = 0
      BY <1>11, <3>3, <3>4 DEF Step1
    <3>5. CASE m # 0
      <4>1. m - 1 \in 0..N /\ m - 1 < m
        BY <1>1, <3>3, <3>5
      <4>2. C[m - 1] = R[m - 1]
        BY <3>2, <4>1
      <4>3. Step1(C, m) = Step1(R, m)
        BY <4>2, <3>5 DEF Step1
      <4> QED
        BY <1>11, <3>3, <4>3
    <3> QED
      BY <3>4, <3>5
  <2> QED
    BY <2>1
<1> QED
  BY <1>1, <1>2, <1>3, <1>12

\* What a set of blocks proves to be dominated, Dominates calls dominated.
LEMMA DomIsDominates ==
  ASSUME Graph(Size(fn), Succ(fn)), Size(fn) # 0, NEW a, NEW b, Dom(Size(fn), Succ(fn), a, b)
  PROVE  Dominates(a, b)
<1>1. PICK S \in SUBSET (1..Size(fn)) : b \notin S /\ Avoids(Succ(fn), a, S)
  BY DEF Dom
<1>2. PICK R : Layers(Size(fn), Succ(fn), a, R) /\ Reachable(a) = R[Size(fn)]
  BY ReachableIsLastLayer
<1>3. R[Size(fn)] \subseteq S
  BY <1>1, <1>2, LayersWithin DEF Graph
<1> QED
  BY <1>1, <1>2, <1>3 DEF Dominates

\* And what is in every closed set is found by the walk.
LEMMA ReachedIsReachable ==
  ASSUME Graph(Size(fn), Succ(fn)), Size(fn) # 0, NEW b, Reached(Size(fn), Succ(fn), b)
  PROVE  b \in Reachable(0)
<1>1. PICK R : Layers(Size(fn), Succ(fn), 0, R) /\ Reachable(0) = R[Size(fn)]
  BY ReachableIsLastLayer
<1>2. Avoids(Succ(fn), 0, R[Size(fn)])
  BY <1>1, LayersReach
<1>3. R[Size(fn)] \in SUBSET (1..Size(fn))
  BY <1>1, LayersGrow DEF Graph
<1> QED
  BY <1>1, <1>2, <1>3 DEF Reached

-----------------------------------------------------------------------------
(***************************************************************************)
(* The graph.  Every block placed in the function can be reached and has   *)
(* one terminator, but for the insertion point, which has none yet; blocks *)
(* that wait to be placed have none and cannot be left.                    *)
(***************************************************************************)
Blk(g) == 1..Size(g)
Placed(g) == {b \in Blk(g) : g.blocks[b].placed}
PredsOf(g, b) == {p \in Blk(g) : b \in Succ(g)[p]}
Terminators(g, b) == Len(g.blocks[b].term)
Doms(g, a, b) == Dom(Size(g), Succ(g), a, b)
Live(g, b) == Reached(Size(g), Succ(g), b)

\* The value v is there at the end of block b.
Available(g, v, b) == v = Const \/ (v \in Placed(g) /\ Doms(g, v, b))

FlowGraph(g) ==
  /\ \A b \in Blk(g) : Succ(g)[b] \subseteq Blk(g)
  /\ \A b \in Blk(g) :
       Terminators(g, b) = IF b \in Placed(g) /\ (b # g.cur \/ g.complete) THEN 1 ELSE 0
  /\ g.cur \in Placed(g) /\ Entry \in Placed(g)
  /\ \A b \in Placed(g) : Live(g, b)

UsesOK(g) ==
  \A use \in g.uses : use[1] \in Placed(g) /\ use[2] \in Placed(g) /\ Doms(g, use[1], use[2])

\* A PHI joins two blocks, each of which ends in the value it contributes.
Joins(g, phi, v, b, w, c) ==
  /\ phi.blk \in Placed(g) /\ b \in Placed(g) /\ c \in Placed(g) /\ b # c
  /\ phi.in = {<<v, b>>, <<w, c>>}
  /\ PredsOf(g, phi.blk) = {b, c}
  /\ Available(g, v, b) /\ Available(g, w, c)
PhisOK(g) ==
  \A phi \in g.phis : \E v \in Int, w \in Int, b \in Blk(g), c \in Blk(g) : Joins(g, phi, v, b, w, c)

(***************************************************************************)
(* The activations.  What a caller still needs is available at the         *)
(* insertion point, and, while an if above it generates its branches, at   *)
(* the block from which that if will go on: the else block until it is     *)
(* placed, the end of the then branch from there on.                       *)
(***************************************************************************)
Looping(f) == Ast[f.node].kind = "for" /\ Len(f.bbs) = 1
OpenIf(f) == Ast[f.node].kind = "if" /\ Len(f.bbs) = 3
Waiting(f) == Len(f.vals) + 1

LoopOK(g, f) == f.bbs[1] \in Placed(g) /\ \A phi \in g.phis : phi.blk # f.bbs[1]
\* k is the child that is generated, or has just been.
IfOK(g, f, k) ==
  /\ f.bbs[2] \in Blk(g) /\ f.bbs[3] \in Blk(g) \ Placed(g) /\ f.bbs[2] # f.bbs[3]
  /\ f.bbs[2] \notin Placed(g) => k = 2 /\ PredsOf(g, f.bbs[3]) = {} /\ Live(g, f.bbs[2])
  /\ f.bbs[2] \in Placed(g) => /\ k = 3 /\ PredsOf(g, f.bbs[3]) = {f.bbs[1]}
                               /\ f.bbs[1] \in Placed(g) /\ Available(g, f.vals[2], f.bbs[1])
FrameOK(g, f, k) == (Looping(f) => LoopOK(g, f)) /\ (OpenIf(f) => IfOK(g, f, k))

\* An if reads the value of a branch no later than the branch ends.
Needed(f, k) == {i \in 1..Len(f.vals) : f.vals[i] # Null /\ (OpenIf(f) => i = k)}
HeldAt(g, f, k, b) ==
  /\ \A i \in Needed(f, k) : Available(g, f.vals[i], b)
  /\ Looping(f) => Available(g, f.bbs[1], b)

Point(g, f) == IF f.bbs[2] \in Placed(g) THEN f.bbs[1] ELSE f.bbs[2]
Behind(g, f, open) ==
  /\ HeldAt(g, f, Waiting(f), Point(g, open))
  /\ OpenIf(f) => {f.bbs[2], f.bbs[3]} \cap {open.bbs[2], open.bbs[3]} = {}

\* The j-th activation, f, on top of those below it.
Stands(g, s, j, f, k) ==
  /\ FrameOK(g, f, k)
  /\ HeldAt(g, f, k, g.cur)
  /\ OpenIf(f) => \A i \in 1..(j - 1) : Behind(g, s[i], f)
Lower(g, s, d) == \A j \in 1..d : Stands(g, s, j, s[j], Waiting(s[j]))
StackFlow(g, s) ==
  s # <<>> => /\ Lower(g, s, Len(s) - 1)
              /\ Stands(g, s, Len(s), s[Len(s)], Len(s[Len(s)].vals))

\* The blocks that wait to be placed are those of the ifs under way.
CoveredBy(s, d, b) == \E j \in 1..d : OpenIf(s[j]) /\ b \in {s[j].bbs[2], s[j].bbs[3]}
Covered(g, s) == \A b \in Blk(g) \ Placed(g) : CoveredBy(s, Len(s), b)

FlowInv ==
  /\ FnOK(fn) /\ FlowGraph(fn) /\ UsesOK(fn) /\ PhisOK(fn)
  /\ StackFlow(fn, stack)
  /\ ~Failed => Covered(fn, stack)
  /\ ~Generating => result = Null \/ Available(fn, result, fn.cur)
  /\ fn.complete => ~Generating /\ ~Failed

-----------------------------------------------------------------------------
(* Growing the graph. *)

\* The parts of a well-formed function.
LEMMA Parts ==
  ASSUME NEW g, FnOK(g)
  PROVE  /\ Size(g) \in Nat /\ g.cur \in Blk(g) /\ Size(g) # 0
         /\ \A b \in Blk(g) : /\ g.blocks[b].placed \in BOOLEAN
                              /\ g.blocks[b].term \in Seq(SUBSET Nat)
                              /\ Terminators(g, b) \in Nat
         /\ g.complete \in BOOLEAN
<1>1. g.blocks \in Seq(Block) /\ g.cur \in 1..Len(g.blocks) /\ g.complete \in BOOLEAN
  BY DEF FnOK, FnRecord
<1>2. \A b \in 1..Len(g.blocks) : g.blocks[b] \in Block
  BY <1>1
<1>3. \A b \in 1..Len(g.blocks) : g.blocks[b].placed \in BOOLEAN /\ g.blocks[b].term \in Seq(SUBSET Nat)
  BY <1>2 DEF Block
<1> QED
  BY <1>1, <1>3 DEF Blk, Size, Terminators

\* Its successor function is a graph on its blocks.
LEMMA IsGraph ==
  ASSUME NEW g, FnOK(g), \A b \in Blk(g) : Succ(g)[b] \subseteq Blk(g)
  PROVE  Graph(Size(g), Succ(g)) /\ DOMAIN Succ(g) = Blk(g)
<1>1. Size(g) \in Nat
  BY Parts
<1>2. Succ(g) = [b \in Blk(g) |-> Succ(g)[b]]
  BY DEF Succ, Blk, Size
<1>3. Succ(g) \in [Blk(g) -> SUBSET Blk(g)]
  BY <1>2
<1> QED
  BY <1>1, <1>3 DEF Graph, Blk

\* The successors of a block without a terminator, and with one.
LEMMA SuccOf ==
  ASSUME NEW g, NEW b \in Blk(g)
  PROVE  /\ g.blocks[b].term = <<>> => Succ(g)[b] = {}
         /\ \A T : g.blocks[b].term = <<T>> => Succ(g)[b] = T
<1>1. Succ(g)[b] = UNION {g.blocks[b].term[i] : i \in 1..Len(g.blocks[b].term)}
  BY DEF Succ, Blk, Size
<1>2. ASSUME g.blocks[b].term = <<>> PROVE Succ(g)[b] = {}
  BY <1>1, <1>2
<1>3. ASSUME NEW T, g.blocks[b].term = <<T>> PROVE Succ(g)[b] = T
  <2> DEFINE t == g.blocks[b].term
             V == {t[i] : i \in 1..Len(t)}
  <2>1. Len(t) = 1 /\ t[1] = T
    BY <1>3
  <2>2. V = {T}
    <3> HIDE DEF t
    <3>1. 1..Len(t) = {1}
      BY <2>1
    <3> QED
      BY <2>1, <3>1
  <2>3. Succ(g)[b] = UNION V
    BY <1>1
  <2> HIDE DEF V, t
  <2> QED
    BY <2>2, <2>3
<1> QED
  BY <1>2, <1>3

\* Blocks with the same terminators have the same successors.
LEMMA SameSucc ==
  ASSUME NEW g, NEW h, NEW b \in Blk(g), b \in Blk(h), h.blocks[b].term = g.blocks[b].term
  PROVE  Succ(h)[b] = Succ(g)[b]
BY DEF Succ, Blk, Size

(***************************************************************************)
(* An action that ends a block: the insertion point of g gets a terminator *)
(* with successors T, blocks are appended to make M of them, and the       *)
(* insertion point of h is the only block that is placed by it.            *)
(***************************************************************************)
Jumps(g, h, T, M) ==
  /\ Size(h) = M /\ M \in Nat /\ Size(g) <= M
  /\ T \subseteq 1..M
  /\ h.cur \in 1..M /\ h.cur \notin Placed(g)
  /\ h.blocks[g.cur].term = <<T>>
  /\ \A b \in Blk(g) \ {g.cur} : h.blocks[b].term = g.blocks[b].term
  /\ \A b \in (Size(g) + 1)..M : h.blocks[b].term = <<>>
  /\ \A b \in Blk(g) : h.blocks[b].placed <=> g.blocks[b].placed \/ b = h.cur
  /\ \A b \in (Size(g) + 1)..M : h.blocks[b].placed <=> b = h.cur
  /\ ~g.complete /\ ~h.complete

\* One more block is placed.
LEMMA JumpPlaces ==
  ASSUME NEW g, NEW h, FnOK(g), FnOK(h), FlowGraph(g), NEW T, NEW M, Jumps(g, h, T, M)
  PROVE  Placed(h) = Placed(g) \cup {h.cur} /\ Size(h) = M /\ Blk(g) \subseteq Blk(h)
<1>1. /\ Size(g) \in Nat /\ Size(h) = M /\ M \in Nat /\ Size(g) <= M
  BY Parts DEF Jumps
<1>2. Blk(g) \subseteq Blk(h) /\ \A b \in Blk(h) : b \in Blk(g) \/ b \in (Size(g) + 1)..M
  BY <1>1 DEF Blk
<1>3. h.cur \in Blk(h) /\ \A b \in Blk(h) : b \notin Blk(g) => (h.blocks[b].placed <=> b = h.cur)
  BY <1>1, <1>2 DEF Jumps, Blk
<1>4. \A b \in Blk(g) : h.blocks[b].placed <=> g.blocks[b].placed \/ b = h.cur
  BY DEF Jumps
<1> QED
  BY <1>1, <1>2, <1>3, <1>4 DEF Placed

\* In the graph, that is an end that grows.
LEMMA JumpGrows ==
  ASSUME NEW g, NEW h, FnOK(g), FnOK(h), FlowGraph(g), NEW T, NEW M, Jumps(g, h, T, M)
  PROVE  /\ Grows(Size(g), Succ(g), Size(h), Succ(h), g.cur)
         /\ \A b \in Blk(h) : Succ(h)[b] \subseteq Blk(h)
         /\ Succ(h)[g.cur] = T
         /\ Placed(h) = Placed(g) \cup {h.cur}
         /\ Blk(g) \subseteq Blk(h)
         /\ \A b \in Blk(h) : Succ(h)[b] = IF b = g.cur THEN T
                                           ELSE IF b \in Blk(g) THEN Succ(g)[b] ELSE {}
         /\ \A b \in Blk(g) \ Placed(g) : Succ(g)[b] = {}
         /\ Size(h) = M /\ T \subseteq Blk(h) /\ Placed(g) \subseteq Placed(h)
         /\ g.cur \in Placed(g) /\ g.cur \in Blk(g) /\ Succ(g)[g.cur] = {}
<1>1. /\ Size(g) \in Nat /\ g.cur \in Blk(g) /\ Size(h) = M /\ M \in Nat /\ Size(g) <= M
      /\ g.cur \in Placed(g)
  BY Parts DEF Jumps, FlowGraph
<1>2. Blk(g) \subseteq Blk(h) /\ \A b \in Blk(h) : b \in Blk(g) \/ b \in (Size(g) + 1)..M
  BY <1>1 DEF Blk
<1>3. \A b \in Blk(g) : Terminators(g, b) = 0 => Succ(g)[b] = {}
  <2> TAKE b \in Blk(g)
  <2>1. g.blocks[b].term \in Seq(SUBSET Nat)
    BY Parts
  <2>2. Terminators(g, b) = 0 => g.blocks[b].term = <<>>
    BY <2>1 DEF Terminators
  <2> QED
    BY <2>2, SuccOf
<1>4. Succ(g)[g.cur] = {} /\ \A b \in Blk(g) \ Placed(g) : Succ(g)[b] = {}
  <2>1. Terminators(g, g.cur) = 0
    BY <1>1 DEF FlowGraph, Jumps
  <2>2. \A b \in Blk(g) \ Placed(g) : Terminators(g, b) = 0
    BY DEF FlowGraph
  <2> QED
    BY <1>1, <1>3, <2>1, <2>2
<1>5. Succ(h)[g.cur] = T
  BY <1>1, <1>2, SuccOf DEF Jumps
<1>6. \A b \in Blk(g) \ {g.cur} : Succ(h)[b] = Succ(g)[b]
  BY <1>2, SameSucc DEF Jumps
<1>7. \A b \in (Size(g) + 1)..M : Succ(h)[b] = {} /\ b \in Blk(h)
  <2> TAKE b \in (Size(g) + 1)..M
  <2>1. b \in Blk(h)
    BY <1>1 DEF Blk
  <2> QED
    BY <2>1, SuccOf DEF Jumps
<1>8. \A b \in Blk(h) : Succ(h)[b] = IF b = g.cur THEN T
                                     ELSE IF b \in Blk(g) THEN Succ(g)[b] ELSE {}
  <2> TAKE b \in Blk(h)
  <2>1. CASE b \in Blk(g)
    BY <1>5, <1>6, <2>1
  <2>2. CASE b \notin Blk(g)
    BY <1>1, <1>2, <1>7, <2>2
  <2> QED
    BY <2>1, <2>2
<1>9. \A b \in Blk(h) : Succ(h)[b] \subseteq Blk(h)
  <2>1. T \subseteq Blk(h)
    BY <1>1 DEF Jumps, Blk
  <2>2. \A b \in Blk(g) : Succ(g)[b] \subseteq Blk(h)
    BY <1>2 DEF FlowGraph
  <2> QED
    BY <1>8, <2>1, <2>2
<1>10. Graph(Size(g), Succ(g)) /\ Graph(Size(h), Succ(h))
  BY <1>9, IsGraph DEF FlowGraph
<1>11. Grows(Size(g), Succ(g), Size(h), Succ(h), g.cur)
  BY <1>1, <1>4, <1>6, <1>7, <1>10 DEF Grows, Blk
<1>12. Placed(h) = Placed(g) \cup {h.cur}
  <2>1. h.cur \in Blk(h)
    BY <1>1 DEF Jumps, Blk
  <2>2. \A b \in Blk(h) : h.blocks[b].placed <=> (b \in Placed(g) \/ b = h.cur)
    <3> TAKE b \in Blk(h)
    <3>1. CASE b \in Blk(g)
      BY <3>1 DEF Jumps, Placed
    <3>2. CASE b \in (Size(g) + 1)..M
      <4>1. b \notin Blk(g)
        BY <1>1, <3>2 DEF Blk
      <4> QED
        BY <3>2, <4>1 DEF Jumps, Placed
    <3> QED
      BY <1>2, <3>1, <3>2
  <2> QED
    BY <1>2, <2>1, <2>2 DEF Placed
<1>13. T \subseteq Blk(h)
  BY <1>1 DEF Jumps, Blk
<1> QED
  BY <1>1, <1>2, <1>4, <1>5, <1>8, <1>9, <1>11, <1>12, <1>13

\* What is available goes on being available, but for the blocks that are the
\* targets of the jump and wait to be placed.
Keeps(g, h, T) ==
  \A v : \A b \in Blk(g) :
    (b \in Placed(g) \/ b \notin T) /\ Available(g, v, b) => Available(h, v, b)

\* A jump to blocks from which nothing leads on keeps what was available;
LEMMA AwayKeeps ==
  ASSUME NEW g, NEW h, FnOK(g), FnOK(h), FlowGraph(g), NEW T, NEW M, Jumps(g, h, T, M),
         T \cap Placed(g) = {}
  PROVE  Keeps(g, h, T)
<1> SUFFICES ASSUME NEW v, NEW b \in Blk(g), b \notin T, Available(g, v, b), v # Const
             PROVE  v \in Placed(h) /\ Doms(h, v, b)
  BY DEF Keeps, Available
<1>1. v \in Placed(g) /\ Doms(g, v, b)
  BY DEF Available
<1>2. /\ Grows(Size(g), Succ(g), Size(h), Succ(h), g.cur) /\ Succ(h)[g.cur] = T
      /\ Placed(g) \subseteq Placed(h) /\ g.cur \in Placed(g)
      /\ \A x \in T : x \in Blk(h)
      /\ \A x \in Blk(h) : Succ(h)[x] = IF x = g.cur THEN T
                                        ELSE IF x \in Blk(g) THEN Succ(g)[x] ELSE {}
      /\ \A x \in Blk(g) \ Placed(g) : Succ(g)[x] = {}
  BY JumpGrows
<1>3. \A x \in T : Succ(h)[x] = {} /\ x # b
  BY <1>2
<1>4. Dom(Size(h), Succ(h), v, b)
  BY <1>1, <1>2, <1>3, DomStays DEF Doms, Blk
<1> QED
  BY <1>1, <1>2, <1>4 DEF Doms

\* so does the jump at the end of a loop, back to a block that dominates it.
LEMMA BackKeeps ==
  ASSUME NEW g, NEW h, FnOK(g), FnOK(h), FlowGraph(g), NEW T, NEW M, Jumps(g, h, T, M),
         NEW l \in Placed(g), Available(g, l, g.cur),
         \A x \in T : x = l \/ x \in (Size(g) + 1)..M
  PROVE  Keeps(g, h, T)
<1> SUFFICES ASSUME NEW v, NEW b \in Blk(g), Available(g, v, b), v # Const
             PROVE  v \in Placed(h) /\ Doms(h, v, b)
  BY DEF Keeps, Available
<1>1. v \in Placed(g) /\ Doms(g, v, b) /\ v \in Blk(g)
  BY DEF Available, Placed
<1>2. Doms(g, l, g.cur) /\ l \in Blk(g)
  BY DEF Available, Placed, Blk, Const
<1>3. /\ Grows(Size(g), Succ(g), Size(h), Succ(h), g.cur) /\ Succ(h)[g.cur] = T
      /\ Placed(g) \subseteq Placed(h) /\ Size(h) = M
  BY JumpGrows
<1>4. \A x \in Succ(h)[g.cur] : x = l \/ x \in (Size(g) + 1)..Size(h)
  BY <1>3
<1>5. Dom(Size(h), Succ(h), v, b)
  BY <1>1, <1>2, <1>3, <1>4, DomLoop DEF Doms, Blk
<1> QED
  BY <1>1, <1>3, <1>5 DEF Doms

\* What is available at the end is available in a new block behind it,
LEMMA AvailableNext ==
  ASSUME NEW g, NEW h, FnOK(g), FnOK(h), FlowGraph(g), NEW T, NEW M, Jumps(g, h, T, M),
         NEW n \in (Size(g) + 1)..M, NEW v, Available(g, v, g.cur)
  PROVE  Available(h, v, n)
<1> SUFFICES ASSUME v # Const PROVE v \in Placed(h) /\ Doms(h, v, n)
  BY DEF Available
<1>1. v \in Placed(g) /\ Doms(g, v, g.cur)
  BY DEF Available
<1>2. /\ Grows(Size(g), Succ(g), Size(h), Succ(h), g.cur)
      /\ Placed(g) \subseteq Placed(h) /\ Size(h) = M
  BY JumpGrows
<1>3. Dom(Size(h), Succ(h), v, n)
  BY <1>1, <1>2, DomNext DEF Doms
<1> QED
  BY <1>1, <1>2, <1>3 DEF Doms

\* and what is available at both ends that meet is available where they do.
LEMMA AvailableJoin ==
  ASSUME NEW g, NEW h, FnOK(g), FnOK(h), FlowGraph(g),
         NEW m \in Blk(g) \ Placed(g), NEW M, Jumps(g, h, {m}, M),
         NEW e, PredsOf(g, m) = {e}, NEW v, Available(g, v, e), Available(g, v, g.cur)
  PROVE  Available(h, v, m)
<1> SUFFICES ASSUME v # Const PROVE v \in Placed(h) /\ Doms(h, v, m)
  BY DEF Available
<1>1. v \in Placed(g) /\ Doms(g, v, g.cur) /\ Doms(g, v, e) /\ v # m /\ m # Entry
  BY DEF Available, FlowGraph
<1>2. /\ Grows(Size(g), Succ(g), Size(h), Succ(h), g.cur) /\ Succ(h)[g.cur] = {m}
      /\ Placed(g) \subseteq Placed(h)
  BY JumpGrows
<1>3. \A x \in 1..Size(g) : m \in Succ(g)[x] => x = e
  BY DEF PredsOf, Blk
<1>4. Dom(Size(h), Succ(h), v, m)
  BY <1>1, <1>2, <1>3, DomJoin DEF Doms, Blk
<1> QED
  BY <1>1, <1>2, <1>4 DEF Doms

\* The predecessors of a block, before and after.
LEMMA PredsStay ==
  ASSUME NEW g, NEW h, FnOK(g), FnOK(h), FlowGraph(g), NEW T, NEW M, Jumps(g, h, T, M), NEW b
  PROVE  /\ b \notin T => PredsOf(h, b) = PredsOf(g, b)
         /\ b \in T => PredsOf(h, b) = PredsOf(g, b) \cup {g.cur}
         /\ g.cur \notin PredsOf(g, b)
         /\ PredsOf(g, b) \subseteq Placed(g)
<1>1. /\ Succ(g)[g.cur] = {} /\ g.cur \in Blk(g)
      /\ Blk(g) \subseteq Blk(h)
      /\ \A x \in Blk(h) : Succ(h)[x] = IF x = g.cur THEN T
                                        ELSE IF x \in Blk(g) THEN Succ(g)[x] ELSE {}
      /\ \A x \in Blk(g) \ Placed(g) : Succ(g)[x] = {}
  BY JumpGrows
<1> QED
  BY <1>1 DEF PredsOf

\* What could be reached still can be, and so can the targets of the jump.
LEMMA LiveStays ==
  ASSUME NEW g, NEW h, FnOK(g), FnOK(h), FlowGraph(g), NEW T, NEW M, Jumps(g, h, T, M)
  PROVE  /\ \A b : Live(g, b) => Live(h, b)
         /\ \A b \in T : Live(h, b)
<1>1. Grows(Size(g), Succ(g), Size(h), Succ(h), g.cur) /\ Succ(h)[g.cur] = T
  BY JumpGrows
<1>2. Live(g, g.cur)
  BY DEF FlowGraph
<1>3. ASSUME NEW b, Live(g, b) PROVE Live(h, b)
  BY <1>1, <1>3, ReachedStays DEF Live
<1>4. ASSUME NEW b \in T PROVE Live(h, b)
  BY <1>1, <1>2, <1>4, ReachedNext DEF Live
<1> QED
  BY <1>3, <1>4

\* The graph stays a flow graph where the new insertion point can be reached.
LEMMA FlowGraphGrows ==
  ASSUME NEW g, NEW h, FnOK(g), FnOK(h), FlowGraph(g), NEW T, NEW M, Jumps(g, h, T, M),
         Live(h, h.cur)
  PROVE  FlowGraph(h)
<1>1. /\ Placed(h) = Placed(g) \cup {h.cur} /\ Blk(g) \subseteq Blk(h)
      /\ \A b \in Blk(h) : Succ(h)[b] \subseteq Blk(h)
  BY JumpGrows
<1>2. h.cur \in Placed(h) /\ Entry \in Placed(h)
  BY <1>1 DEF FlowGraph
<1>3. \A b \in Placed(h) : Live(h, b)
  BY <1>1, LiveStays DEF FlowGraph
<1>4. ASSUME NEW b \in Blk(h)
      PROVE  Terminators(h, b) = IF b \in Placed(h) /\ (b # h.cur \/ h.complete) THEN 1 ELSE 0
  <2>1. CASE b = g.cur
    <3>1. Len(<<T>>) = 1
      OBVIOUS
    <3>2. h.blocks[b].term = <<T>> /\ b \in Placed(g) /\ b # h.cur
      BY <2>1 DEF Jumps, FlowGraph
    <3> QED
      BY <1>1, <3>1, <3>2 DEF Terminators
  <2>2. CASE b \in Blk(g) /\ b # g.cur
    <3>1. h.blocks[b].term = g.blocks[b].term
      BY <2>2 DEF Jumps
    <3>2. Terminators(g, b) = IF b \in Placed(g) THEN 1 ELSE 0
      BY <2>2 DEF FlowGraph
    <3>3. b \in Placed(h) /\ (b # h.cur \/ h.complete) <=> b \in Placed(g)
      BY <1>1, <2>2 DEF Jumps
    <3> QED
      BY <3>1, <3>2, <3>3 DEF Terminators
  <2>3. CASE b \notin Blk(g)
    <3>1. b \in (Size(g) + 1)..M
      BY <2>3, Parts DEF Blk, Jumps
    <3>2. h.blocks[b].term = <<>> /\ b \notin Placed(g)
      BY <2>3, <3>1 DEF Jumps, Placed
    <3>3. Len(<<>>) = 0
      OBVIOUS
    <3> QED
      BY <1>1, <3>2, <3>3 DEF Terminators, Jumps
  <2> QED
    BY <2>1, <2>2, <2>3
<1> QED
  BY <1>1, <1>2, <1>3, <1>4 DEF FlowGraph

-----------------------------------------------------------------------------
(* What a jump preserves of uses, PHIs and activations. *)

\* Uses.
LEMMA UsesGrow ==
  ASSUME NEW g, NEW h, FnOK(g), FnOK(h), FlowGraph(g), NEW T, NEW M, Jumps(g, h, T, M),
         Keeps(g, h, T), UsesOK(g),
         \A use \in h.uses : \/ use \in g.uses
                             \/ use[1] # Const /\ use[2] = g.cur /\ Available(g, use[1], g.cur)
  PROVE  UsesOK(h)
<1> SUFFICES ASSUME NEW use \in h.uses
             PROVE  use[1] \in Placed(h) /\ use[2] \in Placed(h) /\ Doms(h, use[1], use[2])
  BY DEF UsesOK
<1>1. Placed(g) \subseteq Placed(h) /\ Placed(g) \subseteq Blk(g) /\ Const \notin Placed(g)
      /\ g.cur \in Placed(g)
  <2>1. Placed(g) \subseteq Blk(g) /\ Const \notin Placed(g)
    BY DEF Placed, Blk, Const
  <2> QED
    BY <2>1, JumpGrows
<1>2. use[1] # Const /\ use[2] \in Placed(g) /\ Available(g, use[1], use[2])
  BY <1>1 DEF UsesOK, Available
<1>3. Available(h, use[1], use[2])
  BY <1>1, <1>2 DEF Keeps
<1> QED
  BY <1>1, <1>2, <1>3 DEF Available

\* PHIs.
LEMMA PhisGrow ==
  ASSUME NEW g, NEW h, FnOK(g), FnOK(h), FlowGraph(g), NEW T, NEW M, Jumps(g, h, T, M),
         Keeps(g, h, T), PhisOK(g),
         \A phi \in g.phis : phi.blk \notin T,
         \A phi \in h.phis :
           phi \in g.phis
           \/ \E v \in Int, w \in Int, b \in Blk(h), c \in Blk(h) : Joins(h, phi, v, b, w, c)
  PROVE  PhisOK(h)
<1>1. Placed(g) \subseteq Placed(h) /\ Placed(g) \subseteq Blk(g) /\ Blk(g) \subseteq Blk(h)
  BY JumpGrows DEF Placed
<1>2. ASSUME NEW phi \in g.phis
      PROVE  \E v \in Int, w \in Int, b \in Blk(h), c \in Blk(h) : Joins(h, phi, v, b, w, c)
  <2>1. PICK v \in Int, w \in Int, b \in Blk(g), c \in Blk(g) : Joins(g, phi, v, b, w, c)
    BY DEF PhisOK
  <2>2. Available(h, v, b) /\ Available(h, w, c)
    BY <1>1, <2>1 DEF Joins, Keeps
  <2>3. PredsOf(h, phi.blk) = PredsOf(g, phi.blk)
    BY PredsStay
  <2>4. Joins(h, phi, v, b, w, c)
    BY <1>1, <2>1, <2>2, <2>3 DEF Joins
  <2> QED
    BY <1>1, <2>4
<1> QED
  BY <1>2 DEF PhisOK

\* No PHI sits in a block that is not placed.
LEMMA PhisArePlaced ==
  ASSUME NEW g, PhisOK(g), NEW phi \in g.phis
  PROVE  phi.blk \in Placed(g)
BY DEF PhisOK, Joins

\* What a frame holds at one place, it holds wherever all of that is available.
LEMMA HeldMoves ==
  ASSUME NEW g, NEW h, NEW f, NEW k, NEW b, NEW c, HeldAt(g, f, k, b),
         \A v : Available(g, v, b) => Available(h, v, c)
  PROVE  HeldAt(h, f, k, c)
BY DEF HeldAt

\* A jump does not touch the blocks of an open if.
Untouched(g, h, T, f) ==
  OpenIf(f) => /\ f.bbs[3] \notin T /\ f.bbs[3] # h.cur /\ f.bbs[2] # h.cur
               /\ f.bbs[2] \in T => f.bbs[2] \in Placed(g)

\* An activation that is not concerned by the jump stands as it did.
LEMMA FrameStays ==
  ASSUME NEW g, NEW h, FnOK(g), FnOK(h), FlowGraph(g), NEW T, NEW M, Jumps(g, h, T, M),
         Keeps(g, h, T), NEW f, NEW k, FrameOK(g, f, k),
         Untouched(g, h, T, f),
         \A phi \in h.phis : phi \in g.phis \/ phi.blk \notin Placed(g)
  PROVE  FrameOK(h, f, k)
<1>1. /\ Placed(h) = Placed(g) \cup {h.cur} /\ Placed(g) \subseteq Blk(g) /\ Blk(g) \subseteq Blk(h)
  BY JumpGrows DEF Placed
<1>2. ASSUME Looping(f) PROVE LoopOK(h, f)
  BY <1>1, <1>2 DEF FrameOK, LoopOK
<1>3. ASSUME OpenIf(f) PROVE IfOK(h, f, k)
  <2>1. IfOK(g, f, k)
    BY <1>3 DEF FrameOK
  <2>2. f.bbs[3] \in Blk(h) \ Placed(h) /\ f.bbs[2] \in Blk(h) /\ f.bbs[3] \notin T
        /\ (f.bbs[2] \in Placed(h) <=> f.bbs[2] \in Placed(g))
    BY <1>1, <1>3, <2>1 DEF IfOK, Untouched
  <2>3. PredsOf(h, f.bbs[3]) = PredsOf(g, f.bbs[3])
    BY <2>2, PredsStay
  <2>4. f.bbs[2] \notin Placed(h) => k = 2 /\ PredsOf(h, f.bbs[3]) = {} /\ Live(h, f.bbs[2])
    BY <2>1, <2>2, <2>3, LiveStays DEF IfOK
  <2>5. f.bbs[2] \in Placed(h) =>
          /\ k = 3 /\ PredsOf(h, f.bbs[3]) = {f.bbs[1]}
          /\ f.bbs[1] \in Placed(h) /\ Available(h, f.vals[2], f.bbs[1])
    <3>1. ASSUME f.bbs[2] \in Placed(g) PROVE Available(h, f.vals[2], f.bbs[1])
      BY <1>1, <2>1, <3>1 DEF IfOK, Keeps
    <3> QED
      BY <1>1, <2>1, <2>2, <2>3, <3>1 DEF IfOK
  <2> QED
    BY <2>1, <2>2, <2>4, <2>5 DEF IfOK
<1> QED
  BY <1>2, <1>3 DEF FrameOK

\* Nor does what it holds behind an open if change.
LEMMA BehindStays ==
  ASSUME NEW g, NEW h, FnOK(g), FnOK(h), FlowGraph(g), NEW T, NEW M, Jumps(g, h, T, M),
         Keeps(g, h, T), NEW f, NEW open, OpenIf(open), NEW k, FrameOK(g, open, k),
         Untouched(g, h, T, open), Behind(g, f, open)
  PROVE  Behind(h, f, open)
<1>1. Placed(h) = Placed(g) \cup {h.cur} /\ Placed(g) \subseteq Blk(g)
  BY JumpGrows DEF Placed
<1>2. /\ IfOK(g, open, k) /\ open.bbs[2] # h.cur
      /\ open.bbs[2] \in T => open.bbs[2] \in Placed(g)
  BY DEF FrameOK, Untouched
<1>3. Point(h, open) = Point(g, open)
  BY <1>1, <1>2 DEF Point
<1>4. Point(g, open) \in Blk(g) /\ (Point(g, open) \in Placed(g) \/ Point(g, open) \notin T)
  BY <1>1, <1>2 DEF Point, IfOK
<1>5. \A v : Available(g, v, Point(g, open)) => Available(h, v, Point(g, open))
  BY <1>4 DEF Keeps
<1>6. HeldAt(h, f, Waiting(f), Point(h, open))
  BY <1>3, <1>5, HeldMoves DEF Behind
<1> QED
  BY <1>6 DEF Behind

\* So the activations below the innermost one stand as they did, if what they
\* hold is available at the new insertion point.
LEMMA LowerStays ==
  ASSUME NEW g, NEW h, FnOK(g), FnOK(h), FlowGraph(g), NEW T, NEW M, Jumps(g, h, T, M),
         Keeps(g, h, T), NEW s, NEW d \in Nat, Lower(g, s, d),
         \A phi \in h.phis : phi \in g.phis \/ phi.blk \notin Placed(g),
         \A i \in 1..d : Untouched(g, h, T, s[i]),
         \A i \in 1..d : HeldAt(h, s[i], Waiting(s[i]), h.cur)
  PROVE  Lower(h, s, d)
<1> SUFFICES ASSUME NEW j \in 1..d
             PROVE  Stands(h, s, j, s[j], Waiting(s[j]))
  BY DEF Lower
<1>1. Stands(g, s, j, s[j], Waiting(s[j]))
  BY DEF Lower
<1>2. FrameOK(h, s[j], Waiting(s[j]))
  BY <1>1, FrameStays DEF Stands
<1>3. ASSUME OpenIf(s[j]), NEW i \in 1..(j - 1) PROVE Behind(h, s[i], s[j])
  BY <1>1, <1>3, BehindStays DEF Stands
<1> QED
  BY <1>2, <1>3 DEF Stands

-----------------------------------------------------------------------------
(* Actions that leave the blocks alone, and the three moves of the stack.  *)

SameFlow(g, h) == h.blocks = g.blocks /\ h.cur = g.cur /\ h.phis = g.phis /\ h.complete = g.complete

\* All that is said of the graph is said of its blocks.
LEMMA SameGraph ==
  ASSUME NEW g, NEW h, SameFlow(g, h)
  PROVE  /\ Blk(h) = Blk(g) /\ Placed(h) = Placed(g) /\ Succ(h) = Succ(g)
         /\ \A b : PredsOf(h, b) = PredsOf(g, b) /\ (Live(h, b) <=> Live(g, b))
         /\ \A a, b : (Doms(h, a, b) <=> Doms(g, a, b)) /\ (Available(h, a, b) <=> Available(g, a, b))
<1>1. /\ Size(h) = Size(g) /\ Succ(h) = Succ(g)
      /\ Blk(h) = Blk(g) /\ Placed(h) = Placed(g)
  BY DEF SameFlow, Size, Succ, Blk, Placed
<1> QED
  BY <1>1 DEF PredsOf, Live, Doms, Available

\* What stood goes on standing.
LEMMA SameStands ==
  ASSUME NEW g, NEW h, SameFlow(g, h), NEW s, NEW j, NEW f, NEW k, Stands(g, s, j, f, k)
  PROVE  Stands(h, s, j, f, k)
<1>1. FrameOK(h, f, k)
  BY SameGraph DEF Stands, FrameOK, LoopOK, IfOK, SameFlow
<1>2. \A x, i, b : HeldAt(g, x, i, b) => HeldAt(h, x, i, b)
  BY SameGraph DEF HeldAt
<1>3. \A x : Point(h, x) = Point(g, x)
  BY SameGraph DEF Point
<1>4. \A x, o : Behind(g, x, o) => Behind(h, x, o)
  BY <1>2, <1>3 DEF Behind
<1> QED
  BY <1>1, <1>2, <1>4 DEF Stands, SameFlow

\* The graph and its PHIs are as good as they were, and so are the uses if
\* those that were added are.
LEMMA SameOK ==
  ASSUME NEW g, NEW h, SameFlow(g, h), FlowGraph(g), UsesOK(g), PhisOK(g),
         \A use \in h.uses : \/ use \in g.uses
                             \/ use[1] # Const /\ use[2] = g.cur /\ Available(g, use[1], g.cur)
  PROVE  FlowGraph(h) /\ UsesOK(h) /\ PhisOK(h)
<1>1. FlowGraph(h)
  BY SameGraph DEF FlowGraph, SameFlow, Terminators
<1>2. UsesOK(h)
  BY SameGraph DEF UsesOK, Available, FlowGraph
<1>3. PhisOK(h)
  BY SameGraph DEF PhisOK, Joins, SameFlow
<1> QED
  BY <1>1, <1>2, <1>3

\* Whether an activation stands depends on those below it only.
LEMMA StandsOn ==
  ASSUME NEW h, NEW s, NEW t, NEW j, NEW f, NEW k, Stands(h, s, j, f, k),
         \A i \in 1..(j - 1) : t[i] = s[i]
  PROVE  Stands(h, t, j, f, k)
BY DEF Stands

\* A call: the caller's frame stands as one that waits.
LEMMA FlowDescends ==
  ASSUME GenInv, Generating, NEW h, NEW f \in Frame, NEW k \in 1..Arity(f.node),
         Ast[f.node].kids[k] # NoNode, Descend(f, k),
         Lower(h, stack, Depth - 1), Stands(h, stack, Depth, f, Waiting(f))
  PROVE  StackFlow(h, stack')
<1> DEFINE d == Depth
           n == NewFrame(Ast[f.node].kids[k])
<1>1. stack \in Seq(Frame) /\ stack # <<>> /\ d \in Nat /\ d >= 1
  BY AtTop
<1>2. /\ stack' \in Seq(Frame) /\ Len(stack') = d + 1
      /\ \A j \in 1..(d - 1) : stack'[j] = stack[j]
      /\ stack'[d] = f /\ stack'[d + 1] = n
  BY <1>1, DescendShape
<1>3. Len(n.vals) = 0 /\ Len(n.bbs) = 0
  BY DEF NewFrame
<1>4. Stands(h, stack', d + 1, n, Len(n.vals))
  <2>1. ~Looping(n) /\ ~OpenIf(n)
    BY <1>3 DEF Looping, OpenIf
  <2>2. Needed(n, Len(n.vals)) = {}
    BY <1>3 DEF Needed
  <2> QED
    BY <2>1, <2>2 DEF Stands, FrameOK, HeldAt
<1>5. ASSUME NEW j \in 1..d PROVE Stands(h, stack', j, stack'[j], Waiting(stack'[j]))
  <2>1. \A i \in 1..(j - 1) : stack'[i] = stack[i]
    BY <1>1, <1>2
  <2>2. CASE j = d
    BY <1>2, <2>1, <2>2, StandsOn
  <2>3. CASE j # d
    <3>1. j \in 1..(d - 1)
      BY <1>1, <2>3
    <3>2. stack'[j] = stack[j] /\ Stands(h, stack, j, stack[j], Waiting(stack[j]))
      BY <1>2, <3>1 DEF Lower
    <3> QED
      BY <2>1, <3>2, StandsOn
  <2> QED
    BY <2>2, <2>3
<1>6. Len(stack') - 1 = d
  BY <1>1, <1>2
<1> HIDE DEF n
<1>7. Lower(h, stack', Len(stack') - 1)
  BY <1>5, <1>6 DEF Lower
<1> QED
  BY <1>2, <1>4, <1>7 DEF StackFlow

\* Going on in the same activation.
LEMMA FlowReplaces ==
  ASSUME GenInv, Generating, NEW h, NEW f \in Frame, stack' = Append(Below, f),
         Lower(h, stack, Depth - 1), Stands(h, stack, Depth, f, Len(f.vals))
  PROVE  StackFlow(h, stack')
<1> DEFINE d == Depth
<1>1. stack \in Seq(Frame) /\ stack # <<>> /\ d \in Nat /\ d >= 1
  BY AtTop
<1>2. /\ stack' \in Seq(Frame) /\ Len(stack') = d
      /\ \A j \in 1..(d - 1) : stack'[j] = stack[j]
      /\ stack'[d] = f
  BY <1>1, ReplaceShape
<1>3. Stands(h, stack', d, f, Len(f.vals))
  BY <1>2, StandsOn
<1>4. ASSUME NEW j \in 1..(d - 1) PROVE Stands(h, stack', j, stack'[j], Waiting(stack'[j]))
  <2>1. \A i \in 1..(j - 1) : stack'[i] = stack[i]
    BY <1>1, <1>2
  <2>2. stack'[j] = stack[j] /\ Stands(h, stack, j, stack[j], Waiting(stack[j]))
    BY <1>2 DEF Lower
  <2> QED
    BY <2>1, <2>2, StandsOn
<1> QED
  BY <1>2, <1>3, <1>4 DEF StackFlow, Lower

\* A frame that waited gets its value.
LEMMA GetsValue ==
  ASSUME NEW h, NEW s, NEW j, NEW f \in Frame, Stands(h, s, j, f, Waiting(f)),
         NEW v \in Int, v = Null \/ Available(h, v, h.cur),
         NEW r, r = [f EXCEPT !.vals = Append(@, v)]
  PROVE  Stands(h, s, j, r, Len(r.vals))
<1>1. /\ f.vals \in Seq(Int) /\ r.node = f.node /\ r.bbs = f.bbs
      /\ r.vals = Append(f.vals, v)
  BY DEF Frame
<1> DEFINE n == Len(f.vals)
<1>2. /\ n \in Nat /\ Len(r.vals) = n + 1 /\ r.vals[n + 1] = v
      /\ \A i \in 1..n : r.vals[i] = f.vals[i]
  BY <1>1, AppendProperties
<1>3. /\ Waiting(f) = Len(r.vals) /\ (Looping(r) <=> Looping(f)) /\ (OpenIf(r) <=> OpenIf(f))
  BY <1>1, <1>2 DEF Waiting, Looping, OpenIf
<1>4. FrameOK(h, r, Len(r.vals))
  <2>1. Looping(f) => LoopOK(h, r)
    BY <1>1 DEF Stands, FrameOK, LoopOK
  <2>2. ASSUME OpenIf(f) PROVE IfOK(h, r, Len(r.vals))
    <3>1. IfOK(h, f, n + 1)
      BY <1>2, <1>3, <2>2 DEF Stands, FrameOK
    <3>2. n + 1 = 3 => r.vals[2] = f.vals[2]
      BY <1>2
    <3> QED
      BY <1>1, <1>2, <3>1, <3>2 DEF IfOK
  <2> QED
    BY <1>3, <2>1, <2>2 DEF FrameOK
<1>5. HeldAt(h, r, Len(r.vals), h.cur)
  <2>1. ASSUME NEW i \in Needed(r, Len(r.vals)) PROVE Available(h, r.vals[i], h.cur)
    <3>1. i \in 1..(n + 1) /\ r.vals[i] # Null
      BY <1>2, <2>1 DEF Needed
    <3>2. CASE i = n + 1
      BY <1>2, <3>1, <3>2
    <3>3. CASE i # n + 1
      <4>1. i \in 1..n /\ r.vals[i] = f.vals[i] /\ ~OpenIf(f)
        BY <1>2, <1>3, <2>1, <3>1, <3>3 DEF Needed
      <4>2. i \in Needed(f, Waiting(f))
        BY <3>1, <4>1 DEF Needed
      <4> QED
        BY <4>1, <4>2 DEF Stands, HeldAt
    <3> QED
      BY <3>2, <3>3
  <2>2. Looping(r) => Available(h, r.bbs[1], h.cur)
    BY <1>1, <1>3 DEF Stands, HeldAt
  <2> QED
    BY <2>1, <2>2 DEF HeldAt
<1>6. ASSUME OpenIf(r), NEW i \in 1..(j - 1) PROVE Behind(h, s[i], r)
  <2>1. Behind(h, s[i], f)
    BY <1>3, <1>6 DEF Stands
  <2>2. Point(h, r) = Point(h, f)
    BY <1>1 DEF Point
  <2> QED
    BY <1>1, <2>1, <2>2 DEF Behind
<1> QED
  BY <1>4, <1>5, <1>6 DEF Stands

\* A return.
LEMMA FlowReturns ==
  ASSUME GenInv, Generating, NEW h, NEW v \in Int, Return(v),
         Lower(h, stack, Depth - 1), v = Null \/ Available(h, v, h.cur)
  PROVE  StackFlow(h, stack')
<1> DEFINE d == Depth
           r == [stack[d - 1] EXCEPT !.vals = Append(@, v)]
<1>1. stack \in Seq(Frame) /\ stack # <<>> /\ d \in Nat /\ d >= 1
  BY AtTop
<1>2. /\ stack' \in Seq(Frame) /\ Len(stack') = d - 1
      /\ \A j \in 1..(d - 2) : stack'[j] = stack[j]
      /\ d > 1 => stack'[d - 1] = r
  BY <1>1, ReturnShape
<1>3. CASE d = 1
  <2>1. stack' = <<>>
    BY <1>2, <1>3
  <2> QED
    BY <2>1 DEF StackFlow
<1>4. CASE d > 1
  <2>1. d - 1 \in 1..(d - 1) /\ stack[d - 1] \in Frame
    BY <1>1, <1>4, TopIsFrame
  <2>2. Stands(h, stack, d - 1, stack[d - 1], Waiting(stack[d - 1]))
    BY <2>1 DEF Lower
  <2>3. Stands(h, stack, d - 1, r, Len(r.vals))
    BY <2>1, <2>2, GetsValue
  <2> HIDE DEF r
  <2>4. \A i \in 1..(d - 2) : stack'[i] = stack[i]
    BY <1>2
  <2>5. (d - 1) - 1 = d - 2
    BY <1>1
  <2>6. Stands(h, stack', d - 1, r, Len(r.vals))
    BY <2>3, <2>4, <2>5, StandsOn
  <2>7. ASSUME NEW j \in 1..(d - 2) PROVE Stands(h, stack', j, stack'[j], Waiting(stack'[j]))
    <3>1. j \in 1..(d - 1) /\ \A i \in 1..(j - 1) : stack'[i] = stack[i]
      BY <1>1, <1>2
    <3>2. stack'[j] = stack[j] /\ Stands(h, stack, j, stack[j], Waiting(stack[j]))
      BY <1>2, <3>1 DEF Lower
    <3> QED
      BY <3>1, <3>2, StandsOn
  <2> QED
    BY <1>2, <1>4, <2>5, <2>6, <2>7 DEF StackFlow, Lower
<1> QED
  BY <1>1, <1>3, <1>4

-----------------------------------------------------------------------------
(* The invariant after a step, from its parts. *)

FnFlow(g) == FnOK(g) /\ FlowGraph(g) /\ UsesOK(g) /\ PhisOK(g) /\ ~g.complete

\* After a return.
LEMMA AfterReturn ==
  ASSUME GenInv, Generating, NEW v \in Int, Return(v), FnFlow(fn'),
         Lower(fn', stack, Depth - 1), v = Null \/ Available(fn', v, fn'.cur),
         ~Failed' => \A b \in Blk(fn') \ Placed(fn') : CoveredBy(stack, Depth - 1, b)
  PROVE  FlowInv'
<1> DEFINE d == Depth
           r == [stack[d - 1] EXCEPT !.vals = Append(@, v)]
<1>1. stack \in Seq(Frame) /\ stack # <<>> /\ d \in Nat /\ d >= 1
  BY AtTop
<1>2. /\ stack' \in Seq(Frame) /\ Len(stack') = d - 1
      /\ \A j \in 1..(d - 2) : stack'[j] = stack[j]
      /\ d > 1 => stack'[d - 1] = r
      /\ d = 1 => result' = v
  BY <1>1, ReturnShape
<1>3. StackFlow(fn', stack')
  BY FlowReturns
<1>4. ASSUME NEW j \in 1..(d - 1)
      PROVE  stack'[j].node = stack[j].node /\ stack'[j].bbs = stack[j].bbs
  <2>1. CASE j = d - 1
    <3>1. stack[j] \in Frame /\ stack'[j] = [stack[j] EXCEPT !.vals = Append(@, v)]
      BY <1>1, <1>2, <2>1, TopIsFrame
    <3> QED
      BY <3>1 DEF Frame
  <2>2. CASE j # d - 1
    <3>1. j \in 1..(d - 2)
      BY <1>1, <2>2
    <3> QED
      BY <1>2, <3>1
  <2> QED
    BY <2>1, <2>2
<1>5. ASSUME ~Failed' PROVE Covered(fn', stack')
  <2>1. ASSUME NEW b \in Blk(fn') \ Placed(fn') PROVE CoveredBy(stack', Len(stack'), b)
    <3>1. PICK j \in 1..(d - 1) : OpenIf(stack[j]) /\ b \in {stack[j].bbs[2], stack[j].bbs[3]}
      BY <1>5, <2>1 DEF CoveredBy
    <3>2. OpenIf(stack'[j]) /\ b \in {stack'[j].bbs[2], stack'[j].bbs[3]}
      BY <1>4, <3>1 DEF OpenIf
    <3> QED
      BY <1>2, <3>2 DEF CoveredBy
  <2> QED
    BY <2>1 DEF Covered
<1>6. ~Generating' => result' = Null \/ Available(fn', result', fn'.cur)
  <2>1. ~Generating' => d = 1
    BY <1>1, <1>2 DEF Generating
  <2> QED
    BY <1>2, <2>1
<1> QED
  BY <1>3, <1>5, <1>6 DEF FlowInv, FnFlow

\* After a call.
LEMMA AfterDescend ==
  ASSUME GenInv, Generating, NEW f \in Frame, NEW k \in 1..Arity(f.node),
         Ast[f.node].kids[k] # NoNode, Descend(f, k), FnFlow(fn'),
         Lower(fn', stack, Depth - 1), Stands(fn', stack, Depth, f, Waiting(f)),
         ~Failed' => \A b \in Blk(fn') \ Placed(fn') :
                       \/ CoveredBy(stack, Depth - 1, b)
                       \/ OpenIf(f) /\ b \in {f.bbs[2], f.bbs[3]}
  PROVE  FlowInv'
<1> DEFINE d == Depth
<1>1. stack \in Seq(Frame) /\ stack # <<>> /\ d \in Nat /\ d >= 1
  BY AtTop
<1>2. /\ stack' \in Seq(Frame) /\ Len(stack') = d + 1
      /\ \A j \in 1..(d - 1) : stack'[j] = stack[j]
      /\ stack'[d] = f
  BY <1>1, DescendShape
<1>3. StackFlow(fn', stack')
  BY FlowDescends
<1>4. ASSUME ~Failed' PROVE Covered(fn', stack')
  <2>1. ASSUME NEW b \in Blk(fn') \ Placed(fn') PROVE CoveredBy(stack', Len(stack'), b)
    <3>1. d \in 1..Len(stack') /\ \A j \in 1..(d - 1) : j \in 1..Len(stack')
      BY <1>1, <1>2
    <3>2. CASE CoveredBy(stack, d - 1, b)
      BY <1>2, <3>1, <3>2 DEF CoveredBy
    <3>3. CASE OpenIf(f) /\ b \in {f.bbs[2], f.bbs[3]}
      BY <1>2, <3>1, <3>3 DEF CoveredBy
    <3> QED
      BY <1>4, <2>1, <3>2, <3>3
  <2> QED
    BY <2>1 DEF Covered
<1>5. Generating'
  BY <1>1, <1>2 DEF Generating
<1> QED
  BY <1>3, <1>4, <1>5 DEF FlowInv, FnFlow

\* The parts of the invariant before a step.
LEMMA FlowAtTop ==
  ASSUME GenInv, FlowInv, Generating
  PROVE  /\ FnFlow(fn) /\ Lower(fn, stack, Depth - 1) /\ Stands(fn, stack, Depth, Top, Done)
         /\ ~OpenIf(Top) => \A i \in 1..Done : Top.vals[i] = Null \/ Available(fn, Top.vals[i], fn.cur)
         /\ Done > 0 => Latest = Null \/ Available(fn, Latest, fn.cur)
         /\ Available(fn, fn.cur, fn.cur) /\ Available(fn, Const, fn.cur)
         /\ ~Failed => \A b \in Blk(fn) \ Placed(fn) : \/ CoveredBy(stack, Depth - 1, b)
                                                       \/ OpenIf(Top) /\ b \in {Top.bbs[2], Top.bbs[3]}
<1>1. /\ stack # <<>> /\ Depth \in Nat /\ Depth >= 1 /\ Top = stack[Depth] /\ Depth = Len(stack)
      /\ Done = Len(Top.vals) /\ Done \in Nat
  BY AtTop DEF Top, Depth
<1>2. FnFlow(fn)
  BY DEF FlowInv, FnFlow
<1>3. Lower(fn, stack, Depth - 1) /\ Stands(fn, stack, Depth, Top, Done)
  BY <1>1 DEF FlowInv, StackFlow
<1>4. \A i \in Needed(Top, Done) : Available(fn, Top.vals[i], fn.cur)
  BY <1>3 DEF Stands, HeldAt
<1>5. ASSUME ~OpenIf(Top), NEW i \in 1..Done
      PROVE  Top.vals[i] = Null \/ Available(fn, Top.vals[i], fn.cur)
  BY <1>1, <1>4, <1>5 DEF Needed
<1>6. ASSUME Done > 0 PROVE Latest = Null \/ Available(fn, Latest, fn.cur)
  <2>1. Done \in 1..Done /\ Latest = Top.vals[Done]
    BY <1>1, <1>6 DEF Latest
  <2> QED
    BY <1>1, <1>4, <2>1 DEF Needed
<1>7. Available(fn, fn.cur, fn.cur) /\ Available(fn, Const, fn.cur)
  <2>1. fn.cur \in Placed(fn) /\ fn.cur \in Blk(fn)
    BY <1>2 DEF FnFlow, FlowGraph, Placed
  <2>2. Graph(Size(fn), Succ(fn))
    BY <1>2, IsGraph DEF FnFlow, FlowGraph
  <2>3. Doms(fn, fn.cur, fn.cur)
    BY <2>1, <2>2, DomSelf DEF Doms, Blk
  <2> QED
    BY <2>1, <2>3 DEF Available
<1>8. ASSUME ~Failed, NEW b \in Blk(fn) \ Placed(fn)
      PROVE  \/ CoveredBy(stack, Depth - 1, b)
             \/ OpenIf(Top) /\ b \in {Top.bbs[2], Top.bbs[3]}
  <2>1. PICK j \in 1..Depth : OpenIf(stack[j]) /\ b \in {stack[j].bbs[2], stack[j].bbs[3]}
    BY <1>1, <1>8 DEF FlowInv, Covered, CoveredBy
  <2>2. CASE j = Depth
    BY <1>1, <2>1, <2>2
  <2>3. CASE j # Depth
    <3>1. j \in 1..(Depth - 1)
      BY <1>1, <2>3
    <3> QED
      BY <2>1, <3>1 DEF CoveredBy
  <2> QED
    BY <2>2, <2>3
<1> QED
  BY <1>2, <1>3, <1>5, <1>6, <1>7, <1>8

-----------------------------------------------------------------------------
(* Actions that end no block. *)

\* Instructions at the insertion point, which use what is available there.
Adds(g, h) ==
  /\ FnOK(h) /\ SameFlow(g, h)
  /\ \A use \in h.uses : \/ use \in g.uses
                         \/ use[1] # Const /\ use[2] = g.cur /\ Available(g, use[1], g.cur)

\* They leave everything that was said as it was.
LEMMA AddsKeeps ==
  ASSUME GenInv, FlowInv, Generating, NEW h, Adds(fn, h)
  PROVE  /\ FnFlow(h) /\ Lower(h, stack, Depth - 1)
         /\ \A f, k : Stands(fn, stack, Depth, f, k) => Stands(h, stack, Depth, f, k)
         /\ \A a, b : Available(fn, a, b) => Available(h, a, b)
         /\ h.cur = fn.cur /\ Blk(h) = Blk(fn) /\ Placed(h) = Placed(fn)
<1>1. SameFlow(fn, h) /\ FnOK(h)
  BY DEF Adds
<1>2. FnFlow(fn) /\ Lower(fn, stack, Depth - 1)
  BY FlowAtTop
<1>3. FlowGraph(h) /\ UsesOK(h) /\ PhisOK(h)
  BY <1>1, <1>2, SameOK DEF FnFlow, Adds
<1>4. FnFlow(h)
  BY <1>1, <1>2, <1>3 DEF FnFlow, SameFlow
<1>5. \A f, k : Stands(fn, stack, Depth, f, k) => Stands(h, stack, Depth, f, k)
  BY <1>1, SameStands
<1>6. Lower(h, stack, Depth - 1)
  BY <1>1, <1>2, SameStands DEF Lower
<1>7. Blk(h) = Blk(fn) /\ Placed(h) = Placed(fn) /\ \A a, b : Available(fn, a, b) => Available(h, a, b)
  BY <1>1, SameGraph
<1>8. h.cur = fn.cur
  BY <1>1 DEF SameFlow
<1> QED
  BY <1>4, <1>5, <1>6, <1>7, <1>8

\* Adding nothing is one way to add.
LEMMA AddsNothing ==
  ASSUME NEW g, FnOK(g)
  PROVE  Adds(g, g)
BY DEF Adds, SameFlow

\* An activation that is no open if returns null or something available.
LEMMA PlainReturnFlow ==
  ASSUME GenInv, FlowInv, Generating, Step, NEW v \in Int, Return(v), Adds(fn, fn'),
         v = Null \/ (~OpenIf(Top) /\ Available(fn, v, fn.cur))
  PROVE  FlowInv'
<1>1. /\ FnFlow(fn') /\ Lower(fn', stack, Depth - 1)
      /\ v = Null \/ Available(fn', v, fn'.cur)
      /\ Blk(fn') = Blk(fn) /\ Placed(fn') = Placed(fn)
  BY AddsKeeps
<1>2. ASSUME ~Failed' PROVE \A b \in Blk(fn') \ Placed(fn') : CoveredBy(stack, Depth - 1, b)
  <2>1. ~OpenIf(Top)
    BY <1>2, NullReturned
  <2>2. ~Failed
    BY <1>2, FailedStays
  <2> QED
    BY <1>1, <2>1, <2>2, FlowAtTop
<1> QED
  BY <1>1, <1>2, AfterReturn

\* A frame of the innermost activation, with values that are available.
LEMMA StandsAtTop ==
  ASSUME GenInv, FlowInv, Generating, ~OpenIf(Top),
         NEW f, f.node = Top.node, f.bbs = Top.bbs,
         \A i \in 1..Len(f.vals) : f.vals[i] = Null \/ Available(fn, f.vals[i], fn.cur),
         NEW k
  PROVE  Stands(fn, stack, Depth, f, k)
<1>1. (Looping(f) <=> Looping(Top)) /\ ~OpenIf(f)
  BY DEF Looping, OpenIf
<1>2. Stands(fn, stack, Depth, Top, Done)
  BY FlowAtTop
<1>3. FrameOK(fn, f, k)
  BY <1>1, <1>2 DEF Stands, FrameOK, LoopOK
<1>4. HeldAt(fn, f, k, fn.cur)
  BY <1>1, <1>2 DEF Stands, HeldAt, Needed
<1> QED
  BY <1>1, <1>3, <1>4 DEF Stands

\* It calls a child,
LEMMA PlainDescendFlow ==
  ASSUME GenInv, FlowInv, Generating, Step, ~OpenIf(Top), UNCHANGED fn,
         NEW f \in Frame, f.node = Top.node, f.bbs = Top.bbs,
         \A i \in 1..Len(f.vals) : f.vals[i] = Null \/ Available(fn, f.vals[i], fn.cur),
         NEW k \in 1..Arity(f.node), Ast[f.node].kids[k] # NoNode, Descend(f, k)
  PROVE  FlowInv'
<1>1. /\ FnFlow(fn) /\ Lower(fn, stack, Depth - 1)
      /\ ~Failed => \A b \in Blk(fn) \ Placed(fn) : CoveredBy(stack, Depth - 1, b)
  BY FlowAtTop
<1>2. Stands(fn, stack, Depth, f, Waiting(f))
  BY StandsAtTop
<1>3. ~Failed' => ~Failed
  BY FailedStays
<1>4. fn' = fn
  OBVIOUS
<1> QED
  BY <1>1, <1>2, <1>3, <1>4, AfterDescend

\* the next one as a rule,
LEMMA NextChildFlow ==
  ASSUME GenInv, FlowInv, Generating, Step, ~OpenIf(Top), UNCHANGED fn,
         NEW k \in 1..Arity(Top.node), TopAst.kids[k] # NoNode, Descend(Top, k)
  PROVE  FlowInv'
<1>1. Top \in Frame /\ TopAst = Ast[Top.node] /\ Done = Len(Top.vals)
  BY AtTop
<1>2. \A i \in 1..Len(Top.vals) : Top.vals[i] = Null \/ Available(fn, Top.vals[i], fn.cur)
  BY <1>1, FlowAtTop
<1> QED
  BY <1>1, <1>2, PlainDescendFlow

\* or goes on.
LEMMA PlainReplaceFlow ==
  ASSUME GenInv, FlowInv, Generating, Step, ~OpenIf(Top), Adds(fn, fn'),
         NEW f \in Frame, f.node = Top.node, f.bbs = Top.bbs,
         \A i \in 1..Len(f.vals) : f.vals[i] = Null \/ Available(fn, f.vals[i], fn.cur),
         stack' = Append(Below, f)
  PROVE  FlowInv'
<1>1. /\ ~Failed => \A b \in Blk(fn) \ Placed(fn) : CoveredBy(stack, Depth - 1, b)
  BY FlowAtTop
<1>2. Stands(fn, stack, Depth, f, Len(f.vals))
  BY StandsAtTop
<1>3. /\ FnFlow(fn') /\ Lower(fn', stack, Depth - 1) /\ Stands(fn', stack, Depth, f, Len(f.vals))
      /\ Blk(fn') = Blk(fn) /\ Placed(fn') = Placed(fn)
  BY <1>2, AddsKeeps
<1>4. StackFlow(fn', stack')
  BY <1>3, FlowReplaces
<1>5. stack \in Seq(Frame) /\ stack # <<>> /\ Depth \in Nat /\ Depth >= 1
  BY AtTop
<1>6. /\ Len(stack') = Depth
      /\ \A j \in 1..(Depth - 1) : stack'[j] = stack[j] /\ j \in 1..Len(stack')
  BY <1>5, ReplaceShape
<1>7. ASSUME ~Failed' PROVE Covered(fn', stack')
  <2>1. \A b \in Blk(fn') \ Placed(fn') : CoveredBy(stack, Depth - 1, b)
    BY <1>1, <1>3, <1>7, FailedStays
  <2> QED
    BY <1>6, <2>1 DEF Covered, CoveredBy
<1>8. Generating'
  BY <1>5, <1>6 DEF Generating
<1> QED
  BY <1>3, <1>4, <1>7, <1>8 DEF FlowInv, FnFlow

-----------------------------------------------------------------------------
(* The instructions. *)

\* An if is open only once it has begun its branches.
LEMMA NotOpen ==
  ASSUME GenInv, Generating, TopAst.kind # "if" \/ Done <= 1
  PROVE  ~OpenIf(Top)
<1>1. Top.node \in Node /\ TopAst = Ast[Top.node] /\ Done = Len(Top.vals) /\ Done \in Nat
  BY AtTop
<1>2. CASE TopAst.kind # "if"
  BY <1>1, <1>2 DEF OpenIf
<1>3. CASE TopAst.kind = "if" /\ Done <= 1
  <2>1. BlocksHeld(Top.node, 1) = 0
    BY <1>1, <1>3 DEF BlocksHeld
  <2>2. Done = 0 \/ Done = 1
    <3>1. \A n \in Nat : n <= 1 => n = 0 \/ n = 1
      OBVIOUS
    <3> QED
      BY <1>1, <1>3, <3>1
  <2>3. GotValue(Top) \/ GoesOn(Top)
    BY DEF GenInv, StackInv
  <2>4. Fits(Top, 1)
    BY <1>1, <1>3, <2>2, <2>3 DEF GotValue, GoesOn
  <2>5. Len(Top.bbs) = 0
    BY <2>1, <2>4 DEF Fits
  <2> QED
    BY <2>5 DEF OpenIf
<1> QED
  BY <1>2, <1>3

\* An instruction,
LEMMA UseAdds ==
  ASSUME NEW g, FnOK(g), NEW V \in SUBSET Int, \A v \in V : Available(g, v, g.cur)
  PROVE  Adds(g, Use(g, V))
<1> DEFINE U == g.uses \cup {<<v, g.cur>> : v \in V \ {Const}}
           h == Use(g, V)
<1>1. FnOK(h) /\ h.cur = g.cur /\ h.blocks = g.blocks
  BY UseBuilds DEF Builds
<1>2. h = [g EXCEPT !.uses = U]
  BY DEF Use
<1>3. \A use \in U : \/ use \in g.uses
                     \/ use[1] # Const /\ use[2] = g.cur /\ Available(g, use[1], g.cur)
  OBVIOUS
<1> HIDE DEF U, h
<1>4. h.phis = g.phis /\ h.complete = g.complete /\ h.uses = U
  BY <1>2 DEF FnOK, FnRecord
<1>5. Adds(g, h)
  BY <1>1, <1>3, <1>4 DEF Adds, SameFlow
<1> QED
  BY <1>5 DEF h

\* a call,
LEMMA CallAdds ==
  ASSUME NEW g, FnOK(g), NEW f \in Fn, NEW n \in Nat
  PROVE  Adds(g, AddCall(g, f, n))
<1> DEFINE C == g.calls \cup {<<f, n>>}
           h == AddCall(g, f, n)
<1>1. FnOK(h)
  BY AddCallBuilds DEF Builds
<1>2. h = [g EXCEPT !.calls = C]
  BY DEF AddCall
<1> HIDE DEF C, h
<1>3. /\ h.phis = g.phis /\ h.complete = g.complete /\ h.uses = g.uses
      /\ h.blocks = g.blocks /\ h.cur = g.cur
  BY <1>2 DEF FnOK, FnRecord
<1>4. Adds(g, h)
  BY <1>1, <1>3 DEF Adds, SameFlow
<1> QED
  BY <1>4 DEF h

\* a reference to a variable,
LEMMA ResolveAdds ==
  ASSUME NEW g, FnOK(g), NEW n \in Node, NEW s \in Slot
  PROVE  Adds(g, Resolve(g, n, s))
<1> DEFINE S == g.slots \cup {<<n, s>>}
           h == Resolve(g, n, s)
<1>1. FnOK(h)
  BY ResolveKeeps
<1>2. h = [g EXCEPT !.slots = S]
  BY DEF Resolve
<1> HIDE DEF S, h
<1>3. /\ h.phis = g.phis /\ h.complete = g.complete /\ h.uses = g.uses
      /\ h.blocks = g.blocks /\ h.cur = g.cur
  BY <1>2 DEF FnOK, FnRecord
<1>4. Adds(g, h)
  BY <1>1, <1>3 DEF Adds, SameFlow
<1> QED
  BY <1>4 DEF h

\* and one after another.
LEMMA AddsTransitive ==
  ASSUME NEW f, NEW g, NEW h, Adds(f, g), Adds(g, h)
  PROVE  Adds(f, h)
<1>1. \A a, b : Available(g, a, b) <=> Available(f, a, b)
  BY SameGraph DEF Adds
<1> QED
  BY <1>1 DEF Adds, SameFlow

\* An instruction and a call, as the two kinds of operators emit them.
LEMMA UseCallAdds ==
  ASSUME NEW g, FnOK(g), NEW V \in SUBSET Int, \A v \in V : Available(g, v, g.cur),
         NEW f \in Fn, NEW n \in Nat
  PROVE  Adds(g, AddCall(Use(g, V), f, n))
<1> DEFINE h == Use(g, V)
<1>1. Adds(g, h) /\ FnOK(h)
  BY UseAdds DEF Adds
<1> HIDE DEF h
<1>2. Adds(h, AddCall(h, f, n))
  BY <1>1, CallAdds
<1>3. Adds(g, AddCall(h, f, n))
  BY <1>1, <1>2, AddsTransitive
<1> QED
  BY <1>3 DEF h

-----------------------------------------------------------------------------
(* One lemma per construct. *)

\* A failed child: the error is passed on.
LEMMA FailFlow ==
  ASSUME GenInv, FlowInv, Step, NEW kind, FailWith(kind)
  PROVE  FlowInv'
<1>1. Generating /\ Return(Null) /\ fn' = fn
  BY DEF FailWith, Generating
<1>2. Adds(fn, fn') /\ Null \in Int
  BY <1>1, AtTop, AddsNothing DEF Null
<1> QED
  BY <1>1, <1>2, PlainReturnFlow

\* Numbers and variables.
LEMMA LeafFlow ==
  ASSUME GenInv, FlowInv, Step, Number \/ Variable
  PROVE  FlowInv'
<1>1. Generating /\ TopAst.kind # "if"
  BY DEF Number, Variable, VariableLoad, VariableUnknown, At, Generating
<1>2. ~OpenIf(Top) /\ FnOK(fn) /\ Const \in Int /\ Null \in Int /\ fn.cur \in Int
      /\ Available(fn, Const, fn.cur) /\ Available(fn, fn.cur, fn.cur)
  <2>1. ~OpenIf(Top) /\ FnOK(fn)
    BY <1>1, NotOpen, AtTop
  <2>2. fn.cur \in Int
    BY <2>1 DEF FnOK, FnRecord
  <2> QED
    BY <1>1, <2>1, <2>2, FlowAtTop DEF Const, Null
<1>3. CASE Number
  <2>1. Return(Const) /\ Adds(fn, fn')
    BY <1>2, <1>3, AddsNothing DEF Number
  <2> QED
    BY <1>1, <1>2, <2>1, PlainReturnFlow
<1>4. CASE VariableUnknown
  <2>1. Return(Null) /\ Adds(fn, fn')
    BY <1>2, <1>4, AddsNothing DEF VariableUnknown
  <2> QED
    BY <1>1, <1>2, <2>1, PlainReturnFlow
<1>5. CASE VariableLoad
  <2>1. NamedValues[TopAst.name] \in Slot /\ Top.node \in Node
    BY <1>1, <1>5, AtTop, NamesAreFn DEF VariableLoad, At
  <2>2. Return(fn.cur) /\ fn' = Resolve(fn, Top.node, NamedValues[TopAst.name])
    BY <1>5 DEF VariableLoad
  <2>3. Adds(fn, fn')
    BY <1>2, <2>1, <2>2, ResolveAdds
  <2> QED
    BY <1>1, <1>2, <2>2, <2>3, PlainReturnFlow
<1> QED
  BY <1>3, <1>4, <1>5 DEF Variable

\* The value of the latest child, when it is one.
LEMMA LatestAvailable ==
  ASSUME GenInv, FlowInv, Generating, Done > 0, Latest # Null
  PROVE  {Latest} \in SUBSET Int /\ \A v \in {Latest} : Available(fn, v, fn.cur)
BY LatestInt, FlowAtTop

\* Unary operators.
LEMMA UnaryFlow ==
  ASSUME GenInv, FlowInv, Step, Unary
  PROVE  FlowInv'
<1>1. CASE FailWith("unary")
  BY <1>1, FailFlow
<1>2. SUFFICES ASSUME UnaryOperand \/ UnaryCall \/ UnaryUnknown PROVE FlowInv'
  BY <1>1 DEF Unary
<1>3. Generating /\ TopAst.kind = "unary"
  BY <1>2 DEF UnaryOperand, UnaryCall, UnaryUnknown, At, Generating
<1>4. /\ ~OpenIf(Top) /\ FnOK(fn) /\ Null \in Int /\ fn.cur \in Int
      /\ Available(fn, fn.cur, fn.cur) /\ Arity(Top.node) = 1 /\ TopAst = Ast[Top.node]
      /\ Top.node \in Node
  <2>1. ~OpenIf(Top) /\ FnOK(fn) /\ Top.node \in Node /\ TopAst = Ast[Top.node]
    BY <1>3, NotOpen, AtTop
  <2>2. fn.cur \in Int
    BY <2>1 DEF FnOK, FnRecord
  <2>3. Arity(Top.node) = 1
    BY <1>3, <2>1, NodeShape
  <2> QED
    BY <1>3, <2>1, <2>2, <2>3, FlowAtTop DEF Null
<1>5. CASE UnaryOperand
  <2>1. Done = 0 /\ Descend(Top, 1) /\ UNCHANGED fn
    BY <1>5 DEF UnaryOperand, At
  <2>2. 1 \in 1..Arity(Top.node) /\ TopAst.kids[1] # NoNode
    BY <1>3, <1>4, KidIsNode
  <2> QED
    BY <1>3, <1>4, <2>1, <2>2, NextChildFlow
<1>6. CASE UnaryUnknown
  <2>1. Return(Null) /\ Adds(fn, fn')
    BY <1>4, <1>6, AddsNothing DEF UnaryUnknown
  <2> QED
    BY <1>3, <1>4, <2>1, PlainReturnFlow
<1>7. CASE UnaryCall
  <2>1. /\ Done = 1 /\ Latest # Null /\ Return(fn.cur)
        /\ fn' = AddCall(Use(fn, {Latest}), UnaryFn(TopAst.name), 1)
    BY <1>7 DEF UnaryCall, At
  <2>2. UnaryFn(TopAst.name) \in Fn
    BY <1>3, NamesAreFn
  <2>3. Adds(fn, fn')
    BY <1>3, <1>4, <2>1, <2>2, LatestAvailable, UseCallAdds
  <2> QED
    BY <1>3, <1>4, <2>1, <2>3, PlainReturnFlow
<1> QED
  BY <1>2, <1>5, <1>6, <1>7

\* Binary operators.
LEMMA BinaryFlow ==
  ASSUME GenInv, FlowInv, Step, Binary
  PROVE  FlowInv'
<1>1. CASE AssignUndefined \/ BinaryAssertFails
  <2>1. UNCHANGED <<stack, result, NamedValues, TheModule, fn>>
    BY <1>1 DEF AssignUndefined, BinaryAssertFails
  <2>2. Failed' <=> Failed
    BY <2>1 DEF Failed, Depth
  <2> QED
    BY <2>1, <2>2 DEF FlowInv, Generating
<1>2. SUFFICES ASSUME ~AssignUndefined, ~BinaryAssertFails PROVE FlowInv'
  BY <1>1
<1>3. Generating /\ TopAst.kind = "binary"
  BY <1>2 DEF Binary, AssignEnter, AssignStore, AssignUnknown, BinaryLHS, BinaryRHS,
     BinaryBuiltin, BinaryUser, BinaryFail, At, Generating
<1>4. /\ ~OpenIf(Top) /\ FnOK(fn) /\ Null \in Int /\ fn.cur \in Int /\ Top \in Frame
      /\ Available(fn, fn.cur, fn.cur) /\ Available(fn, Const, fn.cur)
      /\ Arity(Top.node) = 2 /\ TopAst = Ast[Top.node] /\ Top.node \in Node
  <2>1. /\ ~OpenIf(Top) /\ FnOK(fn) /\ Top.node \in Node /\ TopAst = Ast[Top.node]
        /\ Top \in Frame
    BY <1>3, NotOpen, AtTop
  <2>2. fn.cur \in Int
    BY <2>1 DEF FnOK, FnRecord
  <2>3. Arity(Top.node) = 2
    BY <1>3, <2>1, NodeShape
  <2> QED
    BY <1>3, <2>1, <2>2, <2>3, FlowAtTop DEF Null
<1>5. \A k \in 1..2 : TopAst.kids[k] # NoNode
  BY <1>3, <1>4, KidIsNode
<1>6. ASSUME Return(Null), UNCHANGED fn PROVE FlowInv'
  <2>1. Adds(fn, fn')
    BY <1>4, <1>6, AddsNothing
  <2> QED
    BY <1>3, <1>4, <1>6, <2>1, PlainReturnFlow
<1>7. CASE AssignUnknown \/ BinaryFail
  BY <1>6, <1>7 DEF AssignUnknown, BinaryFail
<1>8. CASE AssignEnter
  <2> DEFINE f == [Top EXCEPT !.vals = <<Const>>]
  <2>1. Descend(f, 2) /\ UNCHANGED fn
    BY <1>8 DEF AssignEnter
  <2>2. f \in Frame /\ f.node = Top.node /\ f.bbs = Top.bbs /\ Len(f.vals) = 1 /\ f.vals[1] = Const
    <3> DEFINE vals == <<Const>>
    <3>1. vals \in Seq(Int) /\ Len(vals) = 1 /\ vals[1] = Const
      BY DEF Const
    <3> HIDE DEF vals
    <3>2. f = [Top EXCEPT !.vals = vals]
      BY DEF vals
    <3> HIDE DEF f
    <3>3. f \in Frame /\ f.node = Top.node /\ f.bbs = Top.bbs /\ f.vals = vals
      BY <1>4, <3>1, <3>2 DEF Frame
    <3> QED
      BY <3>1, <3>3
  <2> HIDE DEF f
  <2>3. \A i \in 1..Len(f.vals) : f.vals[i] = Null \/ Available(fn, f.vals[i], fn.cur)
    <3>1. \A i \in 1..1 : i = 1
      OBVIOUS
    <3> QED
      BY <1>4, <2>2, <3>1
  <2>4. 2 \in 1..Arity(f.node) /\ Ast[f.node].kids[2] # NoNode
    BY <1>4, <1>5, <2>2
  <2> QED
    BY <1>3, <1>4, <2>1, <2>2, <2>3, <2>4, PlainDescendFlow
<1>9. CASE AssignStore
  <2> DEFINE s == NamedValues[CastName(Lhs)]
             g == Resolve(fn, Lhs, s)
  <2>1. /\ Done = 2 /\ CastName(Lhs) \in Var /\ Return(Latest) /\ Latest # Null
        /\ fn' = Use(g, {Latest})
    BY <1>9 DEF AssignStore, At
  <2>2. Lhs \in Node
    BY <1>3, <1>4, KidIsNode DEF Lhs
  <2>3. s \in Slot
    BY <1>3, <2>1, AtTop
  <2>4. Adds(fn, g) /\ FnOK(g)
    BY <1>4, <2>2, <2>3, ResolveAdds DEF Adds
  <2> HIDE DEF g
  <2>5. {Latest} \in SUBSET Int /\ \A v \in {Latest} : Available(fn, v, fn.cur)
    BY <1>3, <2>1, LatestAvailable
  <2>6. \A v \in {Latest} : Available(g, v, g.cur)
    BY <1>3, <2>4, <2>5, AddsKeeps
  <2>7. Adds(g, fn')
    BY <2>1, <2>4, <2>5, <2>6, UseAdds
  <2>8. Adds(fn, fn')
    BY <2>4, <2>7, AddsTransitive
  <2> QED
    BY <1>3, <1>4, <2>1, <2>5, <2>8, PlainReturnFlow
<1>10. CASE BinaryLHS
  <2>1. Descend(Top, 1) /\ UNCHANGED fn /\ 1 \in 1..Arity(Top.node)
    BY <1>4, <1>10 DEF BinaryLHS
  <2> QED
    BY <1>3, <1>4, <1>5, <2>1, NextChildFlow
<1>11. CASE BinaryRHS
  <2>1. Descend(Top, 2) /\ UNCHANGED fn /\ 2 \in 1..Arity(Top.node)
    BY <1>4, <1>11 DEF BinaryRHS
  <2> QED
    BY <1>3, <1>4, <1>5, <2>1, NextChildFlow
<1>12. ASSUME BinaryBuiltin \/ BinaryUser
       PROVE  Operands \in SUBSET Int /\ \A v \in Operands : Available(fn, v, fn.cur)
  <2>1. Done = 2 /\ Null \notin Operands
    BY <1>12 DEF BinaryBuiltin, BinaryUser, At
  <2>2. Operands \in SUBSET Int
    BY <1>3, <2>1, OperandsInt
  <2>3. \A i \in 1..2 : Top.vals[i] = Null \/ Available(fn, Top.vals[i], fn.cur)
    BY <1>3, <1>4, <2>1, FlowAtTop
  <2> QED
    BY <2>1, <2>2, <2>3 DEF Operands
<1>13. CASE BinaryBuiltin
  <2>1. fn' = Use(fn, Operands) /\ Return(fn.cur)
    BY <1>13 DEF BinaryBuiltin
  <2>2. Adds(fn, fn')
    BY <1>4, <1>12, <1>13, <2>1, UseAdds
  <2> QED
    BY <1>3, <1>4, <2>1, <2>2, PlainReturnFlow
<1>14. CASE BinaryUser
  <2>1. fn' = AddCall(Use(fn, Operands), BinaryFn(TopAst.name), 2) /\ Return(fn.cur)
    BY <1>14 DEF BinaryUser
  <2>2. BinaryFn(TopAst.name) \in Fn
    BY <1>3, NamesAreFn
  <2>3. Adds(fn, fn')
    BY <1>4, <1>12, <1>14, <2>1, <2>2, UseCallAdds
  <2> QED
    BY <1>3, <1>4, <2>1, <2>3, PlainReturnFlow
<1> QED
  BY <1>2, <1>7, <1>8, <1>9, <1>10, <1>11, <1>13, <1>14 DEF Binary

\* Calls.
LEMMA CallFlow ==
  ASSUME GenInv, FlowInv, Step, Call
  PROVE  FlowInv'
<1>1. CASE FailWith("call")
  BY <1>1, FailFlow
<1>2. SUFFICES ASSUME CallReject \/ CallArgument \/ CallEmit PROVE FlowInv'
  BY <1>1 DEF Call
<1>3. Generating /\ TopAst.kind = "call"
  BY <1>2 DEF CallReject, CallArgument, CallEmit, At, Generating
<1>4. /\ ~OpenIf(Top) /\ FnOK(fn) /\ Null \in Int /\ fn.cur \in Int
      /\ Available(fn, fn.cur, fn.cur) /\ Done \in Nat /\ Arity(Top.node) = Len(TopAst.kids)
      /\ Arity(Top.node) \in Nat
  <2>1. /\ ~OpenIf(Top) /\ FnOK(fn) /\ Done \in Nat /\ Arity(Top.node) = Len(TopAst.kids)
        /\ Top.node \in Node
    BY <1>3, NotOpen, AtTop
  <2>2. fn.cur \in Int
    BY <2>1 DEF FnOK, FnRecord
  <2>3. Arity(Top.node) \in Nat
    BY <2>1, NodeShape
  <2> QED
    BY <1>3, <2>1, <2>2, <2>3, FlowAtTop DEF Null
<1>5. CASE CallReject
  <2>1. Return(Null) /\ Adds(fn, fn')
    BY <1>4, <1>5, AddsNothing DEF CallReject
  <2> QED
    BY <1>3, <1>4, <2>1, PlainReturnFlow
<1>6. CASE CallArgument
  <2>1. Done < Arity(Top.node) /\ Descend(Top, Done + 1) /\ UNCHANGED fn
    BY <1>4, <1>6 DEF CallArgument
  <2>2. Done + 1 \in 1..Arity(Top.node)
    BY <1>4, <2>1
  <2>3. TopAst.kids[Done + 1] # NoNode
    BY <1>3, <2>1, NextIsNode
  <2> QED
    BY <1>3, <1>4, <2>1, <2>2, <2>3, NextChildFlow
<1>7. CASE CallEmit
  <2> DEFINE V == {Top.vals[i] : i \in 1..Done}
  <2>1. /\ fn' = AddCall(Use(fn, V), CalleeFn, Done) /\ Return(fn.cur)
        /\ Done = 0 \/ Latest # Null
    BY <1>7 DEF CallEmit, At
  <2>2. CalleeFn \in Fn
    BY <1>3, NamesAreFn
  <2>3. V \in SUBSET Int
    BY <1>3, AtTop
  <2>4. \A v \in V : Available(fn, v, fn.cur)
    <3>1. ~NullIn(Top)
      <4>1. ~CarriesOn(Top.node)
        BY <1>3, AtTop DEF CarriesOn
      <4> QED
        BY <1>3, <2>1, <4>1, NoneFailed
    <3>2. \A i \in 1..Done : Top.vals[i] # Null
      BY <1>3, <3>1, AtTop DEF NullIn
    <3> QED
      BY <1>3, <1>4, <3>2, FlowAtTop
  <2> HIDE DEF V
  <2>5. Adds(fn, fn')
    BY <1>4, <2>1, <2>2, <2>3, <2>4, UseCallAdds
  <2> QED
    BY <1>3, <1>4, <2>1, <2>5, PlainReturnFlow
<1> QED
  BY <1>2, <1>5, <1>6, <1>7

\* VarIn.
LEMMA VarInFlow ==
  ASSUME GenInv, FlowInv, Step, VarIn
  PROVE  FlowInv'
<1>1. CASE FailWith("varin")
  BY <1>1, FailFlow
<1>2. SUFFICES ASSUME TopAst.kind = "varin", Generating,
                      VarInitialiser \/ VarDefault \/ VarRegister \/ VarBody \/ VarLeave
               PROVE  FlowInv'
  BY <1>1 DEF VarIn, VarInitialiser, VarDefault, VarRegister, VarBody, VarLeave, InVarIn, Generating
<1> DEFINE n == Top.node
           names == Ast[n].names
<1>3. /\ Top \in Frame /\ n \in Node /\ TopAst = Ast[n]
      /\ Top.vals \in Seq(Int) /\ Top.old \in Seq(Slot) /\ Len(Top.old) \in Nat
      /\ Done = Len(Top.vals) /\ Done \in Nat /\ NamedValues \in [Var -> Slot] /\ FnOK(fn)
  BY <1>2, AtTop
<1>4. /\ names \in Seq(Var) /\ Len(names) \in Nat /\ Arity(n) = Len(names) + 1
      /\ Arity(n) \in Nat
  BY <1>2, <1>3, NodeShape
<1>5. ~OpenIf(Top) /\ Available(fn, Const, fn.cur)
      /\ \A i \in 1..Done : Top.vals[i] = Null \/ Available(fn, Top.vals[i], fn.cur)
  BY <1>2, NotOpen, FlowAtTop
<1>6. \/ Len(Top.old) = Done /\ Done < Arity(n)
      \/ Len(Top.old) = Done - 1 /\ Done <= Arity(n)
  BY <1>2, VarInCount
<1>7. ASSUME VarInitialiser \/ VarBody PROVE FlowInv'
  <2>1. /\ Done = Len(Top.old) /\ TopAst.kids[Done + 1] # NoNode
        /\ Descend(Top, Done + 1) /\ UNCHANGED fn
    <3>1. CASE VarInitialiser
      BY <3>1 DEF VarInitialiser, NextName
    <3>2. CASE VarBody
      <4>1. /\ Done = Len(Top.old) /\ Done = Len(names)
            /\ Descend(Top, Done + 1) /\ UNCHANGED fn
        BY <1>3, <3>2 DEF VarBody, NextName, Registered
      <4>2. Done + 1 \in 1..Arity(n) /\ ~(Done + 1 < Arity(n))
        BY <1>4, <4>1
      <4> QED
        BY <1>2, <1>3, <4>1, <4>2, KidIsNode
    <3> QED
      BY <1>7, <3>1, <3>2
  <2>2. Done + 1 \in 1..Arity(n)
    BY <1>3, <1>4, <1>6, <2>1
  <2> QED
    BY <1>2, <1>5, <2>1, <2>2, NextChildFlow
<1>8. ASSUME VarDefault \/ VarRegister PROVE FlowInv'
  <2> DEFINE b == Len(Top.old)
             v == names[b + 1]
             old == Append(Top.old, NamedValues[v])
  <2>1. PICK vals : /\ ~Registered /\ Bind(vals)
                    /\ vals = Append(Top.vals, Const) \/ vals = Top.vals
    BY <1>8 DEF VarDefault, VarRegister
  <2> DEFINE f == [Top EXCEPT !.vals = vals, !.old = old]
  <2>2. v \in Var
    <3>1. b \in Nat /\ b # Len(names)
      BY <1>3, <2>1 DEF Registered
    <3> HIDE DEF b, names
    <3>2. b <= Len(names)
      BY <1>3, <1>4, <1>6, <3>1 DEF b
    <3>3. b + 1 \in 1..Len(names)
      BY <1>4, <3>1, <3>2
    <3> QED
      BY <1>4, <3>3
  <2>3. stack' = Append(Below, f)
    BY <1>3, <2>1 DEF Bind, NextName
  <2>4. old \in Seq(Slot)
    <3>1. NamedValues[v] \in Slot
      BY <1>3, <2>2
    <3> QED
      BY <1>3, <3>1, AppendProperties
  <2>5. /\ vals \in Seq(Int)
        /\ \A i \in 1..Len(vals) : vals[i] = Null \/ Available(fn, vals[i], fn.cur)
    <3>1. Const \in Int
      BY DEF Const
    <3> DEFINE w == Append(Top.vals, Const)
    <3>2. /\ w \in Seq(Int) /\ Len(w) = Done + 1 /\ w[Done + 1] = Const
          /\ \A i \in 1..Done : w[i] = Top.vals[i]
      BY <1>3, <3>1, AppendProperties
    <3>3. vals = w \/ vals = Top.vals
      BY <2>1
    <3> HIDE DEF w
    <3>4. \A i \in 1..(Done + 1) : i \in 1..Done \/ i = Done + 1
      BY <1>3
    <3>5. \A i \in 1..Len(w) : w[i] = Null \/ Available(fn, w[i], fn.cur)
      BY <1>5, <3>2, <3>4
    <3> QED
      BY <1>3, <1>5, <3>2, <3>3, <3>5
  <2> HIDE DEF old
  <2>6. f \in Frame /\ f.node = n /\ f.bbs = Top.bbs /\ f.vals = vals
    BY <1>3, <2>4, <2>5 DEF Frame
  <2> HIDE DEF f
  <2>7. Adds(fn, fn')
    <3>1. CASE VarDefault
      BY <1>3, <3>1, AddsNothing DEF VarDefault
    <3>2. CASE VarRegister
      <4>1. Done > 0 /\ Latest # Null /\ fn' = Use(fn, {Latest})
        BY <1>3, <3>2 DEF VarRegister, NextName
      <4> QED
        BY <1>2, <1>3, <4>1, LatestAvailable, UseAdds
    <3> QED
      BY <1>8, <3>1, <3>2
  <2> QED
    BY <1>2, <1>5, <2>3, <2>5, <2>6, <2>7, PlainReplaceFlow
<1>9. CASE VarLeave
  <2>1. Done > 0 /\ Latest # Null /\ Return(Latest) /\ UNCHANGED fn
    BY <1>3, <1>4, <1>9 DEF VarLeave
  <2>2. Latest \in Int /\ Available(fn, Latest, fn.cur)
    BY <1>2, <2>1, LatestAvailable
  <2>3. Adds(fn, fn')
    BY <1>3, <2>1, AddsNothing
  <2> QED
    BY <1>2, <1>5, <2>1, <2>2, <2>3, PlainReturnFlow
<1> QED
  BY <1>2, <1>7, <1>8, <1>9

-----------------------------------------------------------------------------
(* The blocks that are added, ended and placed. *)

\* A step that adds neither PHIs nor uses; one that leaves block b alone.
SameRest(g, h) == h.phis = g.phis /\ h.uses = g.uses /\ h.complete = g.complete
SameBlock(g, h, b) == h.blocks[b] = g.blocks[b]

\* An instruction.
LEMMA UseEffect ==
  ASSUME NEW g, FnOK(g), NEW V \in SUBSET Int, NEW h, h = Use(g, V)
  PROVE  /\ FnOK(h) /\ h.blocks = g.blocks /\ h.cur = g.cur
         /\ h.phis = g.phis /\ h.complete = g.complete
         /\ h.uses = g.uses \cup {<<v, g.cur>> : v \in V \ {Const}}
<1> DEFINE U == g.uses \cup {<<v, g.cur>> : v \in V \ {Const}}
<1>1. FnOK(h) /\ h.cur = g.cur /\ h.blocks = g.blocks
  BY UseBuilds DEF Builds
<1>2. h = [g EXCEPT !.uses = U]
  BY DEF Use
<1> HIDE DEF U
<1>3. h.phis = g.phis /\ h.complete = g.complete /\ h.uses = U
  BY <1>2 DEF FnOK, FnRecord
<1> QED
  BY <1>1, <1>3 DEF U

\* A new list of blocks.
LEMMA BlocksEffect ==
  ASSUME NEW g, FnOK(g), NEW B, NEW h, h = [g EXCEPT !.blocks = B]
  PROVE  h.blocks = B /\ h.cur = g.cur /\ SameRest(g, h)
BY DEF FnOK, FnRecord, SameRest

\* A new block.
LEMMA AddBlockEffect ==
  ASSUME NEW g, FnOK(g), NEW placed \in BOOLEAN, NEW h, h = AddBlock(g, placed)
  PROVE  /\ FnOK(h) /\ Size(h) = Size(g) + 1 /\ h.cur = g.cur /\ SameRest(g, h)
         /\ \A b \in Blk(g) : SameBlock(g, h, b)
         /\ h.blocks[Size(g) + 1].term = <<>> /\ h.blocks[Size(g) + 1].placed = placed
<1> DEFINE e == EmptyBlock(placed)
           B == Append(g.blocks, e)
<1>1. FnOK(h)
  BY AddBlockBuilds DEF Builds
<1>2. h = [g EXCEPT !.blocks = B]
  BY DEF AddBlock
<1>3. e.term = <<>> /\ e.placed = placed /\ e \in Block
  BY DEF EmptyBlock, Block
<1>4. g.blocks \in Seq(Block)
  BY DEF FnOK, FnRecord
<1> HIDE DEF e
<1>5. /\ Len(B) = Len(g.blocks) + 1 /\ B[Len(g.blocks) + 1] = e
      /\ \A b \in 1..Len(g.blocks) : B[b] = g.blocks[b]
  BY <1>3, <1>4, AppendProperties
<1> HIDE DEF B
<1>6. h.blocks = B /\ h.cur = g.cur /\ SameRest(g, h)
  BY <1>2, BlocksEffect
<1> QED
  BY <1>1, <1>3, <1>5, <1>6 DEF Size, Blk, SameBlock

\* A terminator behind an open block.
LEMMA BrEffect ==
  ASSUME NEW g, FnOK(g), NEW T \in SUBSET Nat, g.blocks[g.cur].term = <<>>, NEW h, h = Br(g, T)
  PROVE  /\ FnOK(h) /\ Size(h) = Size(g) /\ h.cur = g.cur /\ SameRest(g, h)
         /\ \A b \in Blk(g) \ {g.cur} : SameBlock(g, h, b)
         /\ h.blocks[g.cur].term = <<T>> /\ h.blocks[g.cur].placed = g.blocks[g.cur].placed
<1> DEFINE c == g.cur
           t == Append(g.blocks[c].term, T)
           e == [g.blocks[c] EXCEPT !.term = t]
           B == [g.blocks EXCEPT ![c] = e]
<1>1. FnOK(h)
  BY BrBuilds DEF Builds
<1>2. h = [g EXCEPT !.blocks = B]
  BY DEF Br
<1>3. t = <<T>>
  OBVIOUS
<1>4. g.blocks \in Seq(Block) /\ c \in 1..Len(g.blocks)
  BY DEF FnOK, FnRecord
<1> HIDE DEF t
<1>5. e.term = t /\ e.placed = g.blocks[c].placed
  <2>1. g.blocks[c] \in Block
    BY <1>4
  <2> QED
    BY <2>1 DEF Block
<1> HIDE DEF e
<1>6. Len(B) = Len(g.blocks) /\ B[c] = e /\ \A b \in 1..Len(g.blocks) \ {c} : B[b] = g.blocks[b]
  BY <1>4
<1> HIDE DEF B
<1>7. h.blocks = B /\ h.cur = g.cur /\ SameRest(g, h)
  BY <1>2, BlocksEffect
<1> QED
  BY <1>1, <1>3, <1>5, <1>6, <1>7 DEF Size, Blk, SameBlock

\* A block is placed.
LEMMA PlaceEffect ==
  ASSUME NEW g, FnOK(g), NEW i \in Blk(g), NEW h, h = Place(g, i)
  PROVE  /\ FnOK(h) /\ Size(h) = Size(g) /\ h.cur = g.cur /\ SameRest(g, h)
         /\ \A b \in Blk(g) \ {i} : SameBlock(g, h, b)
         /\ h.blocks[i].term = g.blocks[i].term /\ h.blocks[i].placed = TRUE
<1> DEFINE e == [g.blocks[i] EXCEPT !.placed = TRUE]
           B == [g.blocks EXCEPT ![i] = e]
<1>1. i \in 1..Len(g.blocks)
  BY DEF Blk, Size
<1>2. FnOK(h)
  BY <1>1, PlaceBuilds DEF Builds
<1>3. h = [g EXCEPT !.blocks = B]
  BY DEF Place
<1>4. g.blocks \in Seq(Block)
  BY DEF FnOK, FnRecord
<1>5. e.term = g.blocks[i].term /\ e.placed = TRUE
  <2>1. g.blocks[i] \in Block
    BY <1>1, <1>4
  <2> QED
    BY <2>1 DEF Block
<1> HIDE DEF e
<1>6. Len(B) = Len(g.blocks) /\ B[i] = e /\ \A b \in 1..Len(g.blocks) \ {i} : B[b] = g.blocks[b]
  BY <1>1, <1>4
<1> HIDE DEF B
<1>7. h.blocks = B /\ h.cur = g.cur /\ SameRest(g, h)
  BY <1>3, BlocksEffect
<1> QED
  BY <1>2, <1>5, <1>6, <1>7 DEF Size, Blk, SameBlock

\* The insertion point moves.
LEMMA SetInsertPointEffect ==
  ASSUME NEW g, FnOK(g), NEW i \in Blk(g), NEW h, h = SetInsertPoint(g, i)
  PROVE  FnOK(h) /\ h.blocks = g.blocks /\ h.cur = i /\ SameRest(g, h)
<1>1. i \in 1..Len(g.blocks)
  BY DEF Blk, Size
<1>2. FnOK(h)
  BY <1>1, SetInsertPointBuilds DEF Builds
<1>3. h = [g EXCEPT !.cur = i]
  BY DEF SetInsertPoint
<1>4. h.blocks = g.blocks /\ h.cur = i /\ SameRest(g, h)
  BY <1>3 DEF FnOK, FnRecord, SameRest
<1> QED
  BY <1>2, <1>4

\* A PHI node.
LEMMA PhiEffect ==
  ASSUME NEW g, FnOK(g), NEW phi \in [blk : Nat, in : SUBSET (Int \X Nat)],
         NEW h, h = [g EXCEPT !.phis = @ \cup {phi}]
  PROVE  /\ FnOK(h) /\ h.blocks = g.blocks /\ h.cur = g.cur /\ h.complete = g.complete
         /\ h.uses = g.uses /\ h.phis = g.phis \cup {phi}
<1> DEFINE P == g.phis \cup {phi}
<1>1. FnOK(h)
  BY AddPhiBuilds DEF Builds
<1>2. h = [g EXCEPT !.phis = P]
  OBVIOUS
<1> HIDE DEF P
<1>3. /\ h.blocks = g.blocks /\ h.cur = g.cur /\ h.complete = g.complete
      /\ h.uses = g.uses /\ h.phis = P
  BY <1>2 DEF FnOK, FnRecord
<1> QED
  BY <1>1, <1>3 DEF P

\* The insertion point of a function that is not complete is open.
LEMMA OpenEnd ==
  ASSUME NEW g, FnOK(g), FlowGraph(g), ~g.complete
  PROVE  /\ g.blocks[g.cur].term = <<>> /\ g.cur \in Blk(g)
         /\ \A b \in Blk(g) \ Placed(g) : g.blocks[b].term = <<>>
<1>1. \A b \in Blk(g) : Terminators(g, b) = 0 => g.blocks[b].term = <<>>
  <2> TAKE b \in Blk(g)
  <2>1. g.blocks[b].term \in Seq(SUBSET Nat)
    BY Parts
  <2> QED
    BY <2>1 DEF Terminators
<1>2. g.cur \in Blk(g)
  BY Parts
<1> QED
  BY <1>1, <1>2 DEF FlowGraph

\* The jump into the then branch.
LEMMA ThenJumps ==
  ASSUME NEW g, FnOK(g), FlowGraph(g), ~g.complete, NEW v \in Int, NEW n, n = Size(g), NEW h,
         h = SetInsertPoint(Br(Use(ThreeBlocks(g), {v}), {n + 1, n + 2}), n + 1)
  PROVE  /\ FnOK(h) /\ Jumps(g, h, {n + 1, n + 2}, n + 3) /\ h.cur = n + 1 /\ h.phis = g.phis
         /\ h.uses = g.uses \cup {<<x, g.cur>> : x \in {v} \ {Const}}
<1> DEFINE T == {n + 1, n + 2}
           x == AddBlock(g, TRUE)
           y == AddBlock(x, FALSE)
           z == AddBlock(y, FALSE)
           u == Use(z, {v})
           b == Br(u, T)
<1>1. n \in Nat /\ g.cur \in Blk(g) /\ g.blocks[g.cur].term = <<>> /\ TRUE \in BOOLEAN /\ FALSE \in BOOLEAN
  BY Parts, OpenEnd
<1>2. z = ThreeBlocks(g)
  BY DEF ThreeBlocks
<1>3. h = SetInsertPoint(b, n + 1)
  BY <1>2
<1>4. /\ FnOK(x) /\ Size(x) = n + 1 /\ x.cur = g.cur /\ SameRest(g, x)
      /\ \A c \in Blk(g) : SameBlock(g, x, c)
      /\ x.blocks[n + 1].term = <<>> /\ x.blocks[n + 1].placed = TRUE
  BY <1>1, AddBlockEffect
<1> HIDE DEF x
<1>5. /\ FnOK(y) /\ Size(y) = (n + 1) + 1 /\ y.cur = x.cur /\ SameRest(x, y)
      /\ \A c \in Blk(x) : SameBlock(x, y, c)
      /\ y.blocks[(n + 1) + 1].term = <<>> /\ y.blocks[(n + 1) + 1].placed = FALSE
  <2>1. y = AddBlock(x, FALSE)
    OBVIOUS
  <2> HIDE DEF y
  <2>2. /\ FnOK(y) /\ Size(y) = Size(x) + 1 /\ y.cur = x.cur /\ SameRest(x, y)
        /\ \A c \in Blk(x) : SameBlock(x, y, c)
        /\ y.blocks[Size(x) + 1].term = <<>> /\ y.blocks[Size(x) + 1].placed = FALSE
    BY <1>4, <2>1, AddBlockEffect
  <2> QED
    BY <1>4, <2>2
<1> HIDE DEF y
<1>6. /\ FnOK(z) /\ Size(z) = ((n + 1) + 1) + 1 /\ z.cur = y.cur /\ SameRest(y, z)
      /\ \A c \in Blk(y) : SameBlock(y, z, c)
      /\ z.blocks[((n + 1) + 1) + 1].term = <<>> /\ z.blocks[((n + 1) + 1) + 1].placed = FALSE
  <2>1. z = AddBlock(y, FALSE)
    OBVIOUS
  <2> HIDE DEF z
  <2>2. /\ FnOK(z) /\ Size(z) = Size(y) + 1 /\ z.cur = y.cur /\ SameRest(y, z)
        /\ \A c \in Blk(y) : SameBlock(y, z, c)
        /\ z.blocks[Size(y) + 1].term = <<>> /\ z.blocks[Size(y) + 1].placed = FALSE
    BY <1>5, <2>1, AddBlockEffect
  <2> QED
    BY <1>5, <2>2
<1> HIDE DEF z
<1>7. /\ FnOK(u) /\ u.blocks = z.blocks /\ u.cur = z.cur /\ u.phis = z.phis
      /\ u.complete = z.complete
      /\ u.uses = z.uses \cup {<<w, z.cur>> : w \in {v} \ {Const}}
  <2>1. {v} \in SUBSET Int
    OBVIOUS
  <2> QED
    BY <1>6, <2>1, UseEffect
<1> HIDE DEF u
<1>8. (n + 1) + 1 = n + 2 /\ ((n + 1) + 1) + 1 = n + 3 /\ T \in SUBSET Nat
  BY <1>1
<1>9. /\ \A c \in Blk(g) : c \in Blk(x) /\ c \in Blk(y) /\ c \in Blk(z)
      /\ n + 1 \in Blk(x) /\ n + 1 \in Blk(y) /\ n + 2 \in Blk(y)
  BY <1>1, <1>4, <1>5, <1>6 DEF Blk
<1>10. /\ u.cur = g.cur /\ Size(u) = n + 3
       /\ \A c \in Blk(g) : u.blocks[c] = g.blocks[c]
       /\ u.blocks[n + 1].term = <<>> /\ u.blocks[n + 1].placed = TRUE
       /\ u.blocks[n + 2].term = <<>> /\ u.blocks[n + 2].placed = FALSE
       /\ u.blocks[n + 3].term = <<>> /\ u.blocks[n + 3].placed = FALSE
  BY <1>4, <1>5, <1>6, <1>7, <1>8, <1>9 DEF SameBlock, Size
<1>11. u.blocks[u.cur].term = <<>>
  BY <1>1, <1>10
<1>12. /\ FnOK(b) /\ Size(b) = Size(u) /\ b.cur = u.cur /\ SameRest(u, b)
       /\ \A c \in Blk(u) \ {u.cur} : SameBlock(u, b, c)
       /\ b.blocks[u.cur].term = <<T>> /\ b.blocks[u.cur].placed = u.blocks[u.cur].placed
  BY <1>7, <1>8, <1>11, BrEffect
<1> HIDE DEF b
<1>13. FnOK(h) /\ h.blocks = b.blocks /\ h.cur = n + 1 /\ SameRest(b, h)
  <2>1. n + 1 \in Blk(b)
    BY <1>1, <1>10, <1>12 DEF Blk
  <2> QED
    BY <1>3, <1>12, <2>1, SetInsertPointEffect
<1>14. /\ h.phis = g.phis /\ h.complete = g.complete
       /\ h.uses = g.uses \cup {<<w, g.cur>> : w \in {v} \ {Const}}
  <2>1. /\ z.phis = g.phis /\ z.complete = g.complete /\ z.uses = g.uses /\ z.cur = g.cur
    BY <1>4, <1>5, <1>6 DEF SameRest
  <2>2. /\ h.phis = u.phis /\ h.complete = u.complete /\ h.uses = u.uses
    BY <1>12, <1>13 DEF SameRest
  <2>3. u.uses = g.uses \cup {<<w, g.cur>> : w \in {v} \ {Const}}
    BY <1>7, <2>1
  <2> QED
    BY <1>7, <2>1, <2>2, <2>3
<1>15. /\ Size(h) = n + 3 /\ h.blocks[g.cur].term = <<T>>
       /\ h.blocks[g.cur].placed = g.blocks[g.cur].placed
       /\ \A c \in Blk(u) \ {g.cur} : h.blocks[c] = u.blocks[c]
  BY <1>1, <1>10, <1>12, <1>13 DEF Size, SameBlock
<1>16. /\ \A c \in Blk(g) : c \in Blk(u) /\ c # n + 1
       /\ \A c \in (n + 1)..(n + 3) : c \in Blk(u) /\ c \notin Blk(g)
       /\ \A c \in (n + 1)..(n + 3) : c = n + 1 \/ c = n + 2 \/ c = n + 3
       /\ n + 1 \in 1..(n + 3) /\ n <= n + 3 /\ n + 3 \in Nat /\ n + 2 # n + 1 /\ n + 3 # n + 1
       /\ T \subseteq 1..(n + 3)
  BY <1>1, <1>10 DEF Blk
<1>17. \A c \in Blk(g) \ {g.cur} : h.blocks[c] = g.blocks[c]
  <2> TAKE c \in Blk(g) \ {g.cur}
  <2>1. c \in Blk(u) \ {g.cur}
    BY <1>16
  <2>2. h.blocks[c] = u.blocks[c]
    BY <1>15, <2>1
  <2> QED
    BY <1>10, <2>2
<1>18. \A c \in Blk(g) : h.blocks[c].placed <=> g.blocks[c].placed \/ c = h.cur
  <2> TAKE c \in Blk(g)
  <2>1. c # h.cur
    BY <1>13, <1>16
  <2>2. h.blocks[c].placed = g.blocks[c].placed
    BY <1>15, <1>17
  <2> QED
    BY <2>1, <2>2
<1>19. \A c \in (n + 1)..(n + 3) : h.blocks[c].term = <<>> /\ (h.blocks[c].placed <=> c = h.cur)
  <2> TAKE c \in (n + 1)..(n + 3)
  <2>1. c \in Blk(u) \ {g.cur}
    BY <1>1, <1>16
  <2>2. h.blocks[c] = u.blocks[c]
    BY <1>15, <2>1
  <2>3. c = n + 1 \/ c = n + 2 \/ c = n + 3
    BY <1>16
  <2>4. u.blocks[c].term = <<>> /\ (u.blocks[c].placed = TRUE <=> c = n + 1)
    BY <1>1, <1>10, <1>16, <2>3
  <2>5. u.blocks[c].placed \in {TRUE, FALSE}
    BY <1>10, <2>3
  <2> QED
    BY <1>13, <2>2, <2>4, <2>5
<1>20. h.cur \notin Placed(g)
  BY <1>13, <1>16 DEF Placed
<1> HIDE DEF T
<1>21. Jumps(g, h, T, n + 3)
  BY <1>13, <1>14, <1>15, <1>16, <1>17, <1>18, <1>19, <1>20 DEF Jumps
<1> QED
  BY <1>13, <1>14, <1>21 DEF T

\* The jumps of an if to its merge block.
LEMMA PlaceJumps ==
  ASSUME NEW g, FnOK(g), FlowGraph(g), ~g.complete, NEW m \in Blk(g),
         NEW i \in Blk(g) \ Placed(g), NEW h, h = SetInsertPoint(Place(Br(g, {m}), i), i)
  PROVE  FnOK(h) /\ Jumps(g, h, {m}, Size(g)) /\ h.cur = i /\ SameRest(g, h)
<1> DEFINE T == {m}
           b == Br(g, T)
           p == Place(b, i)
<1>1. Size(g) \in Nat /\ g.cur \in Placed(g) /\ g.cur \in Blk(g) /\ g.blocks[g.cur].term = <<>>
  BY Parts, OpenEnd DEF FlowGraph
<1>2. T \in SUBSET Nat /\ T \subseteq 1..Size(g)
  BY <1>1 DEF Blk
<1>3. /\ FnOK(b) /\ Size(b) = Size(g) /\ b.cur = g.cur /\ SameRest(g, b)
      /\ \A c \in Blk(g) \ {g.cur} : SameBlock(g, b, c)
      /\ b.blocks[g.cur].term = <<T>> /\ b.blocks[g.cur].placed = g.blocks[g.cur].placed
  BY <1>1, <1>2, BrEffect
<1>4. h = SetInsertPoint(p, i)
  OBVIOUS
<1> HIDE DEF b
<1>5. Blk(b) = Blk(g)
  BY <1>3 DEF Blk
<1>6. /\ FnOK(p) /\ Size(p) = Size(b) /\ p.cur = b.cur /\ SameRest(b, p)
      /\ \A c \in Blk(b) \ {i} : SameBlock(b, p, c)
      /\ p.blocks[i].term = b.blocks[i].term /\ p.blocks[i].placed = TRUE
  BY <1>3, <1>5, PlaceEffect
<1> HIDE DEF p
<1>7. FnOK(h) /\ h.blocks = p.blocks /\ h.cur = i /\ SameRest(p, h)
  <2>1. i \in Blk(p)
    BY <1>5, <1>6 DEF Blk
  <2> QED
    BY <1>4, <1>6, <2>1, SetInsertPointEffect
<1>8. SameRest(g, h) /\ Size(h) = Size(g)
  BY <1>3, <1>6, <1>7 DEF SameRest, Size
<1>9. i # g.cur /\ ~g.blocks[i].placed
  BY <1>1 DEF Placed
<1>10. /\ h.blocks[g.cur].term = <<T>> /\ h.blocks[g.cur].placed = g.blocks[g.cur].placed
       /\ h.blocks[i].term = g.blocks[i].term /\ h.blocks[i].placed = TRUE
       /\ \A c \in Blk(g) \ {g.cur, i} : h.blocks[c] = g.blocks[c]
  BY <1>1, <1>3, <1>5, <1>6, <1>7, <1>9 DEF SameBlock
<1>11. \A c \in Blk(g) \ {g.cur} : h.blocks[c].term = g.blocks[c].term
  BY <1>10
<1>12. \A c \in Blk(g) : h.blocks[c].placed <=> g.blocks[c].placed \/ c = h.cur
  BY <1>7, <1>9, <1>10
<1>13. \A c \in (Size(g) + 1)..Size(g) : FALSE
  BY <1>1
<1>14. h.cur \in 1..Size(g) /\ Size(g) <= Size(g)
  BY <1>1, <1>7 DEF Blk
<1> HIDE DEF T
<1>15. Jumps(g, h, T, Size(g))
  BY <1>1, <1>2, <1>7, <1>8, <1>10, <1>11, <1>12, <1>13, <1>14 DEF Jumps, SameRest
<1> QED
  BY <1>7, <1>8, <1>15 DEF T

\* A for jumps from g to a new block n, having used the values V.
LoopJump(g, V, T, n) == SetInsertPoint(Br(AddBlock(Use(g, V), TRUE), T), n)
LoopReady(g, V, T, n) == /\ FnOK(g) /\ FlowGraph(g) /\ ~g.complete
                         /\ V \in SUBSET Int /\ n = Size(g) + 1 /\ T \in SUBSET (1..n)
LoopJumped(g, h, V, T, n) ==
  /\ FnOK(h) /\ Jumps(g, h, T, n) /\ h.cur = n /\ h.phis = g.phis
  /\ h.uses = g.uses \cup {<<v, g.cur>> : v \in V \ {Const}}

\* The jumps of a for, each to a new block.
LEMMA LoopJumpsAhead ==
  ASSUME NEW g, FnOK(g), FlowGraph(g), ~g.complete, NEW V \in SUBSET Int, NEW n, n = Size(g) + 1,
         NEW T \in SUBSET (1..n), NEW h,
         h = SetInsertPoint(Br(AddBlock(Use(g, V), TRUE), T), n)
  PROVE  LoopJumped(g, h, V, T, n)
<1> DEFINE u == Use(g, V)
           a == AddBlock(u, TRUE)
           b == Br(a, T)
<1>1. Size(g) \in Nat /\ g.cur \in Blk(g) /\ g.blocks[g.cur].term = <<>>
  BY Parts, OpenEnd
<1>2. n \in Nat /\ T \in SUBSET Nat /\ Size(g) <= n
  BY <1>1
<1>3. /\ FnOK(u) /\ u.blocks = g.blocks /\ u.cur = g.cur /\ u.phis = g.phis
      /\ u.complete = g.complete
      /\ u.uses = g.uses \cup {<<v, g.cur>> : v \in V \ {Const}}
  BY UseEffect
<1>4. h = SetInsertPoint(b, n)
  OBVIOUS
<1> HIDE DEF u
<1>5. Size(u) = Size(g) /\ Blk(u) = Blk(g)
  BY <1>3 DEF Size, Blk
<1>6. /\ FnOK(a) /\ Size(a) = n /\ a.cur = g.cur /\ SameRest(u, a)
      /\ \A c \in Blk(g) : SameBlock(g, a, c)
      /\ a.blocks[n].term = <<>> /\ a.blocks[n].placed = TRUE
  <2>1. TRUE \in BOOLEAN
    OBVIOUS
  <2>2. /\ FnOK(a) /\ Size(a) = Size(u) + 1 /\ a.cur = u.cur /\ SameRest(u, a)
        /\ \A c \in Blk(u) : SameBlock(u, a, c)
        /\ a.blocks[Size(u) + 1].term = <<>> /\ a.blocks[Size(u) + 1].placed = TRUE
    BY <1>3, <2>1, AddBlockEffect
  <2> HIDE DEF a
  <2> QED
    BY <1>3, <1>5, <2>2 DEF SameBlock
<1> HIDE DEF a
<1>7. a.blocks[a.cur].term = <<>>
  BY <1>1, <1>6 DEF SameBlock
<1>8. /\ FnOK(b) /\ Size(b) = n /\ b.cur = g.cur /\ SameRest(a, b)
      /\ \A c \in Blk(a) \ {g.cur} : SameBlock(a, b, c)
      /\ b.blocks[g.cur].term = <<T>> /\ b.blocks[g.cur].placed = a.blocks[g.cur].placed
  <2>1. /\ FnOK(b) /\ Size(b) = Size(a) /\ b.cur = a.cur /\ SameRest(a, b)
        /\ \A c \in Blk(a) \ {a.cur} : SameBlock(a, b, c)
        /\ b.blocks[a.cur].term = <<T>> /\ b.blocks[a.cur].placed = a.blocks[a.cur].placed
    BY <1>2, <1>6, <1>7, BrEffect
  <2> QED
    BY <1>6, <2>1
<1> HIDE DEF b
<1>9. FnOK(h) /\ h.blocks = b.blocks /\ h.cur = n /\ SameRest(b, h)
  <2>1. n \in Blk(b)
    BY <1>1, <1>8 DEF Blk
  <2> QED
    BY <1>4, <1>8, <2>1, SetInsertPointEffect
<1>10. /\ h.phis = g.phis /\ h.complete = g.complete
       /\ h.uses = g.uses \cup {<<v, g.cur>> : v \in V \ {Const}}
  BY <1>3, <1>6, <1>8, <1>9 DEF SameRest
<1>11. /\ \A c \in Blk(g) : c \in Blk(a) /\ c # n
       /\ \A c \in (Size(g) + 1)..n : c = n
       /\ n \in Blk(a) /\ n \notin Blk(g) /\ n \in 1..n
  BY <1>1, <1>6 DEF Blk
<1>12. /\ Size(h) = n /\ h.blocks[g.cur].term = <<T>>
       /\ h.blocks[g.cur].placed = g.blocks[g.cur].placed
       /\ \A c \in Blk(g) \ {g.cur} : h.blocks[c] = g.blocks[c]
       /\ h.blocks[n].term = <<>> /\ h.blocks[n].placed = TRUE
  BY <1>1, <1>6, <1>8, <1>9, <1>11 DEF Size, SameBlock
<1>13. \A c \in Blk(g) : h.blocks[c].placed <=> g.blocks[c].placed \/ c = h.cur
  BY <1>9, <1>11, <1>12
<1>14. \A c \in (Size(g) + 1)..n : h.blocks[c].term = <<>> /\ (h.blocks[c].placed <=> c = h.cur)
  BY <1>9, <1>11, <1>12
<1>15. h.cur \notin Placed(g)
  BY <1>9, <1>11 DEF Placed
<1>16. Jumps(g, h, T, n)
  BY <1>2, <1>9, <1>10, <1>11, <1>12, <1>13, <1>14, <1>15 DEF Jumps
<1> QED
  BY <1>9, <1>10, <1>16 DEF LoopJumped

\* The same, with the conditions in one.
LEMMA LoopJumps ==
  ASSUME NEW g, NEW V, NEW T, NEW n, LoopReady(g, V, T, n)
  PROVE  LoopJumped(g, LoopJump(g, V, T, n), V, T, n)
BY LoopJumpsAhead DEF LoopReady, LoopJump

-----------------------------------------------------------------------------
(* The jumps of the two constructs. *)

\* What every jump keeps, given what it does to the PHIs, the uses and the
\* activations below the innermost one.
LEMMA JumpFlow ==
  ASSUME GenInv, FlowInv, Generating, FnOK(fn'), NEW T, NEW M, Jumps(fn, fn', T, M),
         Keeps(fn, fn', T), Live(fn', fn'.cur),
         \A use \in fn'.uses : \/ use \in fn.uses
                               \/ use[1] # Const /\ use[2] = fn.cur /\ Available(fn, use[1], fn.cur),
         \A phi \in fn.phis : phi.blk \notin T,
         \A phi \in fn'.phis :
           \/ phi \in fn.phis
           \/ phi.blk \notin Placed(fn) /\ \E v \in Int, w \in Int, b \in Blk(fn'), c \in Blk(fn') :
                                             Joins(fn', phi, v, b, w, c),
         \A i \in 1..(Depth - 1) : Untouched(fn, fn', T, stack[i]),
         \A i \in 1..(Depth - 1) : HeldAt(fn', stack[i], Waiting(stack[i]), fn'.cur)
  PROVE  FnFlow(fn') /\ Lower(fn', stack, Depth - 1) /\ Available(fn', fn'.cur, fn'.cur)
<1>1. FnOK(fn) /\ FlowGraph(fn) /\ UsesOK(fn) /\ PhisOK(fn) /\ Lower(fn, stack, Depth - 1)
  BY FlowAtTop DEF FnFlow
<1>2. FlowGraph(fn')
  BY <1>1, FlowGraphGrows
<1>3. UsesOK(fn')
  BY <1>1, UsesGrow
<1>4. PhisOK(fn')
  BY <1>1, PhisGrow
<1>5. ~fn'.complete
  BY DEF Jumps
<1>6. Lower(fn', stack, Depth - 1)
  <2>1. Depth - 1 \in Nat
    BY AtTop
  <2> QED
    BY <1>1, <2>1, LowerStays
<1>7. Available(fn', fn'.cur, fn'.cur)
  <2>1. fn'.cur \in Placed(fn') /\ fn'.cur \in Blk(fn')
    BY <1>2 DEF FlowGraph, Placed
  <2>2. Graph(Size(fn'), Succ(fn'))
    BY <1>2, IsGraph DEF FlowGraph
  <2>3. Doms(fn', fn'.cur, fn'.cur)
    BY <2>1, <2>2, DomSelf DEF Doms, Blk
  <2> QED
    BY <2>1, <2>3 DEF Available
<1> QED
  BY <1>2, <1>3, <1>4, <1>5, <1>6, <1>7 DEF FnFlow

\* An activation below the innermost one.
LEMMA LowerFrame ==
  ASSUME GenInv, FlowInv, Generating, NEW i \in 1..(Depth - 1)
  PROVE  /\ FrameOK(fn, stack[i], Waiting(stack[i]))
         /\ HeldAt(fn, stack[i], Waiting(stack[i]), fn.cur)
         /\ OpenIf(stack[i]) => /\ stack[i].bbs[2] \in Blk(fn)
                                /\ stack[i].bbs[3] \in Blk(fn) \ Placed(fn)
         /\ OpenIf(Top) => Behind(fn, stack[i], Top)
<1>1. Lower(fn, stack, Depth - 1) /\ Stands(fn, stack, Depth, Top, Done)
  BY FlowAtTop
<1>2. Stands(fn, stack, i, stack[i], Waiting(stack[i]))
  BY <1>1 DEF Lower
<1>3. FrameOK(fn, stack[i], Waiting(stack[i])) /\ HeldAt(fn, stack[i], Waiting(stack[i]), fn.cur)
  BY <1>2 DEF Stands
<1> QED
  BY <1>1, <1>3 DEF Stands, FrameOK, IfOK

\* The if begins its then branch.
LEMMA IfThenFlow ==
  ASSUME GenInv, FlowInv, Step, Generating, IfThen
  PROVE  FlowInv'
<1> DEFINE n == Size(fn)
           T == {n + 1, n + 2}
           bbs == <<n + 1, n + 2, n + 3>>
           f == [Top EXCEPT !.bbs = bbs]
<1>1. /\ TopAst.kind = "if" /\ Done = 1 /\ Latest # Null
      /\ fn' = SetInsertPoint(Br(Use(ThreeBlocks(fn), {Latest}), T), n + 1)
      /\ Descend(f, 2)
  BY DEF IfThen, At, Size
<1>2. /\ Top \in Frame /\ Top.node \in Node /\ TopAst = Ast[Top.node] /\ Arity(Top.node) = 3
      /\ Len(Top.vals) = 1 /\ Latest \in Int /\ Available(fn, Latest, fn.cur)
      /\ Ast[Top.node].kids[2] # NoNode /\ ~OpenIf(Top)
  <2>1. Top \in Frame /\ Top.node \in Node /\ TopAst = Ast[Top.node] /\ Done = Len(Top.vals)
    BY AtTop
  <2>2. Arity(Top.node) = 3
    BY <1>1, <2>1, NodeShape
  <2>3. 2 \in 1..Arity(Top.node)
    BY <2>2
  <2>4. Ast[Top.node].kids[2] # NoNode
    BY <1>1, <2>1, <2>3, KidIsNode
  <2>5. Latest \in Int /\ Available(fn, Latest, fn.cur) /\ ~OpenIf(Top)
    BY <1>1, LatestAvailable, NotOpen
  <2> QED
    BY <1>1, <2>1, <2>2, <2>4, <2>5
<1>3. FnOK(fn) /\ FlowGraph(fn) /\ ~fn.complete /\ PhisOK(fn)
  BY FlowAtTop DEF FnFlow
<1>4. /\ FnOK(fn') /\ Jumps(fn, fn', T, n + 3) /\ fn'.cur = n + 1 /\ fn'.phis = fn.phis
      /\ fn'.uses = fn.uses \cup {<<x, fn.cur>> : x \in {Latest} \ {Const}}
  BY <1>1, <1>2, <1>3, ThenJumps
<1>5. /\ n \in Nat /\ n + 1 \notin Blk(fn) /\ n + 2 \notin Blk(fn) /\ n + 3 \notin Blk(fn)
      /\ n + 2 # n + 3 /\ n + 3 # n + 1 /\ n + 2 # n + 1
      /\ n + 1 \in (n + 1)..(n + 3) /\ n + 2 \in (n + 1)..(n + 3)
      /\ Placed(fn) \subseteq Blk(fn)
  BY <1>3, Parts DEF Blk, Placed
<1>6. T \cap Placed(fn) = {} /\ n + 3 \notin T
  BY <1>5
<1>7. /\ f \in Frame /\ f.node = Top.node /\ f.vals = Top.vals /\ f.bbs = bbs
      /\ Len(bbs) = 3 /\ bbs[1] = n + 1 /\ bbs[2] = n + 2 /\ bbs[3] = n + 3
  <2>1. bbs \in Seq(Nat) /\ Len(bbs) = 3 /\ bbs[1] = n + 1 /\ bbs[2] = n + 2 /\ bbs[3] = n + 3
    BY <1>5
  <2> HIDE DEF bbs
  <2> QED
    BY <1>2, <2>1 DEF Frame
<1> HIDE DEF n, f, bbs
<1>8. Keeps(fn, fn', T)
  BY <1>3, <1>4, <1>6, AwayKeeps
<1>9. Live(fn', n + 1) /\ Live(fn', n + 2)
  BY <1>3, <1>4, LiveStays
<1>10. /\ Blk(fn) \subseteq Blk(fn') /\ Placed(fn') = Placed(fn) \cup {n + 1}
       /\ n + 2 \in Blk(fn') /\ n + 3 \in Blk(fn')
       /\ \A b \in Blk(fn') : b \in Blk(fn) \/ b = n + 1 \/ b = n + 2 \/ b = n + 3
  <2>1. Blk(fn) \subseteq Blk(fn') /\ Placed(fn') = Placed(fn) \cup {fn'.cur} /\ Size(fn') = n + 3
    BY <1>3, <1>4, JumpPlaces
  <2>2. \A b \in 1..(n + 3) : b \in 1..n \/ b = n + 1 \/ b = n + 2 \/ b = n + 3
    BY <1>5
  <2>3. n + 2 \in 1..(n + 3) /\ n + 3 \in 1..(n + 3)
    BY <1>5
  <2>4. fn'.cur = n + 1
    BY <1>4
  <2> QED
    BY <2>1, <2>2, <2>3, <2>4 DEF Blk, n
<1>11. \A i \in 1..(Depth - 1) : Untouched(fn, fn', T, stack[i])
  BY <1>4, <1>5, LowerFrame DEF Untouched
<1>12. ASSUME NEW i \in 1..(Depth - 1), NEW c \in (n + 1)..(n + 3)
       PROVE  HeldAt(fn', stack[i], Waiting(stack[i]), c)
  <2>1. \A v : Available(fn, v, fn.cur) => Available(fn', v, c)
    BY <1>3, <1>4, AvailableNext DEF n
  <2>2. HeldAt(fn, stack[i], Waiting(stack[i]), fn.cur)
    BY LowerFrame
  <2> QED
    BY <2>1, <2>2, HeldMoves
<1>13. FnFlow(fn') /\ Lower(fn', stack, Depth - 1)
  <2>1. \A use \in fn'.uses : \/ use \in fn.uses
                              \/ use[1] # Const /\ use[2] = fn.cur /\ Available(fn, use[1], fn.cur)
    BY <1>2, <1>4
  <2>2. \A phi \in fn.phis : phi.blk \notin T
    BY <1>3, <1>6, PhisArePlaced
  <2> QED
    BY <1>4, <1>5, <1>8, <1>9, <1>11, <1>12, <2>1, <2>2, JumpFlow
<1>14. Stands(fn', stack, Depth, f, Waiting(f))
  <2>1. Waiting(f) = 2 /\ Needed(f, 2) = {}
    <3>1. OpenIf(f) /\ Len(f.vals) = 1
      BY <1>1, <1>2, <1>7 DEF OpenIf
    <3>2. \A i \in 1..1 : i # 2
      OBVIOUS
    <3> QED
      BY <3>1, <3>2 DEF Waiting, Needed
  <2>2. ~Looping(f)
    BY <1>1, <1>2, <1>7 DEF Looping
  <2>3. PredsOf(fn', n + 3) = {}
    <3>1. PredsOf(fn', n + 3) = PredsOf(fn, n + 3)
      BY <1>3, <1>4, <1>6, PredsStay
    <3>2. PredsOf(fn, n + 3) = {}
      BY <1>3, <1>5 DEF PredsOf, FlowGraph
    <3> QED
      BY <3>1, <3>2
  <2>4. n + 2 \notin Placed(fn') /\ n + 3 \notin Placed(fn')
    BY <1>5, <1>10
  <2>5. IfOK(fn', f, 2)
    BY <1>5, <1>7, <1>9, <1>10, <2>3, <2>4 DEF IfOK
  <2>6. HeldAt(fn', f, 2, fn'.cur)
    BY <2>1, <2>2 DEF HeldAt
  <2>7. ASSUME NEW i \in 1..(Depth - 1) PROVE Behind(fn', stack[i], f)
    <3>1. Point(fn', f) = n + 2
      BY <1>7, <2>4 DEF Point
    <3>2. HeldAt(fn', stack[i], Waiting(stack[i]), Point(fn', f))
      BY <1>5, <1>12, <3>1
    <3>3. OpenIf(stack[i]) => {stack[i].bbs[2], stack[i].bbs[3]} \cap {n + 2, n + 3} = {}
      BY <1>5, LowerFrame
    <3> QED
      BY <1>7, <3>2, <3>3 DEF Behind
  <2> QED
    BY <2>1, <2>2, <2>5, <2>6, <2>7 DEF Stands, FrameOK
<1>15. ASSUME ~Failed', NEW b \in Blk(fn') \ Placed(fn')
       PROVE  CoveredBy(stack, Depth - 1, b) \/ (OpenIf(f) /\ b \in {f.bbs[2], f.bbs[3]})
  <2>1. OpenIf(f)
    BY <1>1, <1>2, <1>7 DEF OpenIf
  <2>2. CASE b \in Blk(fn)
    <3>1. b \in Blk(fn) \ Placed(fn)
      BY <1>10, <1>15, <2>2
    <3>2. ~Failed
      BY <1>15, FailedStays
    <3> QED
      BY <1>2, <3>1, <3>2, FlowAtTop
  <2>3. CASE b \notin Blk(fn)
    BY <1>7, <1>10, <1>15, <2>1, <2>3
  <2> QED
    BY <2>2, <2>3
<1>16. 2 \in 1..Arity(f.node) /\ Ast[f.node].kids[2] # NoNode /\ Descend(f, 2) /\ f \in Frame
  BY <1>1, <1>2, <1>7
<1> QED
  BY <1>13, <1>14, <1>15, <1>16, AfterDescend

\* What an if that has begun its branches finds.
LEMMA OpenIfHolds ==
  ASSUME GenInv, FlowInv, Generating, TopAst.kind = "if", Done >= 2, Latest # Null
  PROVE  /\ OpenIf(Top) /\ IfOK(fn, Top, Done)
         /\ Latest \in Int /\ Available(fn, Latest, fn.cur)
         /\ \A i \in 1..(Depth - 1) :
              /\ HeldAt(fn, stack[i], Waiting(stack[i]), fn.cur)
              /\ HeldAt(fn, stack[i], Waiting(stack[i]), Point(fn, Top))
              /\ OpenIf(stack[i]) =>
                   {stack[i].bbs[2], stack[i].bbs[3]} \cap {Top.bbs[2], Top.bbs[3]} = {}
<1>1. OpenIf(Top)
  BY IfHolds, AtTop DEF OpenIf
<1>2. IfOK(fn, Top, Done)
  BY <1>1, FlowAtTop DEF Stands, FrameOK
<1>3. Latest \in Int /\ Available(fn, Latest, fn.cur)
  <2>1. Done > 0
    BY AtTop
  <2> QED
    BY <2>1, LatestAvailable
<1>4. ASSUME NEW i \in 1..(Depth - 1)
      PROVE  /\ HeldAt(fn, stack[i], Waiting(stack[i]), fn.cur)
             /\ HeldAt(fn, stack[i], Waiting(stack[i]), Point(fn, Top))
             /\ OpenIf(stack[i]) =>
                  {stack[i].bbs[2], stack[i].bbs[3]} \cap {Top.bbs[2], Top.bbs[3]} = {}
  BY <1>1, LowerFrame DEF Behind
<1> QED
  BY <1>1, <1>2, <1>3, <1>4

\* Jumping to its merge block touches no if around it.
LEMMA MergeUntouched ==
  ASSUME GenInv, FlowInv, Generating, TopAst.kind = "if", Done >= 2, Latest # Null,
         NEW i \in 1..(Depth - 1), fn'.cur \in {Top.bbs[2], Top.bbs[3]}
  PROVE  Untouched(fn, fn', {Top.bbs[3]}, stack[i])
<1>1. OpenIf(stack[i]) =>
        {stack[i].bbs[2], stack[i].bbs[3]} \cap {Top.bbs[2], Top.bbs[3]} = {}
  BY OpenIfHolds
<1> QED
  BY <1>1 DEF Untouched

\* The then branch ends and the else branch begins.
LEMMA IfElseFlow ==
  ASSUME GenInv, FlowInv, Step, Generating, IfElse
  PROVE  FlowInv'
<1> DEFINE e == Top.bbs[2]
           m == Top.bbs[3]
           bbs == [Top.bbs EXCEPT ![1] = fn.cur]
           f == [Top EXCEPT !.bbs = bbs]
<1>1. /\ TopAst.kind = "if" /\ Done = 2 /\ Latest # Null
      /\ fn' = SetInsertPoint(Place(Br(fn, {m}), e), e)
      /\ Descend(f, 3)
  BY DEF IfElse, At, ThenEnd
<1>2. /\ Top \in Frame /\ Top.node \in Node /\ TopAst = Ast[Top.node] /\ Arity(Top.node) = 3
      /\ Len(Top.vals) = 2 /\ Latest = Top.vals[2] /\ Ast[Top.node].kids[3] # NoNode
  <2>1. Top \in Frame /\ Top.node \in Node /\ TopAst = Ast[Top.node] /\ Done = Len(Top.vals)
    BY AtTop
  <2>2. Arity(Top.node) = 3
    BY <1>1, <2>1, NodeShape
  <2>3. 3 \in 1..Arity(Top.node)
    BY <2>2
  <2>4. Ast[Top.node].kids[3] # NoNode
    BY <1>1, <2>1, <2>3, KidIsNode
  <2> QED
    BY <1>1, <2>1, <2>2, <2>4 DEF Latest
<1>3. FnOK(fn) /\ FlowGraph(fn) /\ ~fn.complete /\ PhisOK(fn) /\ fn.cur \in Placed(fn)
  BY FlowAtTop DEF FnFlow, FlowGraph
<1>4. /\ OpenIf(Top) /\ IfOK(fn, Top, 2) /\ Available(fn, Latest, fn.cur)
  BY <1>1, OpenIfHolds
<1>5. /\ e \in Blk(fn) \ Placed(fn) /\ m \in Blk(fn) \ Placed(fn) /\ e # m
      /\ PredsOf(fn, m) = {} /\ Live(fn, e)
  BY <1>4 DEF IfOK
<1>6. FnOK(fn') /\ Jumps(fn, fn', {m}, Size(fn)) /\ fn'.cur = e /\ SameRest(fn, fn')
  BY <1>1, <1>3, <1>5, PlaceJumps
<1>7. /\ f \in Frame /\ f.node = Top.node /\ f.vals = Top.vals
      /\ Len(f.bbs) = 3 /\ f.bbs[1] = fn.cur /\ f.bbs[2] = e /\ f.bbs[3] = m
  <2>1. Len(Top.bbs) = 3 /\ Top.bbs \in Seq(Nat) /\ fn.cur \in Nat
    BY <1>2, <1>3, <1>4 DEF OpenIf, Frame, FnOK, FnRecord
  <2>2. /\ bbs \in Seq(Nat) /\ Len(bbs) = 3
        /\ bbs[1] = fn.cur /\ bbs[2] = e /\ bbs[3] = m
    BY <2>1
  <2> HIDE DEF bbs
  <2> QED
    BY <1>2, <2>2 DEF Frame
<1>8. OpenIf(f) /\ ~Looping(f)
  BY <1>1, <1>2, <1>7 DEF OpenIf, Looping
<1> HIDE DEF f, bbs, e, m
<1>9. Keeps(fn, fn', {m})
  BY <1>3, <1>5, <1>6, AwayKeeps
<1>10. /\ Placed(fn') = Placed(fn) \cup {e} /\ Blk(fn') = Blk(fn)
  <2>1. Placed(fn') = Placed(fn) \cup {e} /\ Size(fn') = Size(fn)
    BY <1>3, <1>6, JumpPlaces
  <2> QED
    BY <2>1 DEF Blk
<1>11. Live(fn', e)
  BY <1>3, <1>5, <1>6, LiveStays
<1>12. ASSUME NEW i \in 1..(Depth - 1)
       PROVE  /\ Untouched(fn, fn', {m}, stack[i])
              /\ HeldAt(fn', stack[i], Waiting(stack[i]), e)
              /\ HeldAt(fn', stack[i], Waiting(stack[i]), fn.cur)
              /\ OpenIf(stack[i]) => {stack[i].bbs[2], stack[i].bbs[3]} \cap {e, m} = {}
  <2>1. Point(fn, Top) = e
    BY <1>5 DEF Point, e
  <2>2. HeldAt(fn, stack[i], Waiting(stack[i]), e) /\ HeldAt(fn, stack[i], Waiting(stack[i]), fn.cur)
    BY <1>1, <2>1, OpenIfHolds
  <2>3. \A v : \A b \in {e, fn.cur} : Available(fn, v, b) => Available(fn', v, b)
    <3>1. \A b \in {e, fn.cur} : b \in Blk(fn) /\ b \notin {m}
      BY <1>3, <1>5 DEF Placed
    <3> QED
      BY <1>9, <3>1 DEF Keeps
  <2>4. /\ HeldAt(fn', stack[i], Waiting(stack[i]), e)
        /\ HeldAt(fn', stack[i], Waiting(stack[i]), fn.cur)
    BY <2>2, <2>3, HeldMoves
  <2>5. /\ Untouched(fn, fn', {m}, stack[i])
        /\ OpenIf(stack[i]) => {stack[i].bbs[2], stack[i].bbs[3]} \cap {e, m} = {}
    <3>1. fn'.cur \in {Top.bbs[2], Top.bbs[3]} /\ Done >= 2
      BY <1>1, <1>6 DEF e
    <3>2. Untouched(fn, fn', {Top.bbs[3]}, stack[i])
      BY <1>1, <3>1, MergeUntouched
    <3>3. OpenIf(stack[i]) =>
            {stack[i].bbs[2], stack[i].bbs[3]} \cap {Top.bbs[2], Top.bbs[3]} = {}
      BY <1>1, OpenIfHolds
    <3> QED
      BY <3>2, <3>3 DEF e, m
  <2> QED
    BY <2>4, <2>5
<1>13. FnFlow(fn') /\ Lower(fn', stack, Depth - 1)
  <2>1. \A phi \in fn.phis : phi.blk \notin {m}
    BY <1>3, <1>5, PhisArePlaced
  <2>2. fn'.uses = fn.uses /\ fn'.phis = fn.phis
    BY <1>6 DEF SameRest
  <2> QED
    BY <1>6, <1>9, <1>11, <1>12, <2>1, <2>2, JumpFlow
<1>14. Stands(fn', stack, Depth, f, Waiting(f))
  <2>1. Waiting(f) = 3 /\ Needed(f, 3) = {}
    <3>1. Len(f.vals) = 2
      BY <1>2, <1>7
    <3>2. \A i \in 1..2 : i # 3
      OBVIOUS
    <3> QED
      BY <1>8, <3>1, <3>2 DEF Waiting, Needed
  <2>2. PredsOf(fn', m) = {fn.cur}
    BY <1>3, <1>5, <1>6, PredsStay
  <2>3. Available(fn', f.vals[2], fn.cur)
    <3>1. fn.cur \in Blk(fn)
      BY <1>3 DEF Placed
    <3> QED
      BY <1>2, <1>3, <1>4, <1>7, <1>9, <3>1 DEF Keeps
  <2>4. IfOK(fn', f, 3)
    BY <1>3, <1>5, <1>7, <1>10, <2>2, <2>3 DEF IfOK
  <2>5. HeldAt(fn', f, 3, fn'.cur)
    BY <1>8, <2>1 DEF HeldAt
  <2>6. ASSUME NEW i \in 1..(Depth - 1) PROVE Behind(fn', stack[i], f)
    <3>1. Point(fn', f) = fn.cur
      BY <1>7, <1>10 DEF Point
    <3> QED
      BY <1>7, <1>12, <3>1 DEF Behind
  <2> QED
    BY <1>8, <2>1, <2>4, <2>5, <2>6 DEF Stands, FrameOK
<1>15. ASSUME ~Failed', NEW b \in Blk(fn') \ Placed(fn')
       PROVE  CoveredBy(stack, Depth - 1, b) \/ (OpenIf(f) /\ b \in {f.bbs[2], f.bbs[3]})
  <2>1. ~Failed /\ b \in Blk(fn) \ Placed(fn)
    BY <1>10, <1>15, FailedStays
  <2>2. CoveredBy(stack, Depth - 1, b) \/ b \in {Top.bbs[2], Top.bbs[3]}
    BY <2>1, FlowAtTop
  <2> QED
    BY <1>7, <1>8, <2>2 DEF e, m
<1>16. 3 \in 1..Arity(f.node) /\ Ast[f.node].kids[3] # NoNode /\ Descend(f, 3) /\ f \in Frame
  <2>1. Descend(f, 3)
    BY <1>1 DEF f, bbs
  <2> QED
    BY <1>2, <1>7, <2>1
<1> QED
  BY <1>13, <1>14, <1>15, <1>16, AfterDescend

\* The else branch ends, and the PHI joins the two.
LEMMA IfMergeFlow ==
  ASSUME GenInv, FlowInv, Step, Generating, IfMerge
  PROVE  FlowInv'
<1> DEFINE m == Top.bbs[3]
           e == Top.bbs[1]
           v == Top.vals[2]
           phi == [blk |-> m, in |-> {<<v, e>>, <<Latest, fn.cur>>}]
           g == SetInsertPoint(Place(Br(fn, {m}), m), m)
<1>1. /\ TopAst.kind = "if" /\ Done = 3 /\ Latest # Null
      /\ fn' = [g EXCEPT !.phis = @ \cup {phi}]
      /\ Return(m)
  BY DEF IfMerge, At, PhiValue
<1>2. v \in Int
  <2>1. 2 \in 1..Done
    BY <1>1
  <2> QED
    BY <2>1, AtTop
<1>3. FnOK(fn) /\ FlowGraph(fn) /\ ~fn.complete /\ PhisOK(fn) /\ fn.cur \in Placed(fn)
  BY FlowAtTop DEF FnFlow, FlowGraph
<1>4. OpenIf(Top) /\ IfOK(fn, Top, 3) /\ Latest \in Int /\ Available(fn, Latest, fn.cur)
  BY <1>1, OpenIfHolds
<1>5. /\ Top.bbs[2] \in Placed(fn) /\ m \in Blk(fn) \ Placed(fn)
      /\ PredsOf(fn, m) = {e} /\ e \in Placed(fn) /\ Available(fn, v, e)
  BY <1>4 DEF IfOK
<1>6. FnOK(g) /\ Jumps(fn, g, {m}, Size(fn)) /\ g.cur = m /\ SameRest(fn, g)
  BY <1>3, <1>5, PlaceJumps
<1>7. phi \in [blk : Nat, in : SUBSET (Int \X Nat)]
  <2>1. m \in Nat /\ e \in Nat /\ fn.cur \in Nat
    BY <1>3, <1>5, Parts DEF Placed, Blk
  <2> QED
    BY <1>2, <1>4, <2>1
<1>8. phi.blk = m /\ phi.in = {<<v, e>>, <<Latest, fn.cur>>}
  OBVIOUS
<1> HIDE DEF g, phi, m, e, v
<1>9. /\ FnOK(fn') /\ fn'.blocks = g.blocks /\ fn'.cur = g.cur /\ fn'.complete = g.complete
      /\ fn'.uses = g.uses /\ fn'.phis = g.phis \cup {phi}
  BY <1>1, <1>6, <1>7, PhiEffect
<1>10. /\ Jumps(fn, fn', {m}, Size(fn)) /\ fn'.cur = m /\ fn'.uses = fn.uses
       /\ fn'.phis = fn.phis \cup {phi}
  BY <1>6, <1>9 DEF Jumps, Size, SameRest
<1>11. Keeps(fn, fn', {m})
  BY <1>3, <1>5, <1>9, <1>10, AwayKeeps
<1>12. /\ Placed(fn') = Placed(fn) \cup {m} /\ Blk(fn') = Blk(fn)
       /\ fn.cur \in Blk(fn) /\ e \in Blk(fn) /\ m \notin Placed(fn)
  <2>1. Placed(fn') = Placed(fn) \cup {m} /\ Size(fn') = Size(fn)
    BY <1>3, <1>9, <1>10, JumpPlaces
  <2> QED
    BY <1>3, <1>5, <2>1 DEF Blk, Placed
<1>13. Live(fn', m)
  BY <1>3, <1>9, <1>10, LiveStays
<1>14. PredsOf(fn', m) = {e, fn.cur} /\ e # fn.cur
  <2>1. PredsOf(fn', m) = PredsOf(fn, m) \cup {fn.cur} /\ fn.cur \notin PredsOf(fn, m)
    BY <1>3, <1>9, <1>10, PredsStay
  <2> QED
    BY <1>5, <2>1
<1>15. Joins(fn', phi, v, e, Latest, fn.cur)
  <2>1. Available(fn', v, e) /\ Available(fn', Latest, fn.cur)
    BY <1>3, <1>4, <1>5, <1>11, <1>12 DEF Keeps
  <2> QED
    BY <1>3, <1>5, <1>8, <1>12, <1>14, <2>1 DEF Joins
<1>16. ASSUME NEW i \in 1..(Depth - 1)
       PROVE  /\ Untouched(fn, fn', {m}, stack[i])
              /\ HeldAt(fn', stack[i], Waiting(stack[i]), m)
  <2>1. Point(fn, Top) = e
    BY <1>5 DEF Point, e
  <2>2. HeldAt(fn, stack[i], Waiting(stack[i]), e) /\ HeldAt(fn, stack[i], Waiting(stack[i]), fn.cur)
    BY <1>1, <2>1, OpenIfHolds
  <2>3. \A w : Available(fn, w, e) /\ Available(fn, w, fn.cur) => Available(fn', w, m)
    BY <1>3, <1>5, <1>9, <1>10, AvailableJoin
  <2>4. HeldAt(fn', stack[i], Waiting(stack[i]), m)
    BY <2>2, <2>3 DEF HeldAt
  <2>5. Untouched(fn, fn', {m}, stack[i])
    <3>1. fn'.cur \in {Top.bbs[2], Top.bbs[3]} /\ Done >= 2
      BY <1>1, <1>10 DEF m
    <3>2. Untouched(fn, fn', {Top.bbs[3]}, stack[i])
      BY <1>1, <3>1, MergeUntouched
    <3> QED
      BY <3>2 DEF m
  <2> QED
    BY <2>4, <2>5
<1>17. FnFlow(fn') /\ Lower(fn', stack, Depth - 1) /\ Available(fn', m, fn'.cur)
  <2>1. \A p \in fn.phis : p.blk \notin {m}
    BY <1>3, <1>5, PhisArePlaced
  <2>2. \A p \in fn'.phis :
           \/ p \in fn.phis
           \/ p.blk \notin Placed(fn) /\ \E x \in Int, y \in Int, b \in Blk(fn'), c \in Blk(fn') :
                                           Joins(fn', p, x, b, y, c)
    BY <1>2, <1>4, <1>8, <1>10, <1>12, <1>15
  <2> QED
    BY <1>9, <1>10, <1>11, <1>13, <1>16, <2>1, <2>2, JumpFlow
<1>18. ASSUME ~Failed' PROVE \A b \in Blk(fn') \ Placed(fn') : CoveredBy(stack, Depth - 1, b)
  <2> TAKE b \in Blk(fn') \ Placed(fn')
  <2>1. ~Failed /\ b \in Blk(fn) \ Placed(fn) /\ b # m
    BY <1>12, <1>18, FailedStays
  <2>2. CoveredBy(stack, Depth - 1, b) \/ b \in {Top.bbs[2], m}
    BY <2>1, FlowAtTop DEF m
  <2> QED
    BY <1>5, <2>1, <2>2
<1>19. m \in Int
  BY <1>5, <1>3, Parts DEF Blk
<1> QED
  BY <1>1, <1>17, <1>18, <1>19, AfterReturn

\* If.
LEMMA IfFlow ==
  ASSUME GenInv, FlowInv, Step, If
  PROVE  FlowInv'
<1>1. CASE FailWith("if")
  BY <1>1, FailFlow
<1>2. CASE IfCondition
  <2>1. Generating /\ TopAst.kind = "if" /\ Done = 0 /\ Descend(Top, 1) /\ UNCHANGED fn
    BY <1>2 DEF IfCondition, At, Generating
  <2>2. Top.node \in Node /\ TopAst = Ast[Top.node] /\ Arity(Top.node) = 3
    BY <2>1, AtTop, NodeShape
  <2>3. 1 \in 1..Arity(Top.node) /\ TopAst.kids[1] # NoNode
    <3>1. 1 \in 1..Arity(Top.node)
      BY <2>2
    <3> QED
      BY <2>1, <2>2, <3>1, KidIsNode
  <2>4. ~OpenIf(Top)
    BY <2>1, NotOpen
  <2> QED
    BY <2>1, <2>3, <2>4, NextChildFlow
<1>3. IfThen \/ IfElse \/ IfMerge => Generating
  BY DEF IfThen, IfElse, IfMerge, At, Generating
<1> QED
  BY <1>1, <1>2, <1>3, IfThenFlow, IfElseFlow, IfMergeFlow DEF If

\* The loop begins.
LEMMA ForBodyFlow ==
  ASSUME GenInv, FlowInv, Step, Generating, ForBody
  PROVE  FlowInv'
<1> DEFINE n == Size(fn) + 1
           bbs == <<n>>
           old == <<NamedValues[TopAst.names[1]]>>
           f == [Top EXCEPT !.bbs = bbs, !.old = old]
<1>1. /\ TopAst.kind = "for" /\ Done = 1 /\ Latest # Null
      /\ fn' = SetInsertPoint(Br(AddBlock(Use(fn, {Latest}), TRUE), {n}), n)
      /\ Descend(f, 2)
  BY DEF ForBody, At, Size
<1>2. /\ Top \in Frame /\ Top.node \in Node /\ TopAst = Ast[Top.node]
      /\ Len(Top.vals) = 1 /\ Latest = Top.vals[1] /\ {Latest} \in SUBSET Int
      /\ Available(fn, Latest, fn.cur)
      /\ 2 \in 1..Arity(Top.node) /\ Ast[Top.node].kids[2] # NoNode /\ ~OpenIf(Top)
      /\ TopAst.names[1] \in Var /\ NamedValues \in [Var -> Slot]
  <2>1. Top \in Frame /\ Top.node \in Node /\ TopAst = Ast[Top.node] /\ Done = Len(Top.vals)
        /\ NamedValues \in [Var -> Slot]
    BY AtTop
  <2>2. Arity(Top.node) \in {3, 4} /\ TopAst.names \in Seq(Var) /\ Len(TopAst.names) = 1
    BY <1>1, <2>1, NodeShape
  <2>3. 2 \in 1..Arity(Top.node) /\ TopAst.names[1] \in Var
    BY <2>2
  <2>4. Ast[Top.node].kids[2] # NoNode
    BY <1>1, <2>1, <2>3, KidIsNode
  <2>5. {Latest} \in SUBSET Int /\ Available(fn, Latest, fn.cur) /\ ~OpenIf(Top)
    BY <1>1, LatestAvailable, NotOpen
  <2> QED
    BY <1>1, <2>1, <2>3, <2>4, <2>5 DEF Latest
<1>3. FnOK(fn) /\ FlowGraph(fn) /\ ~fn.complete /\ PhisOK(fn)
  BY FlowAtTop DEF FnFlow
<1>4. /\ Size(fn) \in Nat /\ n \notin Blk(fn) /\ {n} \in SUBSET (1..n) /\ n \in Nat
      /\ n \in (Size(fn) + 1)..n /\ Placed(fn) \subseteq Blk(fn)
  BY <1>3, Parts DEF Blk, Placed
<1>5. /\ FnOK(fn') /\ Jumps(fn, fn', {n}, n) /\ fn'.cur = n /\ fn'.phis = fn.phis
      /\ fn'.uses = fn.uses \cup {<<v, fn.cur>> : v \in {Latest} \ {Const}}
  <2> DEFINE V == {Latest}
             T == {n}
  <2>1. V \in SUBSET Int /\ T \in SUBSET (1..n) /\ n = Size(fn) + 1
    BY <1>2, <1>4
  <2>2. fn' = LoopJump(fn, V, T, n)
    BY <1>1 DEF LoopJump
  <2> HIDE DEF V, T, n
  <2>3. LoopReady(fn, V, T, n)
    BY <1>3, <2>1 DEF LoopReady
  <2>4. LoopJumped(fn, fn', V, T, n)
    BY <2>2, <2>3, LoopJumps
  <2> QED
    BY <2>4 DEF LoopJumped, V, T
<1>6. /\ f \in Frame /\ f.node = Top.node /\ f.vals = Top.vals
      /\ Len(f.bbs) = 1 /\ f.bbs[1] = n
  <2>1. old \in Seq(Slot) /\ bbs \in Seq(Nat) /\ Len(bbs) = 1 /\ bbs[1] = n
    <3>1. NamedValues[TopAst.names[1]] \in Slot
      BY <1>2
    <3> QED
      BY <1>4, <3>1
  <2> HIDE DEF bbs, old
  <2> QED
    BY <1>2, <2>1 DEF Frame
<1>7. Looping(f) /\ ~OpenIf(f)
  BY <1>1, <1>2, <1>6 DEF OpenIf, Looping
<1> HIDE DEF f, bbs, old, n
<1>8. {n} \cap Placed(fn) = {}
  BY <1>4
<1>9. Keeps(fn, fn', {n})
  BY <1>3, <1>5, <1>8, AwayKeeps
<1>10. Placed(fn') = Placed(fn) \cup {n} /\ \A b \in Blk(fn') : b \in Blk(fn) \/ b = n
  <2>1. Placed(fn') = Placed(fn) \cup {n} /\ Size(fn') = n
    BY <1>3, <1>5, JumpPlaces
  <2>2. \A b \in 1..n : b \in 1..Size(fn) \/ b = n
    BY <1>4 DEF n
  <2> QED
    BY <2>1, <2>2 DEF Blk
<1>11. Live(fn', n)
  BY <1>3, <1>5, LiveStays
<1>12. \A v : Available(fn, v, fn.cur) => Available(fn', v, n)
  BY <1>3, <1>4, <1>5, AvailableNext
<1>13. \A i \in 1..(Depth - 1) : /\ Untouched(fn, fn', {n}, stack[i])
                                 /\ HeldAt(fn', stack[i], Waiting(stack[i]), n)
  <2> TAKE i \in 1..(Depth - 1)
  <2>1. HeldAt(fn', stack[i], Waiting(stack[i]), n)
    BY <1>12, LowerFrame, HeldMoves
  <2>2. Untouched(fn, fn', {n}, stack[i])
    BY <1>4, <1>5, LowerFrame DEF Untouched
  <2> QED
    BY <2>1, <2>2
<1>14. \A phi \in fn.phis : phi.blk \notin {n}
  BY <1>3, <1>8, PhisArePlaced
<1>15. FnFlow(fn') /\ Lower(fn', stack, Depth - 1) /\ Available(fn', n, fn'.cur)
  <2>1. \A use \in fn'.uses : \/ use \in fn.uses
                              \/ use[1] # Const /\ use[2] = fn.cur /\ Available(fn, use[1], fn.cur)
    BY <1>2, <1>5
  <2> QED
    BY <1>5, <1>9, <1>11, <1>13, <1>14, <2>1, JumpFlow
<1>16. Stands(fn', stack, Depth, f, Waiting(f))
  <2>1. LoopOK(fn', f)
    BY <1>5, <1>6, <1>10, <1>14 DEF LoopOK
  <2>2. \A i \in Needed(f, Waiting(f)) : Available(fn', f.vals[i], fn'.cur)
    <3>1. \A i \in 1..1 : i = 1
      OBVIOUS
    <3> QED
      BY <1>2, <1>5, <1>6, <1>12, <3>1 DEF Needed
  <2>3. HeldAt(fn', f, Waiting(f), fn'.cur)
    BY <1>6, <1>15, <2>2 DEF HeldAt
  <2> QED
    BY <1>7, <2>1, <2>3 DEF Stands, FrameOK
<1>17. ASSUME ~Failed', NEW b \in Blk(fn') \ Placed(fn')
       PROVE  CoveredBy(stack, Depth - 1, b)
  <2>1. ~Failed /\ b \in Blk(fn) \ Placed(fn)
    BY <1>10, <1>17, FailedStays
  <2> QED
    BY <1>2, <2>1, FlowAtTop
<1>18. 2 \in 1..Arity(f.node) /\ Ast[f.node].kids[2] # NoNode /\ Descend(f, 2) /\ f \in Frame
  <2>1. Descend(f, 2)
    BY <1>1 DEF f, bbs, old
  <2> QED
    BY <1>2, <1>6, <2>1
<1> QED
  BY <1>15, <1>16, <1>17, <1>18, AfterDescend

\* The loop ends.
LEMMA ForLatchFlow ==
  ASSUME GenInv, FlowInv, Step, Generating, ForLatch
  PROVE  FlowInv'
<1> DEFINE n == Size(fn) + 1
           l == Top.bbs[1]
           step == IF Done = 4 THEN Top.vals[3] ELSE Const
           T == {l, n}
<1>1. /\ TopAst.kind = "for" /\ Done = Len(TopAst.kids) /\ Latest # Null
      /\ fn' = SetInsertPoint(Br(AddBlock(Use(fn, {step, Latest}), TRUE), T), n)
      /\ Return(Const)
  BY DEF ForLatch, At, Size
<1>2. /\ Top.node \in Node /\ TopAst = Ast[Top.node] /\ Done = Len(Top.vals)
      /\ Done \in Nat /\ Done >= 3 /\ ~OpenIf(Top)
  <2>1. /\ Top.node \in Node /\ TopAst = Ast[Top.node] /\ Done = Len(Top.vals)
        /\ Arity(Top.node) = Len(TopAst.kids)
    BY AtTop
  <2>2. Arity(Top.node) \in {3, 4}
    BY <1>1, <2>1, NodeShape
  <2>3. Done = Arity(Top.node)
    BY <1>1, <2>1
  <2>4. Done \in Nat /\ Done >= 3
    BY <2>2, <2>3
  <2>5. ~OpenIf(Top)
    BY <1>1, NotOpen
  <2> QED
    BY <2>1, <2>4, <2>5
<1>3. FnOK(fn) /\ FlowGraph(fn) /\ ~fn.complete /\ PhisOK(fn)
  BY FlowAtTop DEF FnFlow
<1>4. Looping(Top) /\ LoopOK(fn, Top) /\ l \in Placed(fn) /\ Available(fn, l, fn.cur)
  <2>1. Looping(Top)
    <3>1. Done >= 2
      BY <1>2
    <3> QED
      BY <1>1, <1>2, <3>1, ForHolds DEF Looping
  <2>2. Stands(fn, stack, Depth, Top, Done)
    BY FlowAtTop
  <2> QED
    BY <2>1, <2>2 DEF Stands, FrameOK, LoopOK, HeldAt
<1>5. /\ Size(fn) \in Nat /\ n \notin Blk(fn) /\ n \in Nat
      /\ n \in (Size(fn) + 1)..n /\ Placed(fn) \subseteq Blk(fn) /\ T \in SUBSET (1..n)
  <2>1. Size(fn) \in Nat /\ Placed(fn) \subseteq Blk(fn)
    BY <1>3, Parts DEF Placed
  <2>2. n \notin Blk(fn) /\ n \in Nat /\ n \in (Size(fn) + 1)..n
    BY <2>1 DEF Blk
  <2>3. l \in 1..n /\ n \in 1..n
    BY <1>4, <2>1 DEF Blk
  <2> QED
    BY <2>1, <2>2, <2>3
<1>6. {step, Latest} \in SUBSET Int /\ \A v \in {step, Latest} : Available(fn, v, fn.cur)
  <2>1. 3 \in 1..Done /\ Done > 0
    BY <1>2
  <2>2. ~NullIn(Top)
    <3>1. ~CarriesOn(Top.node)
      BY <1>1, <1>2 DEF CarriesOn
    <3> QED
      BY <1>1, <3>1, NoneFailed
  <2>3. Top.vals[3] \in Int /\ Available(fn, Top.vals[3], fn.cur)
    BY <1>2, <2>1, <2>2, AtTop, FlowAtTop DEF NullIn
  <2>4. Latest \in Int /\ Available(fn, Latest, fn.cur)
    BY <1>1, <2>1, LatestAvailable
  <2>5. Const \in Int /\ Available(fn, Const, fn.cur)
    BY FlowAtTop DEF Const
  <2> QED
    BY <2>3, <2>4, <2>5
<1> HIDE DEF n, l, step
<1>7. /\ FnOK(fn') /\ Jumps(fn, fn', T, n) /\ fn'.cur = n /\ fn'.phis = fn.phis
      /\ fn'.uses = fn.uses \cup {<<v, fn.cur>> : v \in {step, Latest} \ {Const}}
  <2> DEFINE V == {step, Latest}
  <2>1. V \in SUBSET Int /\ T \in SUBSET (1..n) /\ n = Size(fn) + 1
    BY <1>5, <1>6 DEF n
  <2>2. fn' = LoopJump(fn, V, T, n)
    BY <1>1 DEF LoopJump
  <2> HIDE DEF V, T
  <2>3. LoopReady(fn, V, T, n)
    BY <1>3, <2>1 DEF LoopReady
  <2>4. LoopJumped(fn, fn', V, T, n)
    BY <2>2, <2>3, LoopJumps
  <2> QED
    BY <2>4 DEF LoopJumped, V
<1>8. Keeps(fn, fn', T)
  <2>1. \A x \in T : x = l \/ x \in (Size(fn) + 1)..n
    BY <1>5
  <2> QED
    BY <1>3, <1>4, <1>7, <2>1, BackKeeps
<1>9. Placed(fn') = Placed(fn) \cup {n} /\ \A b \in Blk(fn') : b \in Blk(fn) \/ b = n
  <2>1. Placed(fn') = Placed(fn) \cup {n} /\ Size(fn') = n
    BY <1>3, <1>7, JumpPlaces
  <2>2. \A b \in 1..n : b \in 1..Size(fn) \/ b = n
    BY <1>5 DEF n
  <2> QED
    BY <2>1, <2>2 DEF Blk
<1>10. Live(fn', n)
  BY <1>3, <1>7, LiveStays
<1>11. \A v : Available(fn, v, fn.cur) => Available(fn', v, n)
  BY <1>3, <1>5, <1>7, AvailableNext
<1>12. \A i \in 1..(Depth - 1) : /\ Untouched(fn, fn', T, stack[i])
                                 /\ HeldAt(fn', stack[i], Waiting(stack[i]), n)
  <2> TAKE i \in 1..(Depth - 1)
  <2>1. HeldAt(fn', stack[i], Waiting(stack[i]), n)
    BY <1>11, LowerFrame, HeldMoves
  <2>2. Untouched(fn, fn', T, stack[i])
    BY <1>4, <1>5, <1>7, LowerFrame DEF Untouched
  <2> QED
    BY <2>1, <2>2
<1>13. FnFlow(fn') /\ Lower(fn', stack, Depth - 1)
  <2>1. \A use \in fn'.uses : \/ use \in fn.uses
                              \/ use[1] # Const /\ use[2] = fn.cur /\ Available(fn, use[1], fn.cur)
    BY <1>6, <1>7
  <2>2. \A phi \in fn.phis : phi.blk \notin T
    BY <1>3, <1>4, <1>5, PhisArePlaced DEF LoopOK, l
  <2> QED
    BY <1>7, <1>8, <1>10, <1>12, <2>1, <2>2, JumpFlow
<1>14. ASSUME ~Failed' PROVE \A b \in Blk(fn') \ Placed(fn') : CoveredBy(stack, Depth - 1, b)
  <2> TAKE b \in Blk(fn') \ Placed(fn')
  <2>1. ~Failed /\ b \in Blk(fn) \ Placed(fn)
    BY <1>9, <1>14, FailedStays
  <2> QED
    BY <1>2, <2>1, FlowAtTop
<1>15. Const \in Int /\ Available(fn', Const, fn'.cur)
  BY DEF Const, Available
<1> QED
  BY <1>1, <1>13, <1>14, <1>15, AfterReturn

\* For.
LEMMA ForFlow ==
  ASSUME GenInv, FlowInv, Step, For
  PROVE  FlowInv'
<1>1. CASE FailWith("for")
  BY <1>1, FailFlow
<1>2. CASE ForStart \/ ForNext
  <2>1. Generating /\ TopAst.kind = "for"
    BY <1>2 DEF ForStart, ForNext, At, Generating
  <2>2. /\ Top.node \in Node /\ TopAst = Ast[Top.node] /\ Arity(Top.node) = Len(TopAst.kids)
        /\ Arity(Top.node) \in Nat /\ Arity(Top.node) >= 3 /\ Done \in Nat
    <3>1. /\ Top.node \in Node /\ TopAst = Ast[Top.node] /\ Arity(Top.node) = Len(TopAst.kids)
          /\ Done \in Nat
      BY <2>1, AtTop
    <3>2. Arity(Top.node) \in {3, 4}
      BY <2>1, <3>1, NodeShape
    <3>3. Arity(Top.node) \in Nat /\ Arity(Top.node) >= 3
      BY <3>2
    <3> QED
      BY <3>1, <3>3
  <2>3. Done < Arity(Top.node) /\ Descend(Top, Done + 1) /\ UNCHANGED fn
    BY <1>2, <2>2 DEF ForStart, ForNext, At, MoreChildren
  <2>4. Done + 1 \in 1..Arity(Top.node)
    BY <2>2, <2>3
  <2>5. TopAst.kids[Done + 1] # NoNode /\ ~OpenIf(Top)
    BY <2>1, <2>2, <2>4, KidIsNode, NotOpen
  <2> QED
    BY <2>1, <2>3, <2>4, <2>5, NextChildFlow
<1>3. ForBody \/ ForLatch => Generating
  BY DEF ForBody, ForLatch, At, Generating
<1> QED
  BY <1>1, <1>2, <1>3, ForBodyFlow, ForLatchFlow DEF For

\* The return instruction, behind which nothing follows.
LEMMA ReturnBodyFlow ==
  ASSUME GenInv, FlowInv, Step, ReturnBody
  PROVE  FlowInv'
<1> DEFINE T == {}
           u == Use(fn, {result})
           b == Br(u, T)
<1>1. /\ stack = <<>> /\ result >= Const /\ ~fn.complete
      /\ fn' = [b EXCEPT !.complete = TRUE] /\ UNCHANGED <<stack, result>>
  BY DEF ReturnBody, Generating
<1>2. FnOK(fn) /\ FlowGraph(fn) /\ UsesOK(fn) /\ PhisOK(fn)
  BY DEF FlowInv
<1>3. result \in Int /\ result # Null /\ Available(fn, result, fn.cur)
  <2>1. result \in Int
    BY DEF GenInv, TypeOK
  <2>2. result # Null
    BY <1>1, <2>1 DEF Const, Null
  <2> QED
    BY <1>1, <2>1, <2>2 DEF FlowInv, Generating
<1>4. /\ FnOK(u) /\ u.blocks = fn.blocks /\ u.cur = fn.cur
      /\ u.phis = fn.phis /\ u.complete = fn.complete
      /\ u.uses = fn.uses \cup {<<v, fn.cur>> : v \in {result} \ {Const}}
  <2>1. {result} \in SUBSET Int
    BY <1>3
  <2> QED
    BY <1>2, <2>1, UseEffect
<1>5. Size(fn) \in Nat /\ fn.cur \in Blk(fn) /\ fn.blocks[fn.cur].term = <<>>
  BY <1>1, <1>2, Parts, OpenEnd
<1> HIDE DEF u
<1>6. Size(u) = Size(fn) /\ Blk(u) = Blk(fn)
  BY <1>4 DEF Size, Blk
<1>7. /\ FnOK(b) /\ Size(b) = Size(fn) /\ b.cur = fn.cur /\ SameRest(u, b)
      /\ \A c \in Blk(fn) \ {fn.cur} : b.blocks[c] = fn.blocks[c]
      /\ b.blocks[fn.cur].term = <<T>> /\ b.blocks[fn.cur].placed = fn.blocks[fn.cur].placed
  <2>1. T \in SUBSET Nat /\ u.blocks[u.cur].term = <<>>
    BY <1>4, <1>5
  <2>2. /\ FnOK(b) /\ Size(b) = Size(u) /\ b.cur = u.cur /\ SameRest(u, b)
        /\ \A c \in Blk(u) \ {u.cur} : SameBlock(u, b, c)
        /\ b.blocks[u.cur].term = <<T>> /\ b.blocks[u.cur].placed = u.blocks[u.cur].placed
    BY <1>4, <2>1, BrEffect
  <2> HIDE DEF b
  <2> QED
    BY <1>4, <1>6, <2>2 DEF SameBlock
<1> HIDE DEF b
<1>8. /\ fn'.blocks = b.blocks /\ fn'.cur = fn.cur /\ fn'.phis = fn.phis /\ fn'.complete = TRUE
      /\ fn'.uses = fn.uses \cup {<<v, fn.cur>> : v \in {result} \ {Const}}
  <2>1. /\ fn'.blocks = b.blocks /\ fn'.cur = b.cur /\ fn'.phis = b.phis /\ fn'.complete = TRUE
        /\ fn'.uses = b.uses
    BY <1>1, <1>7 DEF FnOK, FnRecord
  <2> QED
    BY <1>4, <1>7, <2>1 DEF SameRest
<1>9. FnOK(fn')
  <2>1. fn' \in FnRecord
    BY <1>1, <1>7 DEF FnOK, FnRecord
  <2> QED
    BY <1>5, <1>7, <1>8, <2>1 DEF FnOK, Size, Blk
<1>10. Size(fn') = Size(fn) /\ Blk(fn') = Blk(fn)
  BY <1>7, <1>8 DEF Size, Blk
<1>11. Placed(fn') = Placed(fn)
  BY <1>7, <1>8, <1>10 DEF Placed
<1>12. \A c \in Blk(fn) : Succ(fn')[c] = Succ(fn)[c]
  <2> TAKE c \in Blk(fn)
  <2>1. CASE c = fn.cur
    <3>1. Succ(fn)[c] = {}
      BY <1>5, <2>1, SuccOf
    <3>2. c \in Blk(fn') /\ fn'.blocks[c].term = <<T>>
      BY <1>7, <1>8, <1>10, <2>1
    <3> HIDE DEF T
    <3>3. Succ(fn')[c] = T
      BY <3>2, SuccOf
    <3> QED
      BY <3>1, <3>3 DEF T
  <2>2. CASE c # fn.cur
    BY <1>7, <1>8, <1>10, <2>2, SameSucc
  <2> QED
    BY <2>1, <2>2
<1>13. Succ(fn') = Succ(fn)
  <2>1. /\ Succ(fn) = [c \in Blk(fn) |-> Succ(fn)[c]]
        /\ Succ(fn') = [c \in Blk(fn) |-> Succ(fn')[c]]
    BY <1>10 DEF Succ, Blk, Size
  <2> QED
    BY <1>12, <2>1
<1>14. /\ \A x : PredsOf(fn', x) = PredsOf(fn, x) /\ (Live(fn', x) <=> Live(fn, x))
       /\ \A x, y : (Doms(fn', x, y) <=> Doms(fn, x, y))
                    /\ (Available(fn', x, y) <=> Available(fn, x, y))
  BY <1>10, <1>11, <1>13 DEF PredsOf, Live, Doms, Available
<1>15. FlowGraph(fn')
  <2>1. ASSUME NEW c \in Blk(fn)
        PROVE  Terminators(fn', c) = IF c \in Placed(fn) THEN 1 ELSE 0
    <3>1. CASE c = fn.cur
      <4>1. Len(<<T>>) = 1
        OBVIOUS
      <4> QED
        BY <1>2, <1>7, <1>8, <3>1, <4>1 DEF Terminators, FlowGraph
    <3>2. CASE c # fn.cur
      <4>1. Terminators(fn', c) = Terminators(fn, c)
        BY <1>7, <1>8, <3>2 DEF Terminators
      <4> QED
        BY <1>2, <3>2, <4>1 DEF FlowGraph
    <3> QED
      BY <3>1, <3>2
  <2> QED
    BY <1>2, <1>8, <1>10, <1>11, <1>13, <1>14, <2>1 DEF FlowGraph
<1>16. UsesOK(fn')
  <2>1. Available(fn, result, fn.cur) /\ fn.cur \in Placed(fn)
    BY <1>2, <1>3 DEF FlowGraph
  <2>2. ASSUME NEW use \in fn'.uses
        PROVE  use[1] \in Placed(fn) /\ use[2] \in Placed(fn) /\ Doms(fn, use[1], use[2])
    BY <1>2, <1>8, <2>1, <2>2 DEF UsesOK, Available
  <2> QED
    BY <1>11, <1>14, <2>2 DEF UsesOK
<1>17. PhisOK(fn')
  BY <1>2, <1>8, <1>10, <1>11, <1>14 DEF PhisOK, Joins
<1>18. ~Failed /\ ~Failed' /\ ~Generating'
  <2>1. \A j \in 1..Depth : FALSE
    BY <1>1 DEF Depth
  <2>2. ~Failed
    BY <1>3, <2>1 DEF Failed
  <2>3. Failed' <=> Failed
    BY <1>1 DEF Failed, Depth
  <2> QED
    BY <1>1, <2>2, <2>3 DEF Generating
<1>19. Covered(fn', stack')
  <2>1. Covered(fn, stack)
    BY <1>18 DEF FlowInv
  <2> QED
    BY <1>1, <1>10, <1>11, <2>1 DEF Covered
<1>20. StackFlow(fn', stack')
  BY <1>1 DEF StackFlow
<1>21. Available(fn', result', fn'.cur)
  BY <1>1, <1>3, <1>8, <1>14
<1> QED
  BY <1>9, <1>15, <1>16, <1>17, <1>18, <1>19, <1>20, <1>21 DEF FlowInv

-----------------------------------------------------------------------------
(* The invariant. *)

\* A step of the generator.
LEMMA FlowKeeps ==
  ASSUME GenInv, FlowInv, Step
  PROVE  FlowInv'
<1>1. \/ Number \/ Variable \/ Unary \/ Binary \/ Call
      \/ If \/ For \/ VarIn \/ ReturnBody
  BY DEF Step
<1> QED
  BY <1>1, LeafFlow, UnaryFlow, BinaryFlow, CallFlow, IfFlow, ForFlow, VarInFlow, ReturnBodyFlow

\* Nothing changes the graph while the generator's state stays.
LEMMA FlowIdle ==
  ASSUME FlowInv, UNCHANGED <<stack, result, fn>>
  PROVE  FlowInv'
<1>1. (Failed' <=> Failed) /\ (Generating' <=> Generating)
  BY DEF Failed, Depth, Generating
<1> QED
  BY <1>1 DEF FlowInv

\* A function has just been entered.
LEMMA FlowEntered ==
  ASSUME Entered
  PROVE  FlowInv
<1>1. PICK r \in Root, f \in Fn, args \in Seq(Var) :
        stack = <<NewFrame(r)>> /\ fn = NewFunction(f, r, args)
  BY DEF Entered
<1>2. r \in Node
  BY <1>1, AstAssumption
<1>3. FnOK(fn) /\ ~fn.complete
  BY <1>1, <1>2, NewFunctionOK
<1>4. fn.phis = {} /\ fn.uses = {} /\ fn.cur = Entry /\ fn.blocks = <<EmptyBlock(TRUE)>>
  <2> DEFINE blocks == <<EmptyBlock(TRUE)>>
  <2>1. fn = [NoFunction EXCEPT !.name = f, !.body = r, !.args = args,
                                !.blocks = blocks, !.cur = Entry]
    BY <1>1, Zenon DEF NewFunction
  <2> HIDE DEF blocks
  <2>2. fn.phis = {} /\ fn.uses = {} /\ fn.cur = Entry /\ fn.blocks = blocks
    BY <2>1 DEF NoFunction
  <2> QED
    BY <2>2 DEF blocks
<1>5. /\ Size(fn) = 1 /\ fn.blocks[1].term = <<>> /\ fn.blocks[1].placed = TRUE
  <2> DEFINE e == EmptyBlock(TRUE)
  <2>1. e.term = <<>> /\ e.placed = TRUE
    BY DEF EmptyBlock
  <2> HIDE DEF e
  <2>2. fn.blocks = <<e>>
    BY <1>4 DEF e
  <2>3. Len(<<e>>) = 1 /\ <<e>>[1] = e
    OBVIOUS
  <2> QED
    BY <2>1, <2>2, <2>3 DEF Size
<1>6. Blk(fn) = {1} /\ Placed(fn) = {1} /\ Entry = 1
  <2>1. 1..1 = {1}
    OBVIOUS
  <2>2. Blk(fn) = {1}
    BY <1>5, <2>1 DEF Blk
  <2> QED
    BY <1>5, <2>2 DEF Placed, Entry
<1>7. Succ(fn)[1] = {} /\ Terminators(fn, 1) = 0
  <2>1. 1 \in Blk(fn) /\ Len(<<>>) = 0
    BY <1>6
  <2> QED
    BY <1>5, <2>1, SuccOf DEF Terminators
<1>8. Live(fn, 1)
  BY <1>6 DEF Live, Reached, Avoids
<1>9. FlowGraph(fn)
  BY <1>3, <1>4, <1>6, <1>7, <1>8 DEF FlowGraph
<1>10. UsesOK(fn) /\ PhisOK(fn)
  BY <1>4 DEF UsesOK, PhisOK
<1> DEFINE fr == NewFrame(r)
<1>11. Len(fr.vals) = 0 /\ Len(fr.bbs) = 0 /\ Len(<<fr>>) = 1 /\ <<fr>>[1] = fr
  BY DEF NewFrame
<1>12. stack = <<fr>>
  BY <1>1
<1> HIDE DEF fr
<1>13. Stands(fn, stack, 1, fr, 0)
  <2>1. ~Looping(fr) /\ ~OpenIf(fr)
    BY <1>11 DEF Looping, OpenIf
  <2>2. Needed(fr, 0) = {}
    BY <1>11 DEF Needed
  <2> QED
    BY <2>1, <2>2 DEF Stands, FrameOK, HeldAt
<1>14. StackFlow(fn, stack)
  <2>1. Len(stack) = 1 /\ stack[1] = fr /\ \A j \in 1..(1 - 1) : FALSE
    BY <1>11, <1>12
  <2> QED
    BY <1>11, <1>13, <2>1 DEF StackFlow, Lower
<1>15. Covered(fn, stack) /\ Generating
  BY <1>6, <1>11, <1>12 DEF Covered, Generating
<1> QED
  BY <1>3, <1>9, <1>10, <1>14, <1>15 DEF FlowInv

-----------------------------------------------------------------------------
(* What the invariant is for. *)

\* The verifier's words for the parts of the graph.
LEMMA VerifierView ==
  ASSUME FlowInv
  PROVE  /\ BlockIds = Blk(fn)
         /\ \A b \in BlockIds : Succs(b) = Succ(fn)[b]
         /\ \A b : Preds(b) = PredsOf(fn, b)
         /\ \A a, b : Doms(fn, a, b) => Dominates(a, b)
         /\ \A b : Live(fn, b) => b \in Reachable(0)
<1>1. BlockIds = Blk(fn)
  BY DEF BlockIds, Blk, Size
<1>2. \A b \in BlockIds : Succs(b) = Succ(fn)[b]
  BY DEF Succs, Succ, BlockIds
<1>3. \A b : Preds(b) = PredsOf(fn, b)
  BY <1>1, <1>2 DEF Preds, PredsOf
<1>4. Graph(Size(fn), Succ(fn)) /\ Size(fn) # 0
  BY IsGraph, Parts DEF FlowInv, FlowGraph
<1>5. \A a, b : Doms(fn, a, b) => Dominates(a, b)
  BY <1>4, DomIsDominates DEF Doms
<1>6. \A b : Live(fn, b) => b \in Reachable(0)
  BY <1>4, ReachedIsReachable DEF Live
<1> QED
  BY <1>1, <1>2, <1>3, <1>5, <1>6

\* The insertion point is the one open block.
LEMMA FlowOpen ==
  ASSUME FlowInv
  PROVE  InsertPointOpen
<1>1. SUFFICES ASSUME ~fn.complete
               PROVE  /\ fn.blocks[fn.cur].term = <<>>
                      /\ \A b \in BlockIds : fn.blocks[b].term = <<>> /\ fn.blocks[b].placed
                                               => b = fn.cur
  BY DEF InsertPointOpen
<1>2. fn.blocks[fn.cur].term = <<>>
  BY <1>1, OpenEnd DEF FlowInv
<1>3. ASSUME NEW b \in BlockIds, fn.blocks[b].term = <<>>, fn.blocks[b].placed PROVE b = fn.cur
  <2>1. b \in Blk(fn) /\ b \in Placed(fn)
    BY <1>3, VerifierView DEF Placed
  <2>2. Terminators(fn, b) = 0
    <3>1. Len(<<>>) = 0
      OBVIOUS
    <3> QED
      BY <1>3, <3>1 DEF Terminators
  <2> QED
    BY <2>1, <2>2 DEF FlowInv, FlowGraph
<1> QED
  BY <1>2, <1>3

\* In the end every block is placed, terminated and reachable.
LEMMA FlowTerminated ==
  ASSUME FlowInv
  PROVE  BlocksTerminated
<1>1. SUFFICES ASSUME fn.complete, NEW b \in BlockIds
               PROVE  /\ fn.blocks[b].placed
                      /\ Len(fn.blocks[b].term) = 1
                      /\ b \in Reachable(0)
  BY DEF BlocksTerminated
<1>2. b \in Blk(fn)
  BY VerifierView
<1>3. b \in Placed(fn)
  <2>1. Covered(fn, stack) /\ stack = <<>>
    BY <1>1 DEF FlowInv, Generating
  <2>2. \A j \in 1..Len(<<>>) : FALSE
    OBVIOUS
  <2> QED
    BY <1>2, <2>1, <2>2 DEF Covered, CoveredBy
<1>4. Terminators(fn, b) = 1 /\ Live(fn, b)
  BY <1>1, <1>2, <1>3 DEF FlowInv, FlowGraph
<1> QED
  BY <1>3, <1>4, VerifierView DEF Placed, Terminators

\* Two things that differ are two.
LEMMA Pair ==
  ASSUME NEW x, NEW y, x # y
  PROVE  Cardinality({x, y}) = 2
<1>1. IsFiniteSet({x}) /\ Cardinality({x}) = 1
  BY FS_Singleton
<1>2. Cardinality({x} \cup {y}) = Cardinality({x}) + 1
  BY <1>1, FS_AddElement
<1>3. {x, y} = {x} \cup {y}
  OBVIOUS
<1> QED
  BY <1>1, <1>2, <1>3

\* Every PHI has its predecessors, once each.
LEMMA FlowPhis ==
  ASSUME FlowInv
  PROVE  PhisMatchPredecessors
<1>1. SUFFICES ASSUME NEW phi \in fn.phis
               PROVE  /\ {edge[2] : edge \in phi.in} = Preds(phi.blk)
                      /\ Cardinality(phi.in) = Cardinality(Preds(phi.blk))
                      /\ \A edge \in phi.in : edge[1] = Const \/ Dominates(edge[1], edge[2])
  BY DEF PhisMatchPredecessors
<1>2. PICK v \in Int, w \in Int, b \in Blk(fn), c \in Blk(fn) : Joins(fn, phi, v, b, w, c)
  BY DEF FlowInv, PhisOK
<1>3. /\ phi.in = {<<v, b>>, <<w, c>>} /\ Preds(phi.blk) = {b, c} /\ b # c
      /\ Available(fn, v, b) /\ Available(fn, w, c)
  BY <1>2, VerifierView DEF Joins
<1>4. {edge[2] : edge \in phi.in} = {b, c}
  BY <1>3
<1>5. Cardinality(phi.in) = 2 /\ Cardinality(Preds(phi.blk)) = 2
  <2>1. <<v, b>> # <<w, c>>
    BY <1>3
  <2>2. Cardinality({<<v, b>>, <<w, c>>}) = 2
    BY <2>1, Pair
  <2>3. Cardinality({b, c}) = 2
    BY <1>3, Pair
  <2> QED
    BY <1>3, <2>2, <2>3
<1>6. \A edge \in phi.in : edge[1] = Const \/ Dominates(edge[1], edge[2])
  <2>1. (v = Const \/ Dominates(v, b)) /\ (w = Const \/ Dominates(w, c))
    BY <1>3, VerifierView DEF Available
  <2> QED
    BY <1>3, <2>1
<1> QED
  BY <1>3, <1>4, <1>5, <1>6

\* Every definition dominates its uses.
LEMMA FlowUses ==
  ASSUME FlowInv
  PROVE  DefsDominateUses
BY VerifierView DEF FlowInv, UsesOK, DefsDominateUses
-----------------------------------------------------------------------------
(* One body. *)

\* The state in which a body is entered.
LEMMA InitGenInv ==
  ASSUME Init
  PROVE  GenInv
<1>1. PICK r \in Root :
        /\ stack = <<NewFrame(r)>>
        /\ result = Pending
        /\ NamedValues = ParamScope(r, Params[r])
        /\ FunctionProtos = Put(KnownProtos, FnName[r], Params[r])
        /\ TheModule = Put(EmptyMap, FnName[r], [args |-> Params[r], body |-> TRUE])
        /\ fn = NewFunction(FnName[r], r, Params[r])
        /\ fault = "none"
  BY DEF Init
<1>2. r \in Node /\ FnName[r] \in Fn /\ Params[r] \in Seq(Var)
  BY AstAssumption
<1>3. StackInv /\ \A j \in 1..Depth : Len(stack[j].bbs) = 0
  <2> DEFINE fr == NewFrame(r)
  <2>1. /\ fr \in Frame /\ Len(fr.bbs) = 0 /\ GoesOn(fr)
        /\ <<fr>> \in Seq(Frame) /\ Len(<<fr>>) = 1 /\ <<fr>>[1] = fr
    BY <1>2, FreshFrame
  <2>2. stack = <<fr>> /\ result = Pending
    BY <1>1
  <2> HIDE DEF fr
  <2>3. Depth = 1 /\ Top = fr
    BY <2>1, <2>2 DEF Depth, Top
  <2> QED
    BY <2>1, <2>2, <2>3 DEF StackInv
<1>4. NamedValues \in [Var -> Slot]
  BY <1>1, <1>2, ParamScopeType
<1>5. IsMap(FunctionProtos, Fn, Seq(Var))
  BY <1>1, <1>2, KnownProtosAssumption DEF IsMap, Put
<1>6. IsMap(TheModule, Fn, [args : Seq(Var), body : BOOLEAN])
  <2> DEFINE m == [args |-> Params[r], body |-> TRUE]
  <2>1. m \in [args : Seq(Var), body : BOOLEAN]
    BY <1>2
  <2>2. TheModule = Put(EmptyMap, FnName[r], m)
    BY <1>1
  <2> HIDE DEF m
  <2> QED
    BY <1>2, <2>1, <2>2 DEF IsMap, Put, EmptyMap
<1>7. FnOK(fn)
  BY <1>1, <1>2, NewFunctionOK
<1>8. TypeOK
  BY <1>1, <1>3, <1>4, <1>5, <1>6, <1>7 DEF TypeOK, StackInv, FnOK, BlockIds, Pending, Faults
<1> QED
  BY <1>3, <1>7, <1>8 DEF GenInv

(***************************************************************************)
(* The generator keeps its state well typed, and every basic block it      *)
(* holds on to - the insertion point, the blocks of the ifs and fors under *)
(* way - is one of the function's, whatever the body.                      *)
(***************************************************************************)
THEOREM BodyTypeCorrect == Spec => []TypeOK
<1>1. Init => GenInv
  BY InitGenInv
<1>2. GenInv /\ [Next]_vars => GenInv'
  BY StepKeeps, StutterKeeps DEF Next
<1>3. GenInv => TypeOK
  BY DEF GenInv
<1> QED
  BY <1>1, <1>2, <1>3, PTL DEF Spec

\* The two invariants together.
LEMMA BodyInvariant ==
  ASSUME NamesDistinct
  PROVE  Spec => [](GenInv /\ ScopeInv)
<1>1. Init => GenInv /\ ScopeInv
  <2>1. Init => Entered
    BY AstAssumption DEF Init, Entered
  <2> QED
    BY <2>1, InitGenInv, ScopeEntered
<1>2. GenInv /\ ScopeInv /\ [Next]_vars => (GenInv /\ ScopeInv)'
  <2>1. ASSUME GenInv, ScopeInv, Next PROVE GenInv' /\ ScopeInv'
    BY <2>1, StepKeeps, ScopeKeeps DEF Next
  <2>2. ASSUME GenInv, ScopeInv, UNCHANGED vars PROVE GenInv' /\ ScopeInv'
    BY <2>2, StutterKeeps, ScopeIdle DEF vars
  <2> QED
    BY <2>1, <2>2
<1> QED
  BY <1>1, <1>2, PTL DEF Spec

(***************************************************************************)
(* OldVal and OldBindings: between two children NamedValues is the lexical *)
(* scope of the construct being generated, in every body in which no       *)
(* var/in introduces a name twice, as long as no codegen() has failed.     *)
(***************************************************************************)
THEOREM ScopesAreRestored ==
  ASSUME NamesDistinct
  PROVE  Spec => []ScopeRestored
<1>1. ScopeInv => ScopeRestored
  BY ScopeHolds
<1> QED
  BY <1>1, BodyInvariant, PTL

-----------------------------------------------------------------------------
(* The control flow graph. *)

\* The invariant of the graph; it needs no assumption on the names.
LEMMA BodyFlow == Spec => [](GenInv /\ FlowInv)
<1>1. Init => GenInv /\ FlowInv
  <2>1. Init => Entered
    BY AstAssumption DEF Init, Entered
  <2> QED
    BY <2>1, InitGenInv, FlowEntered
<1>2. GenInv /\ FlowInv /\ [Next]_vars => (GenInv /\ FlowInv)'
  <2>1. ASSUME GenInv, FlowInv, Next PROVE GenInv' /\ FlowInv'
    BY <2>1, StepKeeps, FlowKeeps DEF Next
  <2>2. ASSUME GenInv, FlowInv, UNCHANGED vars PROVE GenInv' /\ FlowInv'
    BY <2>2, StutterKeeps, FlowIdle DEF vars
  <2> QED
    BY <2>1, <2>2
<1> QED
  BY <1>1, <1>2, PTL DEF Spec

(***************************************************************************)
(* No instruction is ever appended behind a branch: in every body the      *)
(* insertion point is the one placed block without a terminator.           *)
(***************************************************************************)
THEOREM InsertPointStaysOpen == Spec => []InsertPointOpen
<1>1. FlowInv => InsertPointOpen
  BY FlowOpen
<1> QED
  BY <1>1, BodyFlow, PTL

(***************************************************************************)
(* Every finished function is made of blocks that were placed, end in      *)
(* exactly one terminator and can be reached, however its ifs and fors are *)
(* nested.                                                                 *)
(***************************************************************************)
THEOREM FinishedBlocksAreTerminated == Spec => []BlocksTerminated
<1>1. FlowInv => BlocksTerminated
  BY FlowTerminated
<1> QED
  BY <1>1, BodyFlow, PTL

(***************************************************************************)
(* Looking ThenBB up again at the end of the then branch is enough: every  *)
(* PHI of every finished function lists its two predecessors once each,    *)
(* with values that are there at their ends.                               *)
(***************************************************************************)
THEOREM PhisJoinTheirPredecessors == Spec => []PhisMatchPredecessors
<1>1. FlowInv => PhisMatchPredecessors
  BY FlowPhis
<1> QED
  BY <1>1, BodyFlow, PTL

(***************************************************************************)
(* A caller may hold the value of one child while it generates another:    *)
(* in every finished function each definition dominates its uses.          *)
(***************************************************************************)
THEOREM DefinitionsDominate == Spec => []DefsDominateUses
<1>1. FlowInv => DefsDominateUses
  BY FlowUses
<1> QED
  BY <1>1, BodyFlow, PTL

-----------------------------------------------------------------------------
(* The tables. *)

\* Putting an entry into a map, or dropping one, keeps its type.
LEMMA MapKeeps ==
  ASSUME NEW K, NEW V, NEW m, IsMap(m, K, V)
  PROVE  /\ \A k \in K, v \in V : IsMap(Put(m, k, v), K, V)
         /\ \A k : IsMap(Drop(m, k), K, V)
BY DEF IsMap, Put, Drop

\* The empty map has every type.
LEMMA EmptyMapIsMap ==
  ASSUME NEW K, NEW V
  PROVE  IsMap(EmptyMap, K, V)
BY DEF IsMap, EmptyMap

\* No function is called like the record that stands for none.
LEMMA NoFunctionUnnamed ==
  NoFunction.name \notin Fn /\ NoFunction.complete = FALSE /\ ~FnOK(NoFunction)
<1>1. NoFunction.name = <<"none", "none">> /\ NoFunction.complete = FALSE
  BY DEF NoFunction
<1>2. ASSUME NEW f \in Fn PROVE f[1] \in {"unary", "binary", "fn", "anon"}
  BY DEF Fn, Anon
<1>3. ~FnOK(NoFunction)
  BY DEF NoFunction, FnOK
<1> QED
  BY <1>1, <1>2, <1>3

\* A function called like a binary operator is that operator's.
LEMMA BinaryName ==
  ASSUME NEW f \in Fn, IsBinaryOp(f)
  PROVE  f[2] \in Op /\ f = BinaryFn(f[2])
BY DEF Fn, Anon, IsBinaryOp, BinaryFn

-----------------------------------------------------------------------------
(* The generator changes nothing but its own part of the tables. *)

\* The open module gains declarations at most.
LEMMA StepDeclares ==
  ASSUME Step
  PROVE  TheModule' = TheModule \/ \E f : TheModule' = WithDecl(f)
BY DEF Step, Number, Variable, VariableLoad, VariableUnknown, Unary, UnaryOperand, UnaryCall,
   UnaryUnknown, FailWith, Binary, AssignEnter, AssignStore, AssignUnknown, AssignUndefined,
   BinaryLHS, BinaryRHS, BinaryBuiltin, BinaryUser, BinaryAssertFails, BinaryFail,
   Call, CallReject, CallArgument, CallEmit, If, IfCondition, IfThen, IfElse, IfMerge,
   For, ForStart, ForBody, ForNext, ForLatch, VarIn, VarInitialiser, VarDefault, VarRegister,
   VarBody, VarLeave, Bind, ReturnBody

\* Nothing in the generator but the assert fails the assert.
LEMMA StepFaults ==
  ASSUME Step, fault' = "assert"
  PROVE  BinaryAssertFails
BY DEF Step, Number, Variable, VariableLoad, VariableUnknown, Unary, UnaryOperand, UnaryCall,
   UnaryUnknown, FailWith, Binary, AssignEnter, AssignStore, AssignUnknown, AssignUndefined,
   BinaryLHS, BinaryRHS, BinaryBuiltin, BinaryUser, BinaryAssertFails, BinaryFail,
   Call, CallReject, CallArgument, CallEmit, If, IfCondition, IfThen, IfElse, IfMerge,
   For, ForStart, ForBody, ForNext, ForLatch, VarIn, VarInitialiser, VarDefault, VarRegister,
   VarBody, VarLeave, Bind, ReturnBody
-----------------------------------------------------------------------------
(* The inductive invariant.  The assert is reached only with an operator   *)
(* that has no prototype; the parser accepts only operators that are in    *)
(* BinopPrecedence; so every operator there must have a prototype, and a   *)
(* prototype once known must never be forgotten, while operators may be.   *)

Known(op) == op \in Builtins \cup {"="} \/ BinaryFn(op) \in DOMAIN FunctionProtos
OperatorsKnown(r) ==
  \A n \in Node : BodyOf[n] = r /\ Ast[n].kind = "binary" => Known(Ast[n].name)

SessionInv ==
  /\ GenInv
  /\ IsMap(BinopPrecedence, Op, 1..100)
  /\ IsMap(jit, Fn, [arity : Nat, calls : SUBSET (Fn \X Nat)])
  /\ NoAssertFailure
  /\ \A op \in DOMAIN BinopPrecedence : Known(op)
  /\ \A j \in 1..Depth : OperatorsKnown(BodyOf[stack[j].node])
  /\ OnlyCurrentBody
  /\ fn.complete => ~Generating
  /\ fn = NoFunction \/ fn.name \in Fn

\* The session starts in a state that satisfies it.
LEMMA InitSessionInv ==
  ASSUME SessionInit
  PROVE  SessionInv
<1>1. /\ stack = <<>> /\ result = Pending
      /\ NamedValues = [v \in Var |-> NoSlot]
      /\ FunctionProtos = EmptyMap
      /\ TheModule = EmptyMap
      /\ fn = NoFunction
      /\ fault = "none"
      /\ BinopPrecedence = BuiltinPrecedence
      /\ jit = EmptyMap
  BY DEF SessionInit
<1>2. Depth = 0 /\ ~Generating /\ stack \in Seq(Frame)
  BY <1>1 DEF Depth, Generating
<1>3. NoFunction \in FnRecord
  BY DEF NoFunction, FnRecord
<1>4. GenInv
  <2>1. StackInv
    BY <1>2 DEF StackInv
  <2>2. NamedValues \in [Var -> Slot]
    BY <1>1 DEF Slot
  <2>3. fn.cur = 0
    BY <1>1 DEF NoFunction
  <2>4. TypeOK
    BY <1>1, <1>2, <1>3, <2>2, <2>3, EmptyMapIsMap DEF TypeOK, Pending, Faults
  <2> QED
    BY <1>1, <1>2, <2>1, <2>4 DEF GenInv
<1>5. IsMap(BinopPrecedence, Op, 1..100) /\ DOMAIN BinopPrecedence \subseteq Builtins \cup {"="}
  BY <1>1 DEF IsMap, BuiltinPrecedence, Builtins
<1>6. IsMap(jit, Fn, [arity : Nat, calls : SUBSET (Fn \X Nat)])
  BY <1>1, EmptyMapIsMap
<1>7. OnlyCurrentBody
  BY <1>1 DEF OnlyCurrentBody, EmptyMap
<1> QED
  BY <1>1, <1>2, <1>4, <1>5, <1>6, <1>7 DEF SessionInv, NoAssertFailure, Known

\* What is known stays known as long as prototypes are only added.
LEMMA KnownGrows ==
  ASSUME DOMAIN FunctionProtos \subseteq DOMAIN FunctionProtos'
  PROVE  /\ \A op : Known(op) => Known(op)'
         /\ \A r : OperatorsKnown(r) => OperatorsKnown(r)'
BY DEF Known, OperatorsKnown

\* An activation is in the same body as the one that waits for it.
LEMMA SameBody ==
  ASSUME NEW f \in Frame, NEW g \in Frame, Waits(f, g)
  PROVE  BodyOf[g.node] = BodyOf[f.node]
<1> DEFINE k == Len(f.vals) + 1
<1>1. f.node \in Node /\ k \in Nat /\ k >= 1
  BY DEF Frame
<1>2. k <= Arity(f.node) /\ Ast[f.node].kids[k] # NoNode /\ g.node = Ast[f.node].kids[k]
  BY DEF Waits
<1> HIDE DEF k
<1>3. k \in 1..Arity(f.node)
  BY <1>1, <1>2, NodeShape
<1> QED
  BY <1>1, <1>2, <1>3, SessionAssumption

\* A step of the generator.
LEMMA GenerateKeeps ==
  ASSUME SessionInv, Generate
  PROVE  SessionInv'
<1>1. Step /\ UNCHANGED <<BinopPrecedence, jit, FunctionProtos>>
  BY DEF Generate, Step
<1>2. GenInv' /\ GenInv
  BY <1>1, StepKeeps DEF SessionInv
<1>3. stack \in Seq(Frame) /\ stack' \in Seq(Frame) /\ fn \in FnRecord
  BY <1>2 DEF GenInv, TypeOK
<1>4. NoAssertFailure'
  <2>1. SUFFICES ASSUME fault' = "assert" PROVE FALSE
    BY DEF NoAssertFailure
  <2>2. BinaryAssertFails
    BY <1>1, <2>1, StepFaults
  <2>3. /\ Generating /\ TopAst.kind = "binary" /\ ~IsAssign
        /\ TopAst.name \notin Builtins /\ ~Declared(BinaryFn(TopAst.name))
    BY <2>2 DEF BinaryAssertFails, At, Generating
  <2>4. Top.node \in Node /\ TopAst = Ast[Top.node] /\ Depth \in 1..Depth /\ Top = stack[Depth]
    BY <1>2, <2>3, AtTop DEF Top
  <2>5. OperatorsKnown(BodyOf[Top.node])
    BY <2>4 DEF SessionInv
  <2>6. Known(TopAst.name)
    BY <2>3, <2>4, <2>5 DEF OperatorsKnown
  <2> QED
    BY <2>3, <2>6 DEF Known, Declared, IsAssign
<1>5. (\A op \in DOMAIN BinopPrecedence : Known(op))'
  BY <1>1 DEF SessionInv, Known
<1>6. (\A j \in 1..Depth : OperatorsKnown(BodyOf[stack[j].node]))'
  <2>1. SameNodes
    BY <1>1, <1>3, StepKeepsNodes
  <2>2. Depth \in Nat /\ Depth' \in Nat /\ Depth' = Len(stack') /\ Depth' <= Depth + 1
    BY <1>3, <2>1 DEF Depth, SameNodes
  <2>3. \A r : OperatorsKnown(r) => OperatorsKnown(r)'
    BY <1>1, KnownGrows
  <2>4. ASSUME NEW j \in 1..Depth', j <= Depth
        PROVE  OperatorsKnown(BodyOf[stack[j].node])'
    <3>1. stack'[j].node = stack[j].node /\ j \in 1..Depth
      BY <2>1, <2>2, <2>4 DEF SameNodes
    <3>2. OperatorsKnown(BodyOf[stack[j].node])
      BY <3>1 DEF SessionInv
    <3> QED
      BY <2>3, <3>1, <3>2
  <2>5. ASSUME NEW j \in 1..Depth', ~(j <= Depth)
        PROVE  OperatorsKnown(BodyOf[stack[j].node])'
    <3>1. j = Depth + 1 /\ j = Depth' /\ j - 1 = Depth
      BY <2>2, <2>5
    <3>2. CASE Depth = 0
      <4>1. ~Generating
        BY <1>3, <3>2 DEF Depth, Generating
      <4>2. Generating'
        BY <1>3, <2>2, <3>1, <3>2 DEF Generating
      <4> QED
        BY <1>1, <1>3, <4>1, <4>2, StepKeepsNodes
    <3>3. CASE Depth # 0
      <4> DEFINE i == j - 1
                 f == stack'[i]
                 g == stack'[i + 1]
      <4>1. i \in 1..(Depth' - 1) /\ i \in 1..Depth' /\ i <= Depth /\ i + 1 = j
        BY <2>2, <3>1, <3>3
      <4>2. Waits(f, g)
        BY <1>2, <4>1 DEF GenInv, StackInv
      <4>3. f \in Frame /\ g \in Frame
        BY <1>3, <2>2, <3>1, <4>1
      <4>4. BodyOf[g.node] = BodyOf[f.node]
        BY <4>2, <4>3, SameBody
      <4>5. OperatorsKnown(BodyOf[stack[i].node])'
        BY <2>4, <4>1
      <4>6. (BodyOf[stack[j].node] = BodyOf[stack[i].node])'
        BY <4>1, <4>4
      <4> QED
        BY <4>5, <4>6 DEF OperatorsKnown
    <3> QED
      BY <3>2, <3>3
  <2> QED
    BY <2>2, <2>4, <2>5
<1>7. fn'.name = fn.name /\ (Generating => fn'.complete = fn.complete)
  BY <1>1, <1>3, StepKeepsHeader
<1>8. OnlyCurrentBody'
  <2>1. \A f \in DOMAIN TheModule' : TheModule'[f].body
            => f \in DOMAIN TheModule /\ TheModule[f].body
    <3>1. CASE TheModule' = TheModule
      BY <3>1
    <3>2. ASSUME NEW c, TheModule' = WithDecl(c)
          PROVE  \A f \in DOMAIN TheModule' : TheModule'[f].body
                    => f \in DOMAIN TheModule /\ TheModule[f].body
      BY <3>2 DEF WithDecl, Put
    <3> QED
      BY <1>1, <3>1, <3>2, StepDeclares
  <2>2. \A f \in DOMAIN TheModule' : f \in Fn
    BY <1>2 DEF GenInv, TypeOK, IsMap
  <2> QED
    BY <1>7, <2>1, <2>2, NoFunctionUnnamed DEF SessionInv, OnlyCurrentBody
<1>9. (fn.complete => ~Generating)'
  BY <1>1, <1>3, <1>7, StepKeepsNodes DEF SessionInv
<1>10. fn.name \in Fn
  <2>1. FnOK(fn)
    <3>1. CASE Generating
      BY <1>2, <3>1 DEF GenInv
    <3>2. CASE ~Generating
      <4>1. result >= Const
        BY <1>1, <3>2, OutsideStep DEF ReturnBody
      <4> QED
        BY <1>2, <4>1 DEF GenInv, Const, Pending
    <3> QED
      BY <3>1, <3>2
  <2> QED
    BY <2>1, NoFunctionUnnamed DEF SessionInv
<1> QED
  BY <1>1, <1>2, <1>4, <1>5, <1>6, <1>7, <1>8, <1>9, <1>10 DEF SessionInv
\* A function body is entered: the parser has seen only operators of the table.
LEMMA BeginKeeps ==
  ASSUME SessionInv, NEW r \in Root, BeginFunction(r)
  PROVE  SessionInv'
<1> DEFINE f == FnName[r]
           args == IF f \in DOMAIN TheModule THEN TheModule[f].args ELSE Params[r]
           entry == [args |-> args, body |-> TRUE]
<1>1. /\ Ready /\ Parses(r)
      /\ FunctionProtos' = Put(FunctionProtos, f, Params[r])
      /\ TheModule' = Put(TheModule, f, entry)
      /\ BinopPrecedence' = IF IsBinaryOp(f) THEN Put(BinopPrecedence, f[2], Precedence[r])
                                             ELSE BinopPrecedence
      /\ stack' = <<NewFrame(r)>> /\ result' = Pending
      /\ NamedValues' = ParamScope(r, args)
      /\ fn' = NewFunction(f, r, args)
      /\ UNCHANGED <<jit, fault>>
  BY DEF BeginFunction, Recorded, Installed, EnterBody, Arguments
<1>2. /\ r \in Node /\ f \in Fn /\ Params[r] \in Seq(Var) /\ Precedence[r] \in 1..100
      /\ BodyOf[r] = r
  BY AstAssumption, SessionAssumption
<1>3. /\ IsMap(FunctionProtos, Fn, Seq(Var)) /\ ModuleOK(TheModule) /\ fault \in Faults
  BY DEF SessionInv, GenInv, TypeOK, ModuleOK
<1>4. args \in Seq(Var) /\ entry \in [args : Seq(Var), body : BOOLEAN]
  BY <1>2, <1>3 DEF ModuleOK, IsMap
<1>5. entry.body = TRUE
  OBVIOUS
<1> HIDE DEF args, entry
<1>6. /\ FnOK(fn') /\ fn'.name = f /\ fn'.complete = FALSE
  BY <1>1, <1>2, <1>4, NewFunctionOK
<1>7. /\ StackInv' /\ Generating' /\ Depth' = 1 /\ stack'[1].node = r
      /\ \A j \in 1..Depth' : Len(stack'[j].bbs) = 0
  <2> DEFINE fr == NewFrame(r)
  <2>1. /\ fr \in Frame /\ Len(fr.bbs) = 0 /\ GoesOn(fr) /\ fr.node = r
        /\ <<fr>> \in Seq(Frame) /\ Len(<<fr>>) = 1 /\ <<fr>>[1] = fr
    BY <1>2, FreshFrame
  <2>2. stack' = <<fr>> /\ result' = Pending
    BY <1>1
  <2> HIDE DEF fr
  <2>3. Depth' = 1 /\ Top' = fr /\ Generating'
    BY <2>1, <2>2 DEF Depth, Top, Generating
  <2>4. GoesOn(Top)'
    BY <2>1, <2>3 DEF GoesOn, Fits, NullFree, CarriesOn, BoundFor, BlocksHeld, Arity
  <2> QED
    BY <2>1, <2>2, <2>3, <2>4 DEF StackInv
<1>8. GenInv'
  <2>1. NamedValues' \in [Var -> Slot]
    BY <1>1, <1>2, <1>4, ParamScopeType
  <2>2. IsMap(FunctionProtos', Fn, Seq(Var))
    BY <1>1, <1>2, <1>3, MapKeeps
  <2>3. IsMap(TheModule', Fn, [args : Seq(Var), body : BOOLEAN])
    BY <1>1, <1>2, <1>3, <1>4, MapKeeps DEF ModuleOK
  <2>4. TypeOK'
    BY <1>1, <1>3, <1>6, <1>7, <2>1, <2>2, <2>3 DEF TypeOK, StackInv, FnOK, BlockIds, Pending
  <2> QED
    BY <1>6, <1>7, <2>4 DEF GenInv
<1>9. IsMap(BinopPrecedence', Op, 1..100)
  <2>1. IsMap(BinopPrecedence, Op, 1..100)
    BY DEF SessionInv
  <2>2. CASE IsBinaryOp(f)
    <3>1. f[2] \in Op
      BY <1>2, <2>2, BinaryName
    <3> QED
      BY <1>1, <1>2, <2>1, <2>2, <3>1, MapKeeps
  <2> QED
    BY <1>1, <2>1, <2>2
<1>10. DOMAIN FunctionProtos \subseteq DOMAIN FunctionProtos' /\ f \in DOMAIN FunctionProtos'
  BY <1>1 DEF Put
<1>11. (\A op \in DOMAIN BinopPrecedence : Known(op))'
  <2>1. \A op \in DOMAIN BinopPrecedence : Known(op)'
    BY <1>10, KnownGrows DEF SessionInv
  <2>2. CASE IsBinaryOp(f)
    <3>1. f = BinaryFn(f[2])
      BY <1>2, <2>2, BinaryName
    <3>2. Known(f[2])'
      BY <1>10, <3>1 DEF Known
    <3>3. DOMAIN BinopPrecedence' = DOMAIN BinopPrecedence \cup {f[2]}
      BY <1>1, <2>2 DEF Put
    <3>4. \A op \in DOMAIN BinopPrecedence' : Known(op)'
      BY <2>1, <3>2, <3>3
    <3> QED
      BY <3>4
  <2>3. CASE ~IsBinaryOp(f)
    <3>1. BinopPrecedence' = BinopPrecedence
      BY <1>1, <2>3
    <3> QED
      BY <2>1, <3>1
  <2> QED
    BY <2>2, <2>3
<1>12. (\A j \in 1..Depth : OperatorsKnown(BodyOf[stack[j].node]))'
  <2>1. OperatorsKnown(r)
    BY <1>1 DEF Parses, OperatorsKnown, SessionInv
  <2>2. OperatorsKnown(r)'
    BY <1>10, <2>1, KnownGrows
  <2> QED
    BY <1>2, <1>7, <2>2
<1>13. OnlyCurrentBody'
  <2>1. \A g \in DOMAIN TheModule : ~TheModule[g].body
    BY <1>1 DEF SessionInv, OnlyCurrentBody, Ready
  <2>2. \A g \in DOMAIN TheModule' : TheModule'[g].body => g = f
    BY <1>1, <2>1 DEF Put
  <2>3. fn' # NoFunction
    BY <1>2, <1>6, NoFunctionUnnamed
  <2> QED
    BY <1>6, <2>2, <2>3 DEF OnlyCurrentBody
<1> QED
  BY <1>1, <1>2, <1>6, <1>8, <1>9, <1>11, <1>12, <1>13 DEF SessionInv, NoAssertFailure

\* An extern adds a prototype and a declaration.
LEMMA ExternKeeps ==
  ASSUME SessionInv, NEW e \in Externs, HandleExtern(e)
  PROVE  SessionInv'
<1> DEFINE entry == [args |-> e[2], body |-> FALSE]
<1>1. /\ fn = NoFunction
      /\ TheModule' = IF e[1] \in DOMAIN TheModule THEN TheModule ELSE Put(TheModule, e[1], entry)
      /\ FunctionProtos' = Put(FunctionProtos, e[1], e[2])
      /\ UNCHANGED <<stack, result, NamedValues, fn, fault, BinopPrecedence, jit>>
  BY DEF HandleExtern, Recorded, Ready
<1>2. e[1] \in Fn /\ e[2] \in Seq(Var)
  BY SessionAssumption
<1>3. entry \in [args : Seq(Var), body : BOOLEAN] /\ entry.body = FALSE
  BY <1>2
<1> HIDE DEF entry
<1>4. IsMap(FunctionProtos', Fn, Seq(Var))
  BY <1>1, <1>2, MapKeeps DEF SessionInv, GenInv, TypeOK
<1>5. IsMap(TheModule', Fn, [args : Seq(Var), body : BOOLEAN])
  BY <1>1, <1>2, <1>3, MapKeeps DEF SessionInv, GenInv, TypeOK
<1>6. GenInv'
  <2>1. StackInv'
    BY <1>1 DEF SessionInv, GenInv, StackInv, Waits, GotValue, GoesOn, Generating, Depth, Top
  <2>2. TypeOK'
    BY <1>1, <1>4, <1>5 DEF SessionInv, GenInv, TypeOK, BlockIds, Depth
  <2> QED
    BY <1>1, <2>1, <2>2 DEF SessionInv, GenInv, Generating, FnOK
<1>7. DOMAIN FunctionProtos \subseteq DOMAIN FunctionProtos'
  BY <1>1 DEF Put
<1>8. (\A op \in DOMAIN BinopPrecedence : Known(op))'
  <2>1. \A op \in DOMAIN BinopPrecedence : Known(op)'
    BY <1>7, KnownGrows DEF SessionInv
  <2> QED
    BY <1>1, <2>1
<1>9. (\A j \in 1..Depth : OperatorsKnown(BodyOf[stack[j].node]))'
  <2>1. \A j \in 1..Depth : OperatorsKnown(BodyOf[stack[j].node])'
    <3>1. ASSUME NEW j \in 1..Depth, OperatorsKnown(BodyOf[stack[j].node])
          PROVE  OperatorsKnown(BodyOf[stack[j].node])'
      BY <1>1, <1>7, <3>1 DEF OperatorsKnown, Known
    <3> QED
      BY <3>1 DEF SessionInv
  <2> QED
    BY <1>1, <2>1 DEF Depth
<1>10. OnlyCurrentBody'
  BY <1>1, <1>3 DEF SessionInv, OnlyCurrentBody, Put
<1> QED
  BY <1>1, <1>6, <1>8, <1>9, <1>10 DEF SessionInv, NoAssertFailure, Generating
\* The state between two items: no function, no activation.
LEMMA ModuleClosed ==
  ASSUME SessionInv, ~Generating, fn' = NoFunction, result' = Pending,
         UNCHANGED <<stack, NamedValues, FunctionProtos>>,
         fault' \in Faults \ {"assert"},
         ModuleOK(TheModule'), \A f \in DOMAIN TheModule' : ~TheModule'[f].body,
         IsMap(BinopPrecedence', Op, 1..100),
         DOMAIN BinopPrecedence' \subseteq DOMAIN BinopPrecedence,
         IsMap(jit', Fn, [arity : Nat, calls : SUBSET (Fn \X Nat)])
  PROVE  SessionInv'
<1>1. stack = <<>> /\ stack' = <<>> /\ Depth' = 0 /\ ~Generating'
  BY DEF Generating, Depth
<1>2. NoFunction \in FnRecord /\ NoFunction.cur = 0
  BY DEF NoFunction, FnRecord
<1>3. TypeOK'
  BY <1>1, <1>2 DEF SessionInv, GenInv, TypeOK, ModuleOK, Pending
<1>4. StackInv'
  BY <1>1 DEF StackInv
<1>5. GenInv'
  BY <1>1, <1>3, <1>4 DEF GenInv
<1>6. (\A op \in DOMAIN BinopPrecedence : Known(op))'
  BY DEF SessionInv, Known
<1> QED
  BY <1>1, <1>5, <1>6 DEF SessionInv, NoAssertFailure, OnlyCurrentBody

\* A finished definition goes to the JIT.
LEMMA DefinitionKeeps ==
  ASSUME SessionInv, AddDefinition
  PROVE  SessionInv'
<1>1. PICK calls \in SUBSET fn.calls :
        jit' = Put(jit, fn.name, [arity |-> Len(fn.args), calls |-> calls])
  BY DEF AddDefinition
<1>2. /\ fault = "none" /\ fn.complete /\ TheModule' = EmptyMap /\ fn' = NoFunction
      /\ result' = Pending
      /\ UNCHANGED <<stack, NamedValues, FunctionProtos, fault, BinopPrecedence>>
  BY DEF AddDefinition, Finished, NewModule
<1>3. fn \in FnRecord /\ ~Generating
  BY <1>2 DEF SessionInv, GenInv, TypeOK
<1>4. fn.name \in Fn
  BY <1>2, NoFunctionUnnamed DEF SessionInv
<1> DEFINE entry == [arity |-> Len(fn.args), calls |-> calls]
<1>5. entry \in [arity : Nat, calls : SUBSET (Fn \X Nat)]
  BY <1>3 DEF FnRecord
<1>6. jit' = Put(jit, fn.name, entry)
  BY <1>1
<1> HIDE DEF entry
<1>7. IsMap(jit', Fn, [arity : Nat, calls : SUBSET (Fn \X Nat)])
  BY <1>4, <1>5, <1>6, MapKeeps DEF SessionInv
<1>8. ModuleOK(TheModule') /\ \A f \in DOMAIN TheModule' : ~TheModule'[f].body
  BY <1>2, EmptyMapIsMap DEF ModuleOK, EmptyMap
<1> QED
  BY <1>2, <1>3, <1>7, <1>8, ModuleClosed DEF SessionInv, Faults
\* A finished expression is run and its module taken out of the JIT again.
LEMMA EvaluateKeeps ==
  ASSUME SessionInv, EvaluateExpression
  PROVE  SessionInv'
<1>1. PICK calls \in SUBSET fn.calls :
        /\ jit' = WithHost(Reach(calls))
        /\ fault' = IF RunSafely(jit', calls) THEN "none" ELSE "mismatch"
  BY DEF EvaluateExpression
<1>2. /\ fn.complete /\ TheModule' = EmptyMap /\ fn' = NoFunction /\ result' = Pending
      /\ UNCHANGED <<stack, NamedValues, FunctionProtos, BinopPrecedence>>
  BY DEF EvaluateExpression, Finished, NewModule
<1>3. ~Generating
  BY <1>2 DEF SessionInv
<1> DEFINE names == Reach(calls)
           Symbol == [arity : Nat, calls : SUBSET (Fn \X Nat)]
           host == [f \in DOMAIN HostArity |-> [arity |-> HostArity[f], calls |-> {}]]
<1>4. \A f \in DOMAIN HostArity : f \in Fn /\ host[f] \in Symbol
  BY SessionAssumption
<1>5. IsMap(jit', Fn, Symbol)
  <2>1. jit' = [f \in DOMAIN jit \cup (names \cap DOMAIN HostArity) |->
                  IF f \in DOMAIN jit THEN jit[f] ELSE host[f]]
    BY <1>1 DEF WithHost
  <2>2. \A f \in DOMAIN jit : f \in Fn /\ jit[f] \in Symbol
    BY DEF SessionInv, IsMap
  <2> HIDE DEF names, Symbol, host
  <2> QED
    BY <1>4, <2>1, <2>2 DEF IsMap
<1>6. ModuleOK(TheModule') /\ \A f \in DOMAIN TheModule' : ~TheModule'[f].body
  BY <1>2, EmptyMapIsMap DEF ModuleOK, EmptyMap
<1> QED
  BY <1>1, <1>2, <1>3, <1>5, <1>6, ModuleClosed DEF SessionInv, Faults

\* A body that failed is erased, and its operator forgotten.
LEMMA AbandonKeeps ==
  ASSUME SessionInv, AbandonBody
  PROVE  SessionInv'
<1>1. /\ fault = "none" /\ ~Generating /\ fn # NoFunction
      /\ TheModule' = Drop(TheModule, fn.name)
      /\ BinopPrecedence' = IF IsBinaryOp(fn.name) THEN Drop(BinopPrecedence, fn.name[2])
                                                   ELSE BinopPrecedence
      /\ fn' = NoFunction /\ result' = Pending
      /\ UNCHANGED <<stack, NamedValues, FunctionProtos, fault, jit>>
  BY DEF AbandonBody, Erased
<1>2. ModuleOK(TheModule')
  BY <1>1, MapKeeps DEF ModuleOK, SessionInv, GenInv, TypeOK
<1>3. \A f \in DOMAIN TheModule' : ~TheModule'[f].body
  BY <1>1 DEF SessionInv, OnlyCurrentBody, Drop
<1>4. /\ IsMap(BinopPrecedence', Op, 1..100)
      /\ DOMAIN BinopPrecedence' \subseteq DOMAIN BinopPrecedence
  BY <1>1, MapKeeps DEF SessionInv, Drop
<1> QED
  BY <1>1, <1>2, <1>3, <1>4, ModuleClosed DEF SessionInv, Faults

\* The process exits.
LEMMA DieKeeps ==
  ASSUME SessionInv, Die("duplicate") \/ Die("missing")
  PROVE  SessionInv'
<1>1. /\ fault' \in {"duplicate", "missing"}
      /\ UNCHANGED <<stack, result, NamedValues, FunctionProtos, TheModule, fn,
                     BinopPrecedence, jit>>
  BY DEF Die
<1>2. GenInv'
  BY <1>1, DeathKeeps DEF SessionInv, Faults
<1> QED
  BY <1>1, <1>2 DEF SessionInv, NoAssertFailure, OnlyCurrentBody, Known, OperatorsKnown,
     Generating, Depth

\* Every step of the session keeps the invariant.
LEMMA SessionKeeps ==
  ASSUME SessionInv, [SessionNext]_sessionVars
  PROVE  SessionInv'
<1>1. CASE UNCHANGED sessionVars
  <2>1. UNCHANGED <<stack, result, NamedValues, FunctionProtos, TheModule, fn, fault,
                    BinopPrecedence, jit>>
    BY <1>1 DEF sessionVars, vars
  <2>2. GenInv'
    BY <2>1, StutterKeeps DEF SessionInv, vars
  <2> QED
    BY <2>1, <2>2 DEF SessionInv, NoAssertFailure, OnlyCurrentBody, Known, OperatorsKnown,
       Generating, Depth
<1>2. CASE \E r \in Root : BeginFunction(r)
  BY <1>2, BeginKeeps
<1>3. CASE \E e \in Externs : HandleExtern(e)
  BY <1>3, ExternKeeps
<1>4. CASE Generate
  BY <1>4, GenerateKeeps
<1>5. CASE AddDefinition
  BY <1>5, DefinitionKeeps
<1>6. CASE EvaluateExpression
  BY <1>6, EvaluateKeeps
<1>7. CASE AbandonBody
  BY <1>7, AbandonKeeps
<1>8. CASE AddDuplicate \/ LookupFails
  BY <1>8, DieKeeps DEF AddDuplicate, LookupFails
<1> QED
  BY <1>1, <1>2, <1>3, <1>4, <1>5, <1>6, <1>7, <1>8 DEF SessionNext, Work

\* The invariant holds throughout every session.
LEMMA SessionInvariant == SessionSpec => []SessionInv
<1>1. SessionInit => SessionInv
  BY InitSessionInv
<1>2. SessionInv /\ [SessionNext]_sessionVars => SessionInv'
  BY SessionKeeps
<1> QED
  BY <1>1, <1>2, PTL DEF SessionSpec

-----------------------------------------------------------------------------
(* The theorems. *)

(***************************************************************************)
(* The tables of the session and the state of the generator stay well      *)
(* typed, and every basic block the generator holds on to exists, through  *)
(* any number of definitions, expressions and externs.                     *)
(***************************************************************************)
THEOREM SessionTypeCorrect == SessionSpec => []SessionTypeOK
<1>1. SessionInv => SessionTypeOK
  BY DEF SessionInv, SessionTypeOK, GenInv
<1> QED
  BY <1>1, SessionInvariant, PTL

(***************************************************************************)
(* assert(F && "binary operator not found!") in BinaryExprAST::codegen()   *)
(* never fails, in whatever order definitions of operators succeed, fail   *)
(* and are repeated.                                                       *)
(***************************************************************************)
THEOREM AssertNeverFails == SessionSpec => []NoAssertFailure
<1>1. SessionInv => NoAssertFailure
  BY DEF SessionInv
<1> QED
  BY <1>1, SessionInvariant, PTL

(***************************************************************************)
(* FunctionAST::codegen() leaves no body of an earlier function in the     *)
(* open module, whether that function succeeded or failed.                 *)
(***************************************************************************)
THEOREM NoBodyLeftBehind == SessionSpec => []OnlyCurrentBody
<1>1. SessionInv => OnlyCurrentBody
  BY DEF SessionInv
<1> QED
  BY <1>1, SessionInvariant, PTL

-----------------------------------------------------------------------------
(* Scopes in a session. *)

\* A body is entered with the scope of its function's parameters.
LEMMA BeginEnters ==
  ASSUME SessionInv, NEW r \in Root, BeginFunction(r)
  PROVE  Entered'
<1> DEFINE f == FnName[r]
           args == IF f \in DOMAIN TheModule THEN TheModule[f].args ELSE Params[r]
<1>1. stack' = <<NewFrame(r)>> /\ NamedValues' = ParamScope(r, args)
      /\ fn' = NewFunction(f, r, args)
  BY DEF BeginFunction, EnterBody, Arguments
<1>2. f \in Fn /\ args \in Seq(Var)
  <2>1. f \in Fn /\ Params[r] \in Seq(Var)
    BY AstAssumption
  <2>2. f \in DOMAIN TheModule => TheModule[f].args \in Seq(Var)
    BY DEF SessionInv, GenInv, TypeOK, IsMap
  <2> QED
    BY <2>1, <2>2
<1> HIDE DEF f, args
<1> QED
  BY <1>1, <1>2 DEF Entered

\* A step of the session keeps the scope, or enters a function.
LEMMA SessionKeepsScope ==
  ASSUME NamesDistinct, SessionInv, ScopeInv, [SessionNext]_sessionVars
  PROVE  ScopeInv' \/ Entered'
<1>1. CASE UNCHANGED sessionVars
  BY <1>1, ScopeIdle DEF sessionVars, vars
<1>2. ASSUME NEW r \in Root, BeginFunction(r)
      PROVE  Entered'
  BY <1>2, BeginEnters
<1>3. CASE \E e \in Externs : HandleExtern(e)
  BY <1>3, ScopeIdle DEF HandleExtern
<1>4. CASE Generate
  BY <1>4, ScopeKeeps DEF Generate, SessionInv
<1>5. CASE AddDefinition \/ EvaluateExpression \/ AbandonBody
  <2>1. fn' = NoFunction
    BY <1>5 DEF AddDefinition, EvaluateExpression, AbandonBody, NewModule
  <2>2. NoFunction.body = NoNode /\ NoNode \notin Root
    BY AstAssumption DEF NoFunction
  <2> QED
    BY <2>1, <2>2 DEF ScopeInv, OwnParameters
<1>6. CASE AddDuplicate \/ LookupFails
  BY <1>6, ScopeIdle DEF AddDuplicate, LookupFails, Die
<1> QED
  BY <1>1, <1>2, <1>3, <1>4, <1>5, <1>6 DEF SessionNext, Work

(***************************************************************************)
(* Every variable occurrence is compiled to the slot of the binder that    *)
(* lexically encloses it, in every function of a session, whatever the     *)
(* functions before it left in NamedValues (a body that failed leaves its  *)
(* local names there), provided that no var/in introduces a name twice.    *)
(***************************************************************************)
THEOREM VariablesResolveLexically ==
  ASSUME NamesDistinct
  PROVE  SessionSpec => []ResolvesLexically
<1>1. SessionInit => ScopeInv
  <2>1. NoFunction.body = NoNode /\ NoNode \notin Root
    BY AstAssumption DEF NoFunction
  <2> QED
    BY <2>1 DEF SessionInit, ScopeInv, OwnParameters
<1>2. SessionInv /\ ScopeInv /\ [SessionNext]_sessionVars => ScopeInv' \/ Entered'
  BY SessionKeepsScope
<1>3. Entered => ScopeInv
  BY ScopeEntered
<1>4. ScopeInv => ResolvesLexically
  BY ScopeHolds
<1> QED
  BY <1>1, <1>2, <1>3, <1>4, SessionInvariant, PTL DEF SessionSpec

-----------------------------------------------------------------------------
(* Calls and arities.  A declaration enters a module from a prototype that *)
(* the input wrote, stays in it unchanged while a function is generated,   *)
(* and is what a call's arguments were counted against before the first of *)
(* them was generated.                                                     *)

\* The prototypes of the input, as name and number of parameters.
Prototypes == {<<FnName[r], Len(Params[r])>> : r \in Root}
              \cup {<<e[1], Len(e[2])>> : e \in Externs}
HostPrototypes == {<<f, HostArity[f]>> : f \in DOMAIN HostArity}

\* A call that has been begun, its arguments counted, and not yet emitted.
Begun(j) == Ast[stack[j].node].kind = "call" /\ (j < Depth \/ Len(stack[j].vals) > 0)
Counted(n) == LET f == NamedFn(Ast[n].name)
              IN  f \in DOMAIN TheModule /\ Len(TheModule[f].args) = Arity(n)

CallInv ==
  /\ \A f \in DOMAIN FunctionProtos : <<f, Len(FunctionProtos[f])>> \in Prototypes
  /\ \A f \in DOMAIN TheModule : <<f, Len(TheModule[f].args)>> \in Prototypes
  /\ fn # NoFunction => <<fn.name, Len(fn.args)>> \in Prototypes
  /\ \A f \in DOMAIN jit : /\ <<f, jit[f].arity>> \in Prototypes \cup HostPrototypes
                           /\ jit[f].calls \subseteq Prototypes
  /\ \A j \in 1..Depth : Begun(j) => Counted(stack[j].node)
  /\ CallsMatchDeclarations
  /\ CallsAreSafeIfConsistent

\* An operator's prototype has as many parameters as the operator has operands.
LEMMA OperatorPrototypes ==
  ASSUME NEW op \in Op
  PROVE  /\ \A n : <<UnaryFn(op), n>> \in Prototypes => n = 1
         /\ \A n : <<BinaryFn(op), n>> \in Prototypes => n = 2
<1>1. ASSUME NEW f, NEW n, <<f, n>> \in Prototypes
      PROVE  (f[1] = "unary" => n = 1) /\ (f[1] = "binary" => n = 2)
  <2>1. \/ \E r \in Root : f = FnName[r] /\ n = Len(Params[r])
        \/ \E e \in Externs : f = e[1] /\ n = Len(e[2])
    <3>1. CASE <<f, n>> \in {<<FnName[r], Len(Params[r])>> : r \in Root}
      BY <3>1
    <3>2. CASE <<f, n>> \in {<<e[1], Len(e[2])>> : e \in Externs}
      BY <3>2
    <3> QED
      BY <1>1, <3>1, <3>2 DEF Prototypes
  <2> QED
    BY <2>1, SessionAssumption
<1>2. UnaryFn(op)[1] = "unary" /\ BinaryFn(op)[1] = "binary"
  BY DEF UnaryFn, BinaryFn
<1> QED
  BY <1>1, <1>2

\* getFunction() adds the declaration it returns and leaves the others.
LEMMA GetFunction ==
  ASSUME NEW f
  PROVE  /\ \A g \in DOMAIN TheModule : g \in DOMAIN WithDecl(f) /\ WithDecl(f)[g] = TheModule[g]
         /\ Declared(f) => f \in DOMAIN WithDecl(f) /\ WithDecl(f)[f].args = DeclArgs(f)
         /\ \A g \in DOMAIN WithDecl(f) :
              \/ g \in DOMAIN TheModule
              \/ g \in DOMAIN FunctionProtos /\ WithDecl(f)[g].args = FunctionProtos[g]
BY DEF WithDecl, Put, Declared, DeclArgs

\* What an action does to a call's number of arguments: nothing may be
\* returned into it but a value, and it is begun only by CallArgument.
LEMMA CallBegins ==
  ASSUME GenInv, Step, Generating, TopAst.kind = "call", Len(stack') >= Depth
  PROVE  CallArgument
<1>1. ASSUME NEW v, Return(v) PROVE FALSE
  <2>1. CASE Depth = 1
    BY <1>1, <2>1 DEF Return
  <2>2. CASE Depth # 1
    <3>1. Below \in Seq(Frame) /\ Len(Below) = Depth - 1 /\ Depth \in Nat
      BY TopIsFrame DEF GenInv, StackInv, Generating
    <3>2. stack' = [Below EXCEPT ![Depth - 1].vals = Append(@, v)]
      BY <1>1, <2>2 DEF Return
    <3> HIDE DEF Below
    <3>3. Len(stack') = Len(Below)
      BY <3>1, <3>2
    <3> QED
      BY <3>1, <3>3
  <2> QED
    BY <2>1, <2>2
<1>2. Call
  BY DEF Step, Number, Variable, VariableLoad, VariableUnknown, Unary, UnaryOperand, UnaryCall,
     UnaryUnknown, FailWith, Binary, AssignEnter, AssignStore, AssignUnknown, AssignUndefined,
     BinaryLHS, BinaryRHS, BinaryBuiltin, BinaryUser, BinaryAssertFails, BinaryFail, At,
     If, IfCondition, IfThen, IfElse, IfMerge, For, ForStart, ForBody, ForNext, ForLatch,
     VarIn, InVarIn, VarInitialiser, VarDefault, VarRegister, VarBody, VarLeave,
     ReturnBody, Generating
<1> QED
  BY <1>1, <1>2 DEF Call, CallReject, CallEmit, FailWith

\* The activation that Descend adds has no value yet.
LEMMA NewFramesAreEmpty ==
  ASSUME GenInv, Step, Generating, Len(stack') = Depth + 1
  PROVE  stack'[Depth + 1].vals = <<>>
<1>1. /\ Below \in Seq(Frame) /\ Len(Below) = Depth - 1 /\ Depth \in Nat /\ Depth >= 1
      /\ Len(stack) = Depth
  BY TopIsFrame DEF GenInv, StackInv, Generating, Depth
<1>2. ASSUME NEW f, NEW k, Descend(f, k) PROVE stack'[Depth + 1].vals = <<>>
  <2> DEFINE s == Append(Below, f)
             g == NewFrame(Ast[f.node].kids[k])
  <2>1. stack' = Append(s, g) /\ g.vals = <<>>
    BY <1>2 DEF Descend, NewFrame
  <2>2. Below \in Seq(Frame \cup {f, g})
    BY <1>1
  <2> HIDE DEF Below
  <2>3. s \in Seq(Frame \cup {f, g}) /\ Len(s) = Depth
    BY <1>1, <2>2
  <2> HIDE DEF s, g
  <2>4. Append(s, g)[Depth + 1] = g
    BY <2>3
  <2> QED
    BY <2>1, <2>4
<1>3. ASSUME NEW v, Return(v) PROVE FALSE
  <2>1. CASE Depth = 1
    BY <1>1, <1>3, <2>1 DEF Return
  <2>2. CASE Depth # 1
    <3>1. stack' = [Below EXCEPT ![Depth - 1].vals = Append(@, v)]
      BY <1>3, <2>2 DEF Return
    <3> HIDE DEF Below
    <3>2. Len(stack') = Len(Below)
      BY <1>1, <3>1
    <3> QED
      BY <1>1, <3>2
  <2> QED
    BY <2>1, <2>2
<1>4. ASSUME NEW f, stack' = Append(Below, f) PROVE FALSE
  <2>1. Below \in Seq(Frame \cup {f})
    BY <1>1
  <2> HIDE DEF Below
  <2>2. Len(Append(Below, f)) = Depth
    BY <1>1, <2>1
  <2> QED
    BY <1>1, <1>4, <2>2
<1>5. stack' # stack
  BY <1>1
<1>6. \A vals : ~Bind(vals)
  BY <1>4 DEF Bind
<1>7. CASE Number \/ Variable \/ Unary \/ Call
  BY <1>2, <1>3, <1>7 DEF Number, Variable, VariableLoad, VariableUnknown, Unary,
     UnaryOperand, UnaryCall, UnaryUnknown, FailWith, Call, CallReject, CallArgument, CallEmit
<1>8. CASE Binary
  BY <1>2, <1>3, <1>5, <1>8 DEF Binary, AssignEnter, AssignStore, AssignUnknown,
     AssignUndefined, BinaryLHS, BinaryRHS, BinaryBuiltin, BinaryUser, BinaryAssertFails,
     BinaryFail
<1>9. CASE If
  BY <1>2, <1>3, <1>9 DEF If, IfCondition, IfThen, IfElse, IfMerge, FailWith
<1>10. CASE For
  BY <1>2, <1>3, <1>10 DEF For, ForStart, ForBody, ForNext, ForLatch, FailWith
<1>11. CASE VarIn
  BY <1>2, <1>3, <1>6, <1>11 DEF VarIn, VarInitialiser, VarDefault, VarRegister, VarBody,
     VarLeave, FailWith
<1>12. CASE ReturnBody
  BY <1>5, <1>12 DEF ReturnBody
<1> QED
  BY <1>7, <1>8, <1>9, <1>10, <1>11, <1>12 DEF Step

\* The innermost activation descends into a new one, which has no value yet;
\* the other activations are as they were, or have one value more.
LEMMA CallsBegun ==
  ASSUME GenInv, Step, Generating, GenInv', NEW j \in 1..Depth', Begun(j)'
  PROVE  /\ j \in 1..Depth /\ stack'[j].node = stack[j].node
         /\ Begun(j) \/ (CallArgument /\ j = Depth)
<1>1. stack \in Seq(Frame) /\ stack' \in Seq(Frame) /\ Depth \in Nat /\ Depth' = Len(stack')
      /\ Depth >= 1 /\ Depth' \in Nat
  BY AtTop DEF GenInv, StackInv, Depth
<1>2. SameNodes
  BY <1>1, StepKeepsNodes
<1>3. CASE j < Depth
  <2>1. j \in 1..Depth /\ stack'[j].node = stack[j].node
    BY <1>1, <1>2, <1>3 DEF SameNodes
  <2> QED
    BY <1>3, <2>1 DEF Begun
<1>4. CASE j = Depth
  <2>1. j \in 1..Depth /\ stack'[j].node = stack[j].node
    BY <1>1, <1>2, <1>4 DEF SameNodes
  <2>2. TopAst.kind = "call"
    BY <1>4, <2>1 DEF Begun, TopAst, Top
  <2>3. Len(stack') >= Depth
    BY <1>1, <1>4
  <2> QED
    BY <1>4, <2>1, <2>2, <2>3, CallBegins
<1>5. CASE j > Depth
  <2>1. j = Depth + 1 /\ Depth' = Depth + 1
    BY <1>1, <1>2, <1>5 DEF SameNodes
  <2>2. stack'[j].vals = <<>>
    BY <1>1, <2>1, NewFramesAreEmpty
  <2> QED
    BY <2>1, <2>2 DEF Begun
<1> QED
  BY <1>1, <1>3, <1>4, <1>5

\* The generator does not run code.
LEMMA StepNeverMismatches ==
  ASSUME Step
  PROVE  fault' # "mismatch" \/ fault' = fault
BY DEF Step, Number, Variable, VariableLoad, VariableUnknown, Unary, UnaryOperand, UnaryCall,
   UnaryUnknown, FailWith, Binary, AssignEnter, AssignStore, AssignUnknown, AssignUndefined,
   BinaryLHS, BinaryRHS, BinaryBuiltin, BinaryUser, BinaryAssertFails, BinaryFail,
   Call, CallReject, CallArgument, CallEmit, If, IfCondition, IfThen, IfElse, IfMerge,
   For, ForStart, ForBody, ForNext, ForLatch, VarIn, VarInitialiser, VarDefault, VarRegister,
   VarBody, VarLeave, Bind, ReturnBody

\* Emitting a call adds it to the calls of the function.
LEMMA CallAdded ==
  ASSUME fn \in FnRecord, NEW V, NEW f, NEW n, fn' = AddCall(Use(fn, V), f, n)
  PROVE  fn'.calls = fn.calls \cup {<<f, n>>}
BY DEF FnRecord, AddCall, Use

\* Every call that is emitted agrees with the declaration.
LEMMA EmittedCalls ==
  ASSUME SessionInv, CallInv, Step, Generating,
         \A f \in DOMAIN TheModule' : <<f, Len(TheModule'[f].args)>> \in Prototypes,
         \A f \in DOMAIN TheModule : f \in DOMAIN TheModule' /\ TheModule'[f] = TheModule[f]
  PROVE  CallsMatchDeclarations'
<1> DEFINE Fits1(f, n) == f \in DOMAIN TheModule' /\ Len(TheModule'[f].args) = n
<1>1. fn \in FnRecord /\ Top.node \in Node /\ TopAst = Ast[Top.node] /\ Depth \in 1..Depth
      /\ Done \in Nat /\ Done = Len(Top.vals) /\ Top = stack[Depth]
      /\ Arity(Top.node) = Len(TopAst.kids)
  BY AtTop DEF SessionInv, GenInv, TypeOK, Top
<1>2. \A c \in fn.calls : Fits1(c[1], c[2])
  BY DEF CallInv, CallsMatchDeclarations
<1>3. ASSUME NEW V, NEW f, NEW n, fn' = AddCall(Use(fn, V), f, n), Fits1(f, n)
      PROVE  CallsMatchDeclarations'
  <2>1. fn'.calls = fn.calls \cup {<<f, n>>}
    BY <1>1, <1>3, CallAdded
  <2>2. \A c \in fn'.calls : Fits1(c[1], c[2])
    BY <1>2, <1>3, <2>1
  <2> QED
    BY <2>2 DEF CallsMatchDeclarations
<1>4. CASE UnaryCall
  <2> DEFINE f == UnaryFn(TopAst.name)
  <2>1. /\ fn' = AddCall(Use(fn, {Latest}), f, 1) /\ TheModule' = WithDecl(f) /\ Declared(f)
        /\ TopAst.kind = "unary"
    BY <1>4 DEF UnaryCall, At
  <2>2. TopAst.name \in Op
    BY <1>1, <2>1, AstAssumption
  <2>3. f \in DOMAIN TheModule'
    BY <2>1, GetFunction
  <2>4. Len(TheModule'[f].args) = 1
    BY <2>2, <2>3, OperatorPrototypes
  <2> QED
    BY <1>3, <2>1, <2>3, <2>4
<1>5. CASE BinaryUser
  <2> DEFINE f == BinaryFn(TopAst.name)
  <2>1. /\ fn' = AddCall(Use(fn, Operands), f, 2) /\ TheModule' = WithDecl(f) /\ Declared(f)
        /\ TopAst.kind = "binary"
    BY <1>5 DEF BinaryUser, At
  <2>2. TopAst.name \in Op
    BY <1>1, <2>1, AstAssumption
  <2>3. f \in DOMAIN TheModule'
    BY <2>1, GetFunction
  <2>4. Len(TheModule'[f].args) = 2
    BY <2>2, <2>3, OperatorPrototypes
  <2> QED
    BY <1>3, <2>1, <2>3, <2>4
<1>6. CASE CallEmit
  <2>1. /\ \E V : fn' = AddCall(Use(fn, V), CalleeFn, Done)
        /\ TheModule' = WithDecl(CalleeFn) /\ TopAst.kind = "call"
        /\ Done = Len(TopAst.kids) /\ (Done = 0 => CalleeAccepts)
    BY <1>6 DEF CallEmit, At
  <2>2. CASE Done = 0
    <3>1. Declared(CalleeFn) /\ Len(DeclArgs(CalleeFn)) = Done
      BY <2>1, <2>2 DEF CalleeAccepts
    <3>2. Fits1(CalleeFn, Done)
      BY <2>1, <3>1, GetFunction
    <3> QED
      BY <1>3, <2>1, <3>2
  <2>3. CASE Done # 0
    <3>1. Begun(Depth)
      BY <1>1, <2>1, <2>3 DEF Begun
    <3>2. Counted(Top.node)
      BY <1>1, <3>1 DEF CallInv
    <3>3. CalleeFn \in DOMAIN TheModule /\ Len(TheModule[CalleeFn].args) = Done
      BY <1>1, <2>1, <3>2 DEF Counted, CalleeFn
    <3>4. Fits1(CalleeFn, Done)
      BY <3>3
    <3> QED
      BY <1>3, <2>1, <3>4
  <2> QED
    BY <2>2, <2>3
<1>7. CASE fn'.calls = fn.calls
  BY <1>2, <1>7 DEF CallsMatchDeclarations
<1> QED
  BY <1>1, <1>4, <1>5, <1>6, <1>7, StepKeepsHeader

\* A step of the generator.
LEMMA GenerateCalls ==
  ASSUME SessionInv, SessionInv', CallInv, Generate
  PROVE  CallInv'
<1>1. Step /\ UNCHANGED <<BinopPrecedence, jit, FunctionProtos>>
  BY DEF Generate, Step
<1>2. /\ GenInv /\ GenInv' /\ stack \in Seq(Frame) /\ stack' \in Seq(Frame)
      /\ fn \in FnRecord /\ fn' \in FnRecord
  BY DEF SessionInv, GenInv, TypeOK
<1> DEFINE ModuleGrows(m) ==
      /\ \A f \in DOMAIN TheModule : f \in DOMAIN m /\ m[f] = TheModule[f]
      /\ \A f \in DOMAIN m :
           f \notin DOMAIN TheModule => (f \in DOMAIN FunctionProtos /\ m[f].args = FunctionProtos[f])
<1>3. ModuleGrows(TheModule')
  <2>1. CASE TheModule' = TheModule
    BY <2>1
  <2>2. ASSUME NEW g, TheModule' = WithDecl(g) PROVE ModuleGrows(TheModule')
    BY <2>2, GetFunction
  <2> QED
    BY <1>1, <2>1, <2>2, StepDeclares
<1>4. \A f \in DOMAIN TheModule' : <<f, Len(TheModule'[f].args)>> \in Prototypes
  BY <1>3 DEF CallInv
<1>5. fn'.name = fn.name /\ fn'.args = fn.args
  BY <1>1, <1>2, StepKeepsHeader
<1>6. fn' # NoFunction => <<fn'.name, Len(fn'.args)>> \in Prototypes
  <2>1. SUFFICES ASSUME fn' # NoFunction PROVE <<fn'.name, Len(fn'.args)>> \in Prototypes
    OBVIOUS
  <2>2. fn.name \in Fn
    BY <1>5, <2>1 DEF SessionInv
  <2>3. fn # NoFunction
    BY <2>2, NoFunctionUnnamed
  <2> QED
    BY <1>5, <2>3 DEF CallInv
<1>7. (\A j \in 1..Depth : Begun(j) => Counted(stack[j].node))'
  <2>1. SUFFICES ASSUME NEW j \in 1..Depth', Begun(j)'
                 PROVE  Counted(stack[j].node)'
    OBVIOUS
  <2>2. Generating
    <3>1. Generating'
      BY <1>2, <2>1 DEF Generating, Depth
    <3> QED
      BY <1>1, <1>2, <3>1, StepKeepsNodes
  <2>3. /\ j \in 1..Depth /\ stack'[j].node = stack[j].node
        /\ Begun(j) \/ (CallArgument /\ j = Depth)
    BY <1>1, <1>2, <2>1, <2>2, CallsBegun
  <2> DEFINE n == stack[j].node
             f == NamedFn(Ast[n].name)
             Agrees == f \in DOMAIN TheModule' /\ Len(TheModule'[f].args) = Len(Ast[n].kids)
  <2>4. Agrees => Counted(stack[j].node)'
    BY <2>3 DEF Counted, Arity
  <2>5. CASE Begun(j)
    <3>1. Counted(n)
      BY <2>3, <2>5 DEF CallInv
    <3>2. f \in DOMAIN TheModule /\ Len(TheModule[f].args) = Len(Ast[n].kids)
      BY <3>1 DEF Counted, Arity
    <3> QED
      BY <1>3, <2>4, <3>2
  <2>6. CASE CallArgument /\ j = Depth /\ ~Begun(j)
    <3>1. /\ TheModule' = WithDecl(CalleeFn) /\ TopAst.kind = "call"
          /\ Done = 0 => CalleeAccepts
      BY <2>6 DEF CallArgument
    <3>2. /\ Top = stack[Depth] /\ TopAst = Ast[Top.node] /\ Done = Len(Top.vals) /\ Done \in Nat
          /\ Top.node = stack[j].node /\ Arity(Top.node) = Len(TopAst.kids)
      BY <1>2, <2>2, <2>6, AtTop DEF Top
    <3>3. Done = 0
      BY <2>6, <3>1, <3>2 DEF Begun
    <3>4. Declared(CalleeFn) /\ Len(DeclArgs(CalleeFn)) = Arity(Top.node)
      BY <3>1, <3>2, <3>3 DEF CalleeAccepts
    <3>5. CalleeFn \in DOMAIN TheModule' /\ Len(TheModule'[CalleeFn].args) = Arity(Top.node)
      BY <3>1, <3>4, GetFunction
    <3>6. CalleeFn = f /\ Arity(Top.node) = Len(Ast[n].kids)
      BY <3>2 DEF CalleeFn, Arity
    <3> QED
      BY <2>4, <3>5, <3>6
  <2> QED
    BY <2>3, <2>5, <2>6
<1>8. CallsMatchDeclarations'
  <2>1. CASE Generating
    BY <1>1, <1>3, <1>4, <2>1, EmittedCalls
  <2>2. CASE ~Generating
    <3>1. ReturnBody
      BY <1>1, <2>2, OutsideStep
    <3>2. fn'.calls = fn.calls /\ TheModule' = TheModule
      BY <1>1, <1>2, <2>2, <3>1, StepKeepsHeader
         DEF ReturnBody, UnaryCall, BinaryUser, CallEmit, At, Generating
    <3> QED
      BY <3>2 DEF CallInv, CallsMatchDeclarations
  <2> QED
    BY <2>1, <2>2
<1>9. CallsAreSafeIfConsistent'
  <2>1. fault' # "mismatch"  \/ fault' = fault
    BY <1>1, StepNeverMismatches
  <2> QED
    BY <2>1 DEF CallInv, CallsAreSafeIfConsistent, CallsAreSafe
<1> QED
  BY <1>1, <1>4, <1>6, <1>7, <1>8, <1>9 DEF CallInv

\* A function is entered: its prototype is recorded, no call is made yet.
LEMMA BeginCalls ==
  ASSUME SessionInv, CallInv, NEW r \in Root, BeginFunction(r)
  PROVE  CallInv'
<1> DEFINE f == FnName[r]
           args == IF f \in DOMAIN TheModule THEN TheModule[f].args ELSE Params[r]
           entry == [args |-> args, body |-> TRUE]
<1>1. /\ FunctionProtos' = Put(FunctionProtos, f, Params[r])
      /\ TheModule' = Put(TheModule, f, entry)
      /\ stack' = <<NewFrame(r)>>
      /\ fn' = NewFunction(f, r, args)
      /\ UNCHANGED <<jit, fault>>
  BY DEF BeginFunction, Recorded, EnterBody
<1>2. <<f, Len(Params[r])>> \in Prototypes
  BY DEF Prototypes
<1>3. <<f, Len(args)>> \in Prototypes
  BY <1>2 DEF CallInv
<1>4. entry.args = args
  OBVIOUS
<1>5. fn'.name = f /\ fn'.args = args /\ fn'.calls = {}
  BY <1>1 DEF NewFunction, NoFunction
<1> HIDE DEF args, entry
<1>6. Depth' = 1 /\ stack'[1].vals = <<>>
  BY <1>1 DEF Depth, NewFrame
<1>7. \A g \in DOMAIN FunctionProtos' : <<g, Len(FunctionProtos'[g])>> \in Prototypes
  BY <1>1, <1>2 DEF CallInv, Put
<1>8. \A g \in DOMAIN TheModule' : <<g, Len(TheModule'[g].args)>> \in Prototypes
  BY <1>1, <1>3, <1>4 DEF CallInv, Put
<1>9. (\A j \in 1..Depth : Begun(j) => Counted(stack[j].node))'
  BY <1>6 DEF Begun
<1>10. CallsMatchDeclarations'
  BY <1>5 DEF CallsMatchDeclarations
<1>11. CallsAreSafeIfConsistent'
  BY <1>1 DEF CallInv, CallsAreSafeIfConsistent, CallsAreSafe
<1> QED
  BY <1>1, <1>3, <1>5, <1>7, <1>8, <1>9, <1>10, <1>11 DEF CallInv

\* An extern is recorded.
LEMMA ExternCalls ==
  ASSUME SessionInv, CallInv, NEW e \in Externs, HandleExtern(e)
  PROVE  CallInv'
<1> DEFINE entry == [args |-> e[2], body |-> FALSE]
<1>1. /\ fn = NoFunction /\ stack' = stack
      /\ TheModule' = IF e[1] \in DOMAIN TheModule THEN TheModule ELSE Put(TheModule, e[1], entry)
      /\ FunctionProtos' = Put(FunctionProtos, e[1], e[2])
      /\ UNCHANGED <<fn, fault, jit>>
  BY DEF HandleExtern, Recorded, Ready
<1>2. <<e[1], Len(e[2])>> \in Prototypes
  BY DEF Prototypes
<1>3. entry.args = e[2]
  OBVIOUS
<1> HIDE DEF entry
<1>4. \A g \in DOMAIN FunctionProtos' : <<g, Len(FunctionProtos'[g])>> \in Prototypes
  BY <1>1, <1>2 DEF CallInv, Put
<1>5. \A g \in DOMAIN TheModule' : <<g, Len(TheModule'[g].args)>> \in Prototypes
  BY <1>1, <1>2, <1>3 DEF CallInv, Put
<1>6. \A g \in DOMAIN TheModule : g \in DOMAIN TheModule' /\ TheModule'[g] = TheModule[g]
  BY <1>1 DEF Put
<1>7. (\A j \in 1..Depth : Begun(j) => Counted(stack[j].node))'
  <2>1. \A j \in 1..Depth' : Begun(j)' => Begun(j) /\ j \in 1..Depth
    BY <1>1 DEF Begun, Depth
  <2>2. \A n : Counted(n) => Counted(n)'
    BY <1>6 DEF Counted, Arity
  <2> QED
    BY <1>1, <2>1, <2>2 DEF CallInv, Counted, Arity
<1>8. CallsMatchDeclarations'
  BY <1>1 DEF CallsMatchDeclarations, NoFunction
<1>9. CallsAreSafeIfConsistent'
  BY <1>1 DEF CallInv, CallsAreSafeIfConsistent, CallsAreSafe
<1> QED
  BY <1>1, <1>4, <1>5, <1>7, <1>8, <1>9 DEF CallInv

\* The state between two items.
LEMMA CallsClosed ==
  ASSUME CallInv, ~Generating, fn' = NoFunction, UNCHANGED <<stack, FunctionProtos>>,
         \A f \in DOMAIN TheModule' : f \in DOMAIN TheModule /\ TheModule'[f] = TheModule[f],
         \A f \in DOMAIN jit' : /\ <<f, jit'[f].arity>> \in Prototypes \cup HostPrototypes
                                /\ jit'[f].calls \subseteq Prototypes,
         CallsAreSafeIfConsistent'
  PROVE  CallInv'
<1>1. Depth' = 0
  BY DEF Generating, Depth
<1>2. CallsMatchDeclarations'
  BY DEF CallsMatchDeclarations, NoFunction
<1>3. \A f \in DOMAIN TheModule' : <<f, Len(TheModule'[f].args)>> \in Prototypes
  BY DEF CallInv
<1> QED
  BY <1>1, <1>2, <1>3 DEF CallInv

\* The calls of a function pass what some prototype of the callee takes.
LEMMA CallsAsWritten ==
  ASSUME SessionInv, CallInv
  PROVE  fn.calls \subseteq Prototypes
<1>1. fn.calls \subseteq Fn \X Nat
  BY DEF SessionInv, GenInv, TypeOK, FnRecord
<1>2. ASSUME NEW c \in fn.calls PROVE c \in Prototypes
  <2>1. c = <<c[1], c[2]>>
    BY <1>1
  <2>2. c[1] \in DOMAIN TheModule /\ Len(TheModule[c[1]].args) = c[2]
    BY DEF CallInv, CallsMatchDeclarations
  <2>3. <<c[1], c[2]>> \in Prototypes
    BY <2>2 DEF CallInv
  <2> QED
    BY <2>1, <2>3
<1> QED
  BY <1>2

\* A finished definition goes to the JIT with the arity of its declaration.
LEMMA DefinitionCalls ==
  ASSUME SessionInv, CallInv, AddDefinition
  PROVE  CallInv'
<1>1. PICK calls \in SUBSET fn.calls :
        jit' = Put(jit, fn.name, [arity |-> Len(fn.args), calls |-> calls])
  BY DEF AddDefinition
<1>2. /\ fn.complete /\ TheModule' = EmptyMap /\ fn' = NoFunction
      /\ UNCHANGED <<stack, FunctionProtos, fault>>
  BY DEF AddDefinition, Finished, NewModule
<1>3. ~Generating /\ fn # NoFunction
  BY <1>2, NoFunctionUnnamed DEF SessionInv
<1> DEFINE entry == [arity |-> Len(fn.args), calls |-> calls]
<1>4. <<fn.name, entry.arity>> \in Prototypes /\ entry.calls \subseteq Prototypes
  BY <1>1, <1>3, CallsAsWritten DEF CallInv
<1>5. jit' = Put(jit, fn.name, entry)
  BY <1>1
<1> HIDE DEF entry
<1>6. \A f \in DOMAIN jit' : /\ <<f, jit'[f].arity>> \in Prototypes \cup HostPrototypes
                             /\ jit'[f].calls \subseteq Prototypes
  BY <1>4, <1>5 DEF CallInv, Put
<1>7. CallsAreSafeIfConsistent'
  BY <1>2 DEF CallInv, CallsAreSafeIfConsistent, CallsAreSafe
<1> QED
  BY <1>2, <1>3, <1>6, <1>7, CallsClosed DEF EmptyMap

\* If all prototypes of a name agree, no call of compiled code is at odds with
\* the function it calls.
LEMMA ConsistentRunsSafely ==
  ASSUME ConsistentArities, NEW table, NEW calls \in SUBSET Prototypes,
         \A f \in DOMAIN table : /\ <<f, table[f].arity>> \in Prototypes \cup HostPrototypes
                                 /\ table[f].calls \subseteq Prototypes
  PROVE  RunSafely(table, calls)
<1>1. \A x, y \in Prototypes \cup HostPrototypes : x[1] = y[1] => x[2] = y[2]
  BY DEF ConsistentArities, Prototypes, HostPrototypes
<1>2. ASSUME NEW made \in SUBSET Prototypes PROVE Mismatches(table, made) = {}
  <2>1. ASSUME NEW c \in made, c[1] \in DOMAIN table PROVE c[2] = table[c[1]].arity
    <3> DEFINE t == <<c[1], table[c[1]].arity>>
    <3>1. t \in Prototypes \cup HostPrototypes /\ t[1] = c[1] /\ t[2] = table[c[1]].arity
      BY <2>1
    <3>2. c \in Prototypes \cup HostPrototypes
      OBVIOUS
    <3> HIDE DEF t
    <3> QED
      BY <1>1, <3>1, <3>2
  <2> QED
    BY <2>1 DEF Mismatches
<1> QED
  BY <1>2 DEF RunSafely

\* An expression is run against the JIT's symbols and the process's own.
LEMMA EvaluateCalls ==
  ASSUME SessionInv, CallInv, EvaluateExpression
  PROVE  CallInv'
<1>1. PICK calls \in SUBSET fn.calls :
        /\ jit' = WithHost(Reach(calls))
        /\ fault' = IF RunSafely(jit', calls) THEN "none" ELSE "mismatch"
  BY DEF EvaluateExpression
<1>2. /\ fn.complete /\ TheModule' = EmptyMap /\ fn' = NoFunction
      /\ UNCHANGED <<stack, FunctionProtos>>
  BY DEF EvaluateExpression, Finished, NewModule
<1>3. ~Generating
  BY <1>2 DEF SessionInv
<1> DEFINE names == Reach(calls)
           host == [f \in DOMAIN HostArity |-> [arity |-> HostArity[f], calls |-> {}]]
<1>4. jit' = [f \in DOMAIN jit \cup (names \cap DOMAIN HostArity) |->
                IF f \in DOMAIN jit THEN jit[f] ELSE host[f]]
  BY <1>1 DEF WithHost
<1>5. \A f \in DOMAIN HostArity : /\ <<f, host[f].arity>> \in Prototypes \cup HostPrototypes
                                  /\ host[f].calls \subseteq Prototypes
  BY DEF HostPrototypes
<1> HIDE DEF names, host
<1>6. \A f \in DOMAIN jit' : /\ <<f, jit'[f].arity>> \in Prototypes \cup HostPrototypes
                             /\ jit'[f].calls \subseteq Prototypes
  BY <1>4, <1>5 DEF CallInv
<1>7. CallsAreSafeIfConsistent'
  <2>1. SUFFICES ASSUME ConsistentArities PROVE fault' # "mismatch"
    BY DEF CallsAreSafeIfConsistent, CallsAreSafe, ConsistentArities
  <2>2. calls \in SUBSET Prototypes
    BY <1>1, CallsAsWritten
  <2>3. RunSafely(jit', calls)
    BY <1>6, <2>1, <2>2, ConsistentRunsSafely
  <2> QED
    BY <1>1, <2>3
<1> QED
  BY <1>2, <1>3, <1>6, <1>7, CallsClosed DEF EmptyMap

\* A body that failed is erased.
LEMMA AbandonCalls ==
  ASSUME SessionInv, CallInv, AbandonBody
  PROVE  CallInv'
<1>1. /\ ~Generating /\ TheModule' = Drop(TheModule, fn.name)
      /\ fn' = NoFunction
      /\ UNCHANGED <<stack, FunctionProtos, fault, jit>>
  BY DEF AbandonBody, Erased
<1>2. \A f \in DOMAIN TheModule' : f \in DOMAIN TheModule /\ TheModule'[f] = TheModule[f]
  BY <1>1 DEF Drop
<1>3. CallsAreSafeIfConsistent'
  BY <1>1 DEF CallInv, CallsAreSafeIfConsistent, CallsAreSafe
<1>4. \A f \in DOMAIN jit' : /\ <<f, jit'[f].arity>> \in Prototypes \cup HostPrototypes
                             /\ jit'[f].calls \subseteq Prototypes
  BY <1>1 DEF CallInv
<1> QED
  BY <1>1, <1>2, <1>3, <1>4, CallsClosed

\* Nothing the invariant speaks of changes.
LEMMA CallsIdle ==
  ASSUME CallInv, UNCHANGED <<stack, FunctionProtos, TheModule, fn, jit>>,
         fault' # "mismatch" \/ fault' = fault
  PROVE  CallInv'
<1>1. CallsAreSafeIfConsistent'
  BY DEF CallInv, CallsAreSafeIfConsistent, CallsAreSafe
<1>2. CallsMatchDeclarations'
  BY DEF CallInv, CallsMatchDeclarations
<1>3. (\A j \in 1..Depth : Begun(j) => Counted(stack[j].node))'
  BY DEF CallInv, Begun, Counted, Depth, Arity
<1> QED
  BY <1>1, <1>2, <1>3 DEF CallInv

\* Every step of the session keeps it.
LEMMA SessionKeepsCalls ==
  ASSUME SessionInv, SessionInv', CallInv, [SessionNext]_sessionVars
  PROVE  CallInv'
<1>1. CASE UNCHANGED sessionVars
  BY <1>1, CallsIdle DEF sessionVars, vars
<1>2. CASE \E r \in Root : BeginFunction(r)
  BY <1>2, BeginCalls
<1>3. CASE \E e \in Externs : HandleExtern(e)
  BY <1>3, ExternCalls
<1>4. CASE Generate
  BY <1>4, GenerateCalls
<1>5. CASE AddDefinition
  BY <1>5, DefinitionCalls
<1>6. CASE EvaluateExpression
  BY <1>6, EvaluateCalls
<1>7. CASE AbandonBody
  BY <1>7, AbandonCalls
<1>8. CASE AddDuplicate \/ LookupFails
  BY <1>8, CallsIdle DEF AddDuplicate, LookupFails, Die
<1> QED
  BY <1>1, <1>2, <1>3, <1>4, <1>5, <1>6, <1>7, <1>8 DEF SessionNext, Work

\* The session starts with empty tables.
LEMMA InitCalls ==
  ASSUME SessionInit
  PROVE  CallInv
<1>1. Depth = 0 /\ DOMAIN FunctionProtos = {} /\ DOMAIN TheModule = {} /\ DOMAIN jit = {}
      /\ fn = NoFunction /\ fault = "none"
  BY DEF SessionInit, Depth, EmptyMap
<1>2. fn.calls = {}
  BY <1>1 DEF NoFunction
<1> QED
  BY <1>1, <1>2 DEF CallInv, CallsMatchDeclarations, CallsAreSafeIfConsistent, CallsAreSafe

\* The invariant of the calls holds throughout every session.
LEMMA CallInvariant == SessionSpec => []CallInv
<1>1. SessionInit => CallInv
  BY InitCalls
<1>2. SessionInv /\ SessionInv' /\ CallInv /\ [SessionNext]_sessionVars => CallInv'
  BY SessionKeepsCalls
<1> QED
  BY <1>1, <1>2, SessionInvariant, PTL DEF SessionSpec

(***************************************************************************)
(* Every call in the function under construction passes as many arguments  *)
(* as the callee's declaration in the same module has, although the        *)
(* arguments are generated, and more functions declared, between the check *)
(* of CallExprAST::codegen() and the call instruction.                     *)
(***************************************************************************)
THEOREM CallsMatch == SessionSpec => []CallsMatchDeclarations
<1>1. CallInv => CallsMatchDeclarations
  BY DEF CallInv
<1> QED
  BY <1>1, CallInvariant, PTL

(***************************************************************************)
(* If all prototypes of a name in the input, and the process's own         *)
(* function of that name, have as many parameters, then no compiled code   *)
(* calls a function with another number of arguments than it was compiled  *)
(* for, however definitions, redefinitions that fail, externs and host     *)
(* functions follow each other.                                            *)
(***************************************************************************)
THEOREM ConsistentCallsAreSafe == SessionSpec => []CallsAreSafeIfConsistent
<1>1. CallInv => CallsAreSafeIfConsistent
  BY DEF CallInv
<1> QED
  BY <1>1, CallInvariant, PTL

-----------------------------------------------------------------------------
(* The control flow graphs of a session. *)

\* The generator is never at work without a function.
LEMMA StepHasFunction ==
  ASSUME GenInv, Step
  PROVE  fn # NoFunction
<1>1. CASE Generating
  BY <1>1, NoFunctionUnnamed DEF GenInv
<1>2. CASE ~Generating
  <2>1. result >= Const
    BY <1>2, OutsideStep DEF ReturnBody
  <2> QED
    BY <1>2, <2>1, NoFunctionUnnamed DEF GenInv, Const, Pending
<1> QED
  BY <1>1, <1>2

\* A step keeps the invariant of the graph, enters a function or leaves one.
LEMMA SessionKeepsFlow ==
  ASSUME SessionInv, fn = NoFunction \/ FlowInv, [SessionNext]_sessionVars
  PROVE  fn' = NoFunction \/ FlowInv' \/ Entered'
<1>1. ASSUME UNCHANGED <<stack, result, fn>>
      PROVE  fn' = NoFunction \/ FlowInv'
  BY <1>1, FlowIdle
<1>2. CASE UNCHANGED sessionVars
  BY <1>1, <1>2 DEF sessionVars, vars
<1>3. ASSUME NEW r \in Root, BeginFunction(r)
      PROVE  Entered'
  BY <1>3, BeginEnters
<1>4. CASE \E e \in Externs : HandleExtern(e)
  BY <1>1, <1>4 DEF HandleExtern
<1>5. CASE Generate
  BY <1>5, StepHasFunction, FlowKeeps DEF Generate, SessionInv
<1>6. CASE AddDefinition \/ EvaluateExpression \/ AbandonBody
  BY <1>6 DEF AddDefinition, EvaluateExpression, AbandonBody, NewModule
<1>7. CASE AddDuplicate \/ LookupFails
  BY <1>1, <1>7 DEF AddDuplicate, LookupFails, Die
<1> QED
  BY <1>2, <1>3, <1>4, <1>5, <1>6, <1>7 DEF SessionNext, Work

(***************************************************************************)
(* verifyFunction(), whose answer FunctionAST::codegen() throws away,      *)
(* would have had nothing to say: in every function that a session         *)
(* finishes, whatever failed or was abandoned before it, the blocks end in *)
(* one terminator and are reachable, the PHIs fit their predecessors and   *)
(* definitions dominate uses.                                              *)
(***************************************************************************)
THEOREM FinishedFunctionsVerify ==
  SessionSpec => [](BlocksTerminated /\ PhisMatchPredecessors /\ DefsDominateUses)
<1> DEFINE GraphOK == fn = NoFunction \/ FlowInv
<1>1. SessionInit => GraphOK
  BY DEF SessionInit
<1>2. SessionInv /\ GraphOK /\ [SessionNext]_sessionVars => (fn = NoFunction)' \/ FlowInv' \/ Entered'
  BY SessionKeepsFlow
<1>3. Entered => FlowInv
  BY FlowEntered
<1>4. GraphOK <=> fn = NoFunction \/ FlowInv
  OBVIOUS
<1>5. GraphOK => BlocksTerminated /\ PhisMatchPredecessors /\ DefsDominateUses
  <2>1. CASE fn = NoFunction
    <3>1. ~fn.complete /\ fn.phis = {}
      BY <2>1 DEF NoFunction
    <3> QED
      BY <3>1 DEF BlocksTerminated, PhisMatchPredecessors, DefsDominateUses
  <2>2. CASE FlowInv
    BY <2>2, FlowTerminated, FlowPhis, FlowUses
  <2> QED
    BY <2>1, <2>2
<1> HIDE DEF GraphOK
<1> QED
  BY <1>1, <1>2, <1>3, <1>4, <1>5, SessionInvariant, PTL DEF SessionSpec
================================================================================
