----------------------------- MODULE LoopFusion -----------------------------
(***************************************************************************)
(* lab-fusion.cpp: fusion of adjacent loops.  A function is a row of       *)
(* top-level loops with their blocks; "succ" gives the successors of the   *)
(* terminator of a block, the branch that stays in the loop first.  A loop *)
(* has phis in its header, each with a start and a step, one of which      *)
(* controls it; "ref" says which phi a use of a phi refers to.             *)
(***************************************************************************)
EXTENDS Integers, Sequences, FiniteSets, SequencesExt

CONSTANTS Functions, \* [loops, succ]; a loop is [pre, header, body, latch, simplified,
                     \* phis, control, count, computable, accesses]
          MaxSteps   \* bound on the blocks an execution goes through

\* What LLVM says of the top-level loops of a function: they have no block in
\* common, and they stand in an order of the program.  One in simplified form
\* has a preheader, which is in no loop and through which alone it is entered;
\* it goes back from its latch, to which some other block leads; and where it
\* exits to is entered from no other place.
BlocksOf(loop) == {loop.header, loop.latch} \cup ToSet(loop.body)
Edge(f, a, b) == a \in DOMAIN f.succ /\ b \in ToSet(f.succ[a])
Simplified(f, loop) ==
  /\ loop.pre \in DOMAIN f.succ /\ f.succ[loop.pre] = <<loop.header>>
  /\ Edge(f, loop.latch, loop.header)
  /\ \A a \in DOMAIN f.succ \ BlocksOf(loop), b \in BlocksOf(loop) :
       Edge(f, a, b) => a = loop.pre /\ b = loop.header
  /\ \E a \in DOMAIN f.succ : a # loop.latch /\ Edge(f, a, loop.latch)
  /\ \A a \in BlocksOf(loop), b \in DOMAIN f.succ \ BlocksOf(loop) :
       Edge(f, a, b) => \A c \in DOMAIN f.succ : Edge(f, c, b) => c \in BlocksOf(loop)
FunctionOK(f) ==
  /\ IsFiniteSet(DOMAIN f.succ) /\ f.succ \in [DOMAIN f.succ -> Seq(DOMAIN f.succ)]
  /\ DOMAIN f.loops = 1..Len(f.loops) /\ Len(f.loops) \in Nat
  /\ \A l \in DOMAIN f.loops :
       LET loop == f.loops[l] IN
       /\ BlocksOf(loop) \subseteq DOMAIN f.succ
       /\ loop.phis \in Seq([start : Int, step : Int])
       /\ loop.simplified => Simplified(f, loop)
       /\ \A m \in DOMAIN f.loops :
            /\ l # m => BlocksOf(loop) \cap BlocksOf(f.loops[m]) = {}
            /\ f.loops[m].simplified =>
                 /\ f.loops[m].pre \notin BlocksOf(loop)
                 /\ (\E b \in BlocksOf(loop) : Edge(f, b, f.loops[m].pre)) => l < m
ASSUME FunctionsAssumption == \A f \in Functions : FunctionOK(f)

VARIABLES fn, succ, ref, pairs, turn, fused, phase
fusionVars == <<fn, succ, ref, pairs, turn, fused, phase>>

Loops == DOMAIN fn.loops
Top(l) == fn.loops[l]
BasicBlocks == DOMAIN fn.succ
BlocksIn(l) == BlocksOf(Top(l))
Phis == UNION {{<<l, j>> : j \in DOMAIN Top(l).phis} : l \in Loops}

\* Loop::getExitBlock(), getLoopLatch() and getSinglePredecessor() look at the
\* present control flow graph; <<>> is their null.
ExitEdges(l) == {e \in BlocksIn(l) \X {1, 2} : e[2] \in DOMAIN succ[e[1]]
                                             /\ succ[e[1]][e[2]] \notin BlocksIn(l)}
ExitBlock(l) == IF Cardinality(ExitEdges(l)) = 1
                THEN LET edge == CHOOSE e \in ExitEdges(l) : TRUE IN <<succ[edge[1]][edge[2]]>>
                ELSE <<>>
Predecessors(b) == {p \in BasicBlocks : b \in ToSet(succ[p])}
SinglePredecessor(b) == IF Cardinality(Predecessors(b)) = 1 THEN SetToSeq(Predecessors(b)) ELSE <<>>

\* (post)dominance, computed before the first change
Reaches(next, from, without) ==
  LET step[n \in Nat] == IF n = 0 THEN {from} \ {without}
                         ELSE LET r == step[n - 1] IN r \cup ((UNION {next[b] : b \in r}) \ {without})
  IN  step[Cardinality(DOMAIN next)]
Forwards == [b \in BasicBlocks |-> ToSet(fn.succ[b])]
Backwards == [b \in BasicBlocks |-> {p \in BasicBlocks : b \in ToSet(fn.succ[p])}]
Entry == Top(1).pre
Ends == {b \in BasicBlocks : fn.succ[b] = <<>>}
DominatesAtFirst(a, b) == b \notin Reaches(Forwards, Entry, a)
PostDominatesAtFirst(a, b) == \A e \in Ends : b \notin Reaches(Backwards, e, a)

FusionInit == /\ fn \in Functions
              /\ succ = fn.succ
              /\ ref = [p \in Phis |-> p]
              /\ pairs = <<>> /\ turn = 1 /\ fused = {}
              /\ phase = "adjacent"
-----------------------------------------------------------------------------
\* The pair that the pass is at.
L1 == pairs[turn][1]
L2 == pairs[turn][2]

\* Pairs of loops where the exit block of one is the preheader of the other,
\* which is the preheader of no third one; turn goes through the loops.
Adjacent(l, m) == /\ Top(l).simplified /\ Top(m).simplified
                  /\ ExitBlock(l) = <<Top(m).pre>>
FindAdjacent == /\ phase = "adjacent" /\ turn \in Loops
                /\ \/ \E m \in Loops : Adjacent(turn, m) /\ pairs' = Append(pairs, <<turn, m>>)
                   \/ (\A m \in Loops : ~Adjacent(turn, m)) /\ UNCHANGED pairs
                /\ turn' = turn + 1
                /\ UNCHANGED <<fn, succ, ref, fused, phase>>
AllFound == /\ phase = "adjacent" /\ turn \notin Loops
            /\ turn' = 1 /\ phase' = "count"
            /\ UNCHANGED <<fn, succ, ref, pairs, fused>>

\* erase_if() goes through the pairs.
EraseIf(refused) == /\ turn \in DOMAIN pairs
                    /\ \/ refused /\ pairs' = RemoveAt(pairs, turn) /\ UNCHANGED turn
                       \/ ~refused /\ turn' = turn + 1 /\ UNCHANGED pairs
                    /\ UNCHANGED <<fn, succ, ref, fused, phase>>
Then(next) == /\ turn \notin DOMAIN pairs
              /\ turn' = 1 /\ phase' = next
              /\ UNCHANGED <<fn, succ, ref, pairs, fused>>

SameCount(l, m) == Top(l).computable /\ Top(m).computable /\ Top(l).count = Top(m).count
TripCount == phase = "count" /\ (EraseIf(~SameCount(L1, L2)) \/ Then("equivalent"))

Equivalent(l, m) == /\ DominatesAtFirst(Top(l).header, Top(m).header)
                    /\ PostDominatesAtFirst(Top(m).header, Top(l).header)
ControlFlowEquivalent == phase = "equivalent" /\ (EraseIf(~Equivalent(L1, L2)) \/ Then("dependences"))

\* DependenceInfo: the accesses of an array at the phi that controls the loop
\* plus an offset.  A dependence has a direction for each loop around both
\* accesses, so there is none between two loops that follow each other.
NegativeDirection(s, d) ==
  s.loop = d.loop /\ s.array = d.array /\ s.offset - d.offset < 0
MemInstrs(l) == {[loop |-> l, array |-> a.array, offset |-> a.offset, store |-> a.store] :
                   a \in Top(l).accesses}
CheckLoopDependencies(l, m) ==
  \E s, d \in MemInstrs(l) \cup MemInstrs(m) : (s # d \/ s.store) /\ NegativeDirection(s, d)
Dependencies == phase = "dependences" /\ (EraseIf(CheckLoopDependencies(L1, L2)) \/ Then("fuse"))
-----------------------------------------------------------------------------
\* One round of the fusion loop.
Body1 == SinglePredecessor(Top(L1).latch)
Body2 == SinglePredecessor(Top(L2).latch)
Normal == Body1 # <<>> /\ Body2 # <<>> /\ ExitBlock(L1) # <<>> /\ ExitBlock(L2) # <<>>
HaveVariables == Top(L1).phis # <<>> /\ Top(L2).phis # <<>>
Skip == /\ phase = "fuse" /\ turn <= Len(pairs)
        /\ ~Normal \/ ~HaveVariables
        /\ turn' = turn + 1
        /\ UNCHANGED <<fn, succ, ref, pairs, fused, phase>>

\* Instruction::replaceSuccessorWith()
ReplaceSuccessor(s, b, old, new) == [s EXCEPT ![b] = [j \in DOMAIN @ |-> IF @[j] = old THEN new ELSE @[j]]]
\* seeded fault: the body of the second loop goes on to its own latch
SplicedHalf == ReplaceSuccessor(ReplaceSuccessor(succ, Body1[1], Top(L1).latch, Body2[1]),
                                Top(L1).header, ExitBlock(L1)[1], ExitBlock(L2)[1])
Spliced ==
  LET s1 == ReplaceSuccessor(succ, Body1[1], Top(L1).latch, Body2[1])
      s2 == ReplaceSuccessor(s1, Body2[1], Top(L2).latch, Top(L1).latch)
  IN  ReplaceSuccessor(s2, Top(L1).header, ExitBlock(L1)[1], ExitBlock(L2)[1])
\* The first phi that has the latch among its incoming blocks, which is the first.
InductionVariable(l) == <<l, 1>>
Fuse == /\ phase = "fuse" /\ turn <= Len(pairs) /\ Normal /\ HaveVariables
        /\ ref' = [p \in Phis |-> IF ref[p] = InductionVariable(L2) THEN InductionVariable(L1) ELSE ref[p]]
        /\ succ' = Spliced
        /\ fused' = fused \cup {pairs[turn]}
        /\ turn' = turn + 1
        /\ UNCHANGED <<fn, pairs, phase>>
FusionDone == /\ phase = "fuse" /\ turn > Len(pairs)
              /\ phase' = "done"
              /\ UNCHANGED <<fn, succ, ref, pairs, turn, fused>>

FusionNext == \/ FindAdjacent \/ AllFound \/ TripCount \/ ControlFlowEquivalent \/ Dependencies
              \/ Skip \/ Fuse \/ FusionDone
FusionSpec == FusionInit /\ [][FusionNext]_fusionVars
-----------------------------------------------------------------------------
\* An execution of the function: from block to block, with the values of the
\* phis and the bodies gone through.  A block of a body uses all phis of its
\* loop; Undefined is the value of one whose header has not been executed.
Undefined == -99
LoopOf(b) == {l \in Loops : b \in BlocksIn(l)}
While(l) == Len(fn.succ[Top(l).header]) = 2
Limit(l) == LET phi == Top(l).phis[Top(l).control] IN
            phi.start + phi.step * (IF While(l) THEN Top(l).count ELSE Top(l).count + 1)
Stays(e, l) == /\ Top(l).phis # <<>>
               /\ LET v == e.value[e.ref[<<l, Top(l).control>>]] IN v # Undefined /\ v < Limit(l)
EnterHeader(e, l) ==
  [p \in Phis |-> IF p[1] # l THEN e.value[p]
                  ELSE IF e.from = Top(l).latch THEN e.next[p] ELSE Top(l).phis[p[2]].start]
Increment(e, l) ==
  [p \in Phis |-> IF p[1] # l THEN e.next[p]
                  ELSE LET v == e.value[e.ref[p]] IN
                       IF v = Undefined THEN Undefined ELSE v + Top(l).phis[p[2]].step]
Go(e, target) == [e EXCEPT !.at = target, !.from = e.at]
Step(s, e) ==
  IF s[e.at] = <<>> THEN e
  ELSE IF LoopOf(e.at) = {} THEN Go(e, s[e.at][1])
  ELSE LET l == CHOOSE l \in LoopOf(e.at) : TRUE
           v == IF e.at = Top(l).header THEN EnterHeader(e, l) ELSE e.value
           n == IF e.at = Top(l).latch THEN Increment(e, l) ELSE e.next
           t == IF e.at \in ToSet(Top(l).body)
                THEN Append(e.trace, [block |-> e.at, loop |-> l,
                                      values |-> [j \in DOMAIN Top(l).phis |-> v[e.ref[<<l, j>>]]]])
                ELSE e.trace
           f == [e EXCEPT !.value = v, !.next = n, !.trace = t]
           d == [f EXCEPT !.value = IF e.at = Top(l).latch THEN n ELSE v]
       IN  Go(f, s[e.at][IF Len(s[e.at]) = 1 \/ Stays(d, l) THEN 1 ELSE 2])
Execution(s, r) ==
  LET none == [p \in Phis |-> Undefined]
      run[n \in 0..MaxSteps] == IF n = 0 THEN [at |-> Entry, from |-> Entry, value |-> none, next |-> none,
                                               ref |-> r, trace |-> <<>>]
                                ELSE LET e == run[n - 1] IN Step(s, e)
  IN  run[MaxSteps]
Before == Execution(fn.succ, [p \in Phis |-> p])
After == Execution(succ, ref)

\* Every block of a body is executed with the same values as before, and the
\* function comes to its end.
Projection(e, b) == SelectSeq(e.trace, LAMBDA x : x.block = b)
SameIterations == LET e == Before  f == After IN
  succ[f.at] = <<>> /\ \A b \in BasicBlocks : Projection(e, b) = Projection(f, b)

\* A read finds the same writes behind it, and a write the same accesses.
Touches(x) == {[array |-> a.array, cell |-> x.values[Top(x.loop).control] + a.offset, store |-> a.store] :
                 a \in Top(x.loop).accesses}
Conflict(x, y) == x.loop # y.loop /\ \E a \in Touches(x), b \in Touches(y) :
                    a.array = b.array /\ a.cell = b.cell /\ (a.store \/ b.store)
Index(t, x) == CHOOSE n \in DOMAIN t : t[n] = x
SameOrder == LET s == Before.trace  t == After.trace IN
  \A i, j \in DOMAIN s : (i < j /\ Conflict(s[i], s[j])) => Index(t, s[i]) < Index(t, s[j])

\* What the pass takes for granted of a pair.
OneBlock(l) == Len(Top(l).body) = 1
OnlyVariable(l) == Len(Top(l).phis) = 1
SameVariable(l, m) == Top(l).control = 1 /\ Top(l).phis[1] = Top(m).phis[1]
NoneAhead(l, m) ==
  \A s \in MemInstrs(l), d \in MemInstrs(m) :
    (s.array = d.array /\ (s.store \/ d.store)) => d.offset <= s.offset
Regular(p) == /\ While(p[1]) /\ While(p[2]) /\ OneBlock(p[2]) /\ OnlyVariable(p[2])
              /\ SameVariable(p[1], p[2])
-----------------------------------------------------------------------------
FusionTypeOK ==
  /\ \A b \in BasicBlocks : Len(succ[b]) = Len(fn.succ[b]) /\ ToSet(succ[b]) \subseteq BasicBlocks
  /\ \A p \in Phis : ref[p] \in Phis
  /\ fused \subseteq ToSet(pairs)
  /\ \A n \in DOMAIN pairs : pairs[n][1] < pairs[n][2]

\* A loop is fused once: what is left of it afterwards is never taken for a
\* loop again.
FusedOnce == FusionTypeOK /\ \A p, q \in fused : p = q \/ (ToSet(p) \cap ToSet(q) = {})


\* appunti/loop-fusion.md:5-13 lists the requirements of a fusion: adjacent
\* loops, the same number of iterations, control flow equivalence and no
\* dependence at a negative distance.
RequirementsSuffice ==
  (phase = "done" /\ \A p \in fused : While(p[1]) /\ While(p[2]) /\ OneBlock(p[2]) /\ OnlyVariable(p[1])
                                    /\ OnlyVariable(p[2]) /\ NoneAhead(p[1], p[2])) => SameIterations

\* lab-fusion.cpp:234-235: the branch of the body of L1 goes to the body of L2.
BodyIsSpliced ==
  (phase = "done" /\ \A p \in fused : While(p[1]) /\ While(p[2]) /\ OnlyVariable(p[2])
                                    /\ SameVariable(p[1], p[2])) => SameIterations

\* lab-fusion.cpp:241: the exiting block of L1 is its header.
HeaderExits ==
  (phase = "done" /\ \A p \in fused : OneBlock(p[1]) /\ OneBlock(p[2]) /\ OnlyVariable(p[2])
                                    /\ SameVariable(p[1], p[2])) => SameIterations

\* lab-fusion.cpp:186-188: the uses of the induction variable of loop 2 become
\* uses of that of loop 1.
VariablesReplaced ==
  \A p \in fused : ref[<<p[2], Top(p[2]).control>>] = <<p[1], Top(p[1]).control>>

\* lab-fusion.cpp:164-170: pairs with a dependence at a negative distance are
\* not fused; the example writes a[i] and reads a[i+1].
NegativeDistancesRejected ==
  \A p \in fused : \A s \in MemInstrs(p[1]), d \in MemInstrs(p[2]) :
    (s.array = d.array /\ s.store /\ ~d.store) => d.offset <= s.offset
=============================================================================
