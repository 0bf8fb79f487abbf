-------------------------------- MODULE LICM --------------------------------
(***************************************************************************)
(* lab-loops.cpp: loop-invariant code motion on one function.  A function  *)
(* has blocks with successors, the top-level loops that LoopInfo lists,    *)
(* and instructions in SSA form.  Terminators and constants are left out:  *)
(* "code" gives the other instructions of each block in order, "uses" the  *)
(* instructions an instruction has as operands.                            *)
(***************************************************************************)
EXTENDS Integers, Sequences, FiniteSets, SequencesExt

CONSTANT Programs    \* [succ, dominance, loops, code, uses, phis]; a loop is
                     \* [order, inner, preheader, simplified]

\* Every instruction of a function stands in one place.
EachOnce(c, is) ==
  /\ c \in [DOMAIN c -> Seq(is)]
  /\ \A i \in is : \E b \in DOMAIN c : \E k \in DOMAIN c[b] : c[b][k] = i
  /\ \A a, b \in DOMAIN c : \A j \in DOMAIN c[a], k \in DOMAIN c[b] :
       c[a][j] = c[b][k] => a = b /\ j = k
Holds(c, i) == CHOOSE b \in DOMAIN c : i \in ToSet(c[b])
Position(c, i) == CHOOSE k \in DOMAIN c[Holds(c, i)] : c[Holds(c, i)][k] = i

\* An operand is available: it stands earlier in the block, or in a block that
\* dominates it; a phi reads its operands at the end of its predecessors.
Available(p, c, o, i) ==
  LET a == Holds(c, o)  b == Holds(c, i) IN
  IF i \in p.phis
  THEN \E q \in DOMAIN p.succ : b \in p.succ[q] /\ <<a, q>> \in p.dominance
  ELSE IF a = b THEN Position(c, o) < Position(c, i) ELSE <<a, b>> \in p.dominance
DefsDominateUses(p, c) == \A i \in DOMAIN p.uses : \A o \in p.uses[i] : Available(p, c, o, i)

None == ""
LoopBlocks(l) == ToSet(l.order)

\* What the pass is handed.  All blocks can be reached; dominance is an order.
DominanceIsOrder(p) ==
  /\ \A a, b, c \in DOMAIN p.succ :
       <<a, b>> \in p.dominance /\ <<b, c>> \in p.dominance => <<a, c>> \in p.dominance
  /\ \A a, b \in DOMAIN p.succ : <<a, b>> \in p.dominance /\ <<b, a>> \in p.dominance => a = b

\* The top-level loops have no block in common.  One in simplified form is
\* entered from its preheader alone, which leads nowhere else.
LoopsAreApart(p) ==
  /\ \A l \in DOMAIN p.loops : p.loops[l].inner \subseteq LoopBlocks(p.loops[l])
  /\ \A l, m \in DOMAIN p.loops :
       l # m => LoopBlocks(p.loops[l]) \cap LoopBlocks(p.loops[m]) = {}
  /\ \A l, m \in DOMAIN p.loops :
       p.loops[l].simplified =>
         /\ p.loops[l].preheader \in DOMAIN p.succ \ LoopBlocks(p.loops[m])
         /\ l # m /\ p.loops[m].simplified => p.loops[l].preheader # p.loops[m].preheader
EnteredFromPreheader(p) ==
  \A l \in DOMAIN p.loops : p.loops[l].simplified =>
    \A b \in LoopBlocks(p.loops[l]) :
      /\ <<p.loops[l].preheader, b>> \in p.dominance
      /\ \A a \in DOMAIN p.succ \ LoopBlocks(p.loops[l]) :
           <<a, b>> \in p.dominance => a = p.loops[l].preheader \/ <<a, p.loops[l].preheader>> \in p.dominance

ASSUME ProgramAssumption ==
  \A p \in Programs :
    /\ None \notin DOMAIN p.succ
    /\ IsFiniteSet(DOMAIN p.uses) /\ p.uses \in [DOMAIN p.uses -> SUBSET DOMAIN p.uses]
    /\ DOMAIN p.code = DOMAIN p.succ /\ EachOnce(p.code, DOMAIN p.uses)
    /\ p.loops \in Seq([order : Seq(DOMAIN p.succ), inner : SUBSET DOMAIN p.succ,
                        preheader : DOMAIN p.succ \cup {None}, simplified : BOOLEAN])
    /\ DominanceIsOrder(p) /\ LoopsAreApart(p) /\ EnteredFromPreheader(p)
    /\ DefsDominateUses(p, p.code)

VARIABLES prog, code, loop, at, changed, invariant, hoistable, visited, node, pc
vars == <<prog, code, loop, at, changed, invariant, hoistable, visited, node, pc>>

Blocks == DOMAIN prog.succ
Instructions == DOMAIN prog.uses
Parent(i) == Holds(code, i)
L == prog.loops[loop]

\* DominatorTreeAnalysis, once: b cannot be reached without a.
ReachedWithout(a, entry, succ) ==
  LET step[n \in Nat] ==
        IF n = 0 THEN {entry} \ {a}
        ELSE LET r == step[n - 1] IN r \cup (UNION {succ[b] : b \in r} \ {a})
  IN  step[Cardinality(DOMAIN succ)]
Dominance(entry, succ) ==
  {e \in (DOMAIN succ) \X (DOMAIN succ) : e[2] \notin ReachedWithout(e[1], entry, succ)}
Dominates(a, b) == <<a, b>> \in prog.dominance
Exits(l) == UNION {prog.succ[b] : b \in LoopBlocks(l)} \ LoopBlocks(l)

Init ==
  /\ prog \in Programs
  /\ code = prog.code
  /\ loop = 1 /\ at = 1 /\ changed = FALSE
  /\ invariant = <<>> /\ hoistable = <<>> /\ visited = {} /\ node = None
  /\ pc = "loops"
-----------------------------------------------------------------------------
\* run() takes the top-level loops one after the other.
BeginLoop == /\ pc = "loops" /\ loop <= Len(prog.loops)
             /\ IF L.simplified THEN pc' = "scan" /\ UNCHANGED loop
                                ELSE loop' = loop + 1 /\ UNCHANGED pc
             /\ at' = 1 /\ changed' = FALSE
             /\ UNCHANGED <<prog, code, invariant, hoistable, visited, node>>

\* findLIInstr(): rounds over the instructions of the loop, until one adds
\* none.  The innermost loop of an operand's block is compared with L.
Body == FlattenSeq([k \in DOMAIN L.order |-> code[L.order[k]]])
InThisLoop(i) == Parent(i) \in LoopBlocks(L) \ L.inner
\* seeded fault: the operands of a phi are not looked at
InvariantPhi(i) == i \in prog.phis \/ \A o \in prog.uses[i] : InThisLoop(o) => o \in ToSet(invariant)
InvariantOperands(i) == \A o \in prog.uses[i] : InThisLoop(o) => o \in ToSet(invariant)

Scan == /\ pc = "scan" /\ at <= Len(Body)
        /\ at' = at + 1
        /\ IF Body[at] \notin ToSet(invariant) /\ InvariantOperands(Body[at])
           THEN invariant' = Append(invariant, Body[at]) /\ changed' = TRUE
           ELSE UNCHANGED <<invariant, changed>>
        /\ UNCHANGED <<prog, code, loop, hoistable, visited, node, pc>>

\* seeded fault: a round that has found nothing is followed by another one
EndlessRounds == /\ pc = "scan" /\ at > Len(Body) /\ at' = 1
                 /\ UNCHANGED <<prog, code, loop, changed, invariant, hoistable, visited, node, pc>>
AnotherRound == /\ pc = "scan" /\ at > Len(Body) /\ changed
                /\ at' = 1 /\ changed' = FALSE
                /\ UNCHANGED <<prog, code, loop, invariant, hoistable, visited, node, pc>>

\* findHoistableInstr()
DominatesAllExits(i) == \A e \in Exits(L) : Dominates(Parent(i), e)
NoUsersOutOfLoop(i) ==
  \A u \in Instructions : i \in prog.uses[u] => \A e \in Exits(L) : ~Dominates(e, Parent(u))
Hoistable(i) == DominatesAllExits(i) \/ NoUsersOutOfLoop(i)
FindHoistable == /\ pc = "scan" /\ at > Len(Body) /\ ~changed
                 /\ at' = 1 /\ pc' = "choose"
                 /\ UNCHANGED <<prog, code, loop, changed, invariant, hoistable, visited, node>>
Choose == /\ pc = "choose" /\ at <= Len(invariant)
          /\ at' = at + 1
          /\ hoistable' = IF Hoistable(invariant[at]) THEN Append(hoistable, invariant[at]) ELSE hoistable
          /\ UNCHANGED <<prog, code, loop, changed, invariant, visited, node, pc>>
Chosen == /\ pc = "choose" /\ at > Len(invariant)
          /\ at' = Len(hoistable) + 1 /\ visited' = {} /\ pc' = "hoist"
          /\ UNCHANGED <<prog, code, loop, changed, invariant, hoistable, node>>

\* The depth-first visit of the dominator tree: a block comes after those that
\* dominate it, whatever the order of its siblings.
\* seeded fault: a block may come before its dominators
AnyOrder(b) == TRUE
DominatorsVisited(b) == \A a \in Blocks \ {b} : Dominates(a, b) => a \in visited
VisitBlock(b) == /\ pc = "hoist" /\ at > Len(hoistable)
                 /\ b \notin visited /\ DominatorsVisited(b)
                 /\ visited' = visited \cup {b} /\ node' = b /\ at' = 1
                 /\ UNCHANGED <<prog, code, loop, changed, invariant, hoistable, pc>>

\* moveBefore(): from its block to the end of the preheader.
Without(s, i) == LET k == CHOOSE j \in DOMAIN s : s[j] = i IN RemoveAt(s, k)
MoveBefore(i, b) == [code EXCEPT ![Parent(i)] = Without(@, i), ![b] = Append(@, i)]
Hoist == /\ pc = "hoist" /\ at <= Len(hoistable)
         /\ at' = at + 1
         /\ code' = IF Parent(hoistable[at]) = node THEN MoveBefore(hoistable[at], L.preheader) ELSE code
         /\ UNCHANGED <<prog, loop, changed, invariant, hoistable, visited, node, pc>>

Visited == pc = "hoist" /\ visited = Blocks /\ at > Len(hoistable)
EndLoop == /\ Visited
           /\ loop' = loop + 1 /\ pc' = "loops"
           /\ invariant' = <<>> /\ hoistable' = <<>> /\ node' = None
           /\ UNCHANGED <<prog, code, at, changed, visited>>
Return == /\ pc = "loops" /\ loop > Len(prog.loops)
          /\ pc' = "done"
          /\ UNCHANGED <<prog, code, loop, at, changed, invariant, hoistable, visited, node>>

Next == \/ BeginLoop \/ Scan \/ AnotherRound \/ FindHoistable \/ Choose \/ Chosen
        \/ (\E b \in Blocks : VisitBlock(b)) \/ Hoist \/ EndLoop \/ Return
Spec == Init /\ [][Next]_vars /\ WF_vars(Next)
-----------------------------------------------------------------------------
\* The instructions of a loop that an instruction depends on, itself left out.
Chain(i, blocks) ==
  LET back[n \in 0..Cardinality(Instructions)] ==
        IF n = 0 THEN prog.uses[i]
        ELSE LET r == back[n - 1] IN
             r \cup UNION {prog.uses[o] : o \in {p \in r : Parent(p) \in blocks}}
  IN  {o \in back[Cardinality(Instructions)] : Parent(o) \in blocks}

Flat(l) == l.inner = {}
Moved == {i \in Instructions : Holds(code, i) # Holds(prog.code, i)}
-----------------------------------------------------------------------------
TypeOK ==
  /\ DOMAIN code = Blocks /\ EachOnce(code, Instructions)
  /\ ToSet(hoistable) \subseteq ToSet(invariant)
  /\ loop \in 1..(Len(prog.loops) + 1)

\* The rounds find every invariant: in a loop without inner loops, what is not
\* found depends on a value that is carried from one iteration to the next.
InvariantsAreTheRest ==
  (pc = "choose" /\ Flat(L)) =>
    \A i \in ToSet(Body) :
      i \in ToSet(invariant) <=> \A o \in Chain(i, LoopBlocks(L)) \cup {i} : o \notin Chain(o, LoopBlocks(L))

\* Instructions arrive in the preheader behind the ones they depend on, which
\* are not in an inner loop.
Arrives(i, o) == Holds(code, i) = Holds(code, o) => Position(code, o) < Position(code, i)
InnerBlocks == UNION {prog.loops[l].inner : l \in DOMAIN prog.loops}
HoistedInOrder ==
  \A i \in Moved \ prog.phis : \A o \in prog.uses[i] \cap Moved :
    Holds(prog.code, o) \notin InnerBlocks => Arrives(i, o)

\* lab-loops.cpp:179-182: the order in the preheader is to be that of the
\* dependencies, and the visit of the dominator tree is to give it.
TopologicalOrder ==
  \A i \in Moved \ prog.phis : \A o \in prog.uses[i] \cap Moved : Arrives(i, o)

\* The pass neither loses nor duplicates an instruction, and if all it finds
\* can be hoisted and is no phi, it keeps definitions in front of uses in loops
\* without inner loops.
KeepsDominance ==
  /\ TypeOK
  /\ (Visited /\ Flat(L) /\ ToSet(hoistable) = ToSet(invariant) /\ ToSet(invariant) \cap prog.phis = {}
    /\ loop = 1) => DefsDominateUses(prog, code)

\* The pass ends.
PassEnds == <>(pc = "done")

\* lab-loops.cpp:176-177: a candidate is moved "se tutte le istruzioni
\* invarianti da cui questa dipende sono state spostate".
DependenciesMoved ==
  (Visited /\ Flat(L)) =>
    \A i \in ToSet(hoistable) : prog.uses[i] \cap ToSet(invariant) \subseteq ToSet(hoistable)

\* lab-loops.cpp:55-59: the operands of an invariant instruction are constant,
\* defined outside the loop, or invariant instructions.
InvariantOperandsAre ==
  pc = "choose" =>
    \A i \in ToSet(invariant) : \A o \in prog.uses[i] :
      Parent(o) \notin LoopBlocks(L) \/ o \in ToSet(invariant)
=============================================================================
