-------------------------- MODULE ToyCompilerMeaning --------------------------
(***************************************************************************)
(* What a Toy program means, and that the compiler keeps it.  A meaning    *)
(* says whether the program has one (ok), the text it prints and the value *)
(* it returns.                                                             *)
(***************************************************************************)
EXTENDS ToyCompiler, TLC

NoTensor == Value(<<>>, <<>>)
NoMeaning == [ok |-> FALSE, text |-> <<>>, values |-> <<>>, result |-> <<>>]

\* A body with the values of its parameters, in a module of functions that do
\* not call themselves.
RECURSIVE Meaning(_, _, _)
Meaning(body, args, functions) ==
  LET step(m, i) ==
        LET op == body[i]
            v == [k \in DOMAIN op.ins |-> m.values[op.ins[k]]]
            keep(t) == [m EXCEPT !.values = Append(@, t)]
        IN CASE ~m.ok -> m
             [] op.kind = "arg" -> IF i <= Len(args) THEN keep(args[i]) ELSE NoMeaning
             [] op.kind = "erased" -> keep(NoTensor)
             [] op.kind = "print" -> [keep(NoTensor) EXCEPT !.text = @ \o Text(v[1])]
             [] op.kind = "return" -> [keep(NoTensor) EXCEPT !.result = v]
             [] op.kind = "generic_call" ->
                  LET c == Meaning(functions[op.callee], v, functions)
                  IN  IF c.ok /\ Len(c.result) = 1 /\ Cardinality(Parameters(functions[op.callee])) = Len(v)
                      THEN [keep(c.result[1]) EXCEPT !.text = @ \o c.text] ELSE NoMeaning
             [] OTHER -> IF Defined(op, v) THEN keep(Computed(op, v)) ELSE NoMeaning
      after[i \in 0..Len(body)] ==
        IF i = 0 THEN [NoMeaning EXCEPT !.ok = TRUE] ELSE LET m == after[i - 1] IN step(m, i)
  IN  after[Len(body)]
-----------------------------------------------------------------------------
(* What a block prints.  Memory holds the buffers that are allocated; a    *)
(* load from anywhere else, and of what was never stored, is Undefined.    *)
Undefined == -1000
Loaded(mem, l, x) == LET at == [k \in DOMAIN l.at |-> x[l.at[k]]] IN
  IF l.buf \in DOMAIN mem /\ at \in DOMAIN mem[l.buf] THEN mem[l.buf][at] ELSE Undefined
Lift(F(_, _), a, b) == IF Undefined \in {a, b} THEN Undefined ELSE F(a, b)
Plus(a, b) == Lift(LAMBDA m, n : m + n, a, b)
Times(a, b) == Lift(LAMBDA m, n : m * n, a, b)
Stored(mem, b, at, v) == IF b \in DOMAIN mem /\ at \in DOMAIN mem[b] THEN [mem EXCEPT ![b][at] = v] ELSE mem
Iterate(mem, o, x) ==
  LET v == [k \in DOMAIN o.from |-> Loaded(mem, o.from[k], x)]
      new == CASE o.op = "copy" -> v[1]
               [] o.op = "zero" -> 0
               [] o.op = "add" -> Plus(v[1], v[2])
               [] o.op = "mul" -> Times(v[1], v[2])
               [] OTHER -> Plus(Loaded(mem, Load(o.buf, o.at), x), Times(v[1], v[2]))
  IN  Stored(mem, o.buf, [k \in DOMAIN o.at |-> x[o.at[k]]], new)

RECURSIVE Printed(_, _, _)
Printed(mem, o, x) ==
  LET k == Len(x) + 1 IN
  IF k > Len(o.bounds) THEN <<Loaded(mem, Load(o.buf, Ivs(x)), x)>>
  ELSE FlattenSeq([i \in 1..o.bounds[k] |-> Printed(mem, o, Append(x, i - 1))
                                            \o IF k \in o.newline THEN <<Newline>> ELSE <<>>])

Run(b) ==
  LET step(s, o) ==
        CASE o.do = "alloc" -> [s EXCEPT !.mem = o.buf :> [x \in Indices(o.dims) |-> Undefined] @@ @]
          [] o.do = "dealloc" -> [s EXCEPT !.mem = [c \in DOMAIN @ \ {o.buf} |-> @[c]]]
          [] o.do = "store" -> [s EXCEPT !.mem = Stored(@, o.buf, o.at, o.value)]
          [] o.do = "loops" ->
               LET walk == Walk(o.bounds)
                   mem[k \in 0..Len(walk)] ==
                     IF k = 0 THEN s.mem ELSE LET m == mem[k - 1] IN Iterate(m, o, walk[k])
               IN  [s EXCEPT !.mem = mem[Len(walk)]]
          [] o.do = "print loops" -> [s EXCEPT !.text = @ \o Printed(s.mem, o, <<>>)]
          [] o.do = "print" ->
               [s EXCEPT !.text = @ \o Text(Build(DimsOf(o.buf), LAMBDA x : Loaded(s.mem, Load(o.buf, Ivs(x)), x)))]
          [] OTHER -> s
      after[p \in 0..Len(b)] ==
        IF p = 0 THEN [mem |-> <<>>, text |-> <<>>] ELSE LET s == after[p - 1] IN step(s, b[p])
  IN  after[Len(b)].text
-----------------------------------------------------------------------------
\* A recursion, which in Toy cannot end, has no meaning.
SourceMeaning ==
  IF \E f \in CalleesOf(input.main) : Recursive(f) \/ \E g \in Callees(f) : Recursive(g) THEN NoMeaning
  ELSE Meaning(input.main, <<>>, input.functions)

\* Whatever the inliner, the rewrites and the lowerings do, and in which order
\* they are applied, the program prints what the source means: elements in
\* the right places, nothing read before it is stored or after it is freed.
\* Operands stay in front of their users (TypeOK).
MeaningKept ==
  /\ TypeOK
  /\ stage = "passes" /\ main # <<>> =>
    LET source == SourceMeaning
        now == Meaning(main, <<>>, input.functions)
    IN  source.ok => /\ block = <<>> => now.ok /\ now.text = source.text
                     /\ block # <<>> /\ ~Has("toy") => Run(block) = source.text

\* A program that has a meaning compiles, unless main returns a value or a
\* reshape is of something other than a constant, for which there is no
\* pattern (MLIRGen.cpp:388-389 says that a reshape "will get optimized out
\* later as needed").
RootIsConstant(b, i) == LET o == b[i].ins[1] IN
  \/ b[o].kind = "constant"
  \/ b[o].kind = "reshape" /\ b[b[o].ins[1]].kind = "constant"
OnlyFoldable(b) == \A i \in DOMAIN b : b[i].kind = "reshape" => RootIsConstant(b, i)
=============================================================================
