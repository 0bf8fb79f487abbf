---------------------------- MODULE ToyParserProofs ----------------------------
(***************************************************************************)
(* What the parser of Toy keeps and what it loses, for every stream of     *)
(* tokens, of any length and at any depth of the descent.                  *)
(***************************************************************************)
EXTENDS ToyParser, TLAPS, FiniteSetTheorems, SequenceTheorems

\* The places where no expression is being read, and those inside a statement.
OuterPcs == {"definition", "name", "open", "params", "afterparam", "nextparam", "block",
             "statement", "return", "varname", "separator"}
InnerPcs == {"type", "shape", "comma", "equals", "primary", "identifier", "operand", "value",
             "arguments", "element", "list"}

ExprNodes == {"Var", "Num", "Call", "Print", "Literal", "BinOp"}
Prev == text[Len(text) - 1]

\* A statement at the bottom of the stack, activations of parse functions on it.
Activation(f) == /\ "frame" \in DOMAIN f /\ f.frame \in {"call", "paren", "literal", "binary"}
                 /\ f.frame = "binary" => f.min \in Nat
Beginning(f) == /\ {"frame", "node"} \subseteq DOMAIN f
                /\ f.frame = "statement" /\ f.node \in {"Return", "VarDecl", "Expr"}
Nested(s) == /\ \E S : s \in Seq(S)
             /\ s # <<>> /\ Beginning(s[1])
             /\ \A k \in 2..Len(s) : Activation(s[k])

\* No operator waits for its right operand.
Quiet == \A k \in DOMAIN stack : stack[k].frame # "binary"

\* Of the first n tokens: the semicolons that end a statement, and the defs.
Ends(ts, n) == {k \in 2..n : ts[k] = ";" /\ ts[k - 1] \notin {";", "{"}}
Defs(ts, n) == {k \in 1..n : ts[k] = "def"}

IsSeq(s) == \E S : s \in Seq(S)
Excused == \E k \in 2..Len(text) : text[k] = ";" /\ text[k - 1] \in {"=", "(", ","}
Holes == \E s \in Statements : Hole(s)

\* The token in front of the current one.
Followed ==
  /\ pc = "statement" => Prev \in {";", "{"}
  /\ pc = "return" => Prev = "return"
  /\ pc = "separator" => Prev \notin {";", "{"}
  /\ pc = "arguments" => Prev = "("
  /\ pc \in InnerPcs => ((pc = "primary" /\ stack[1].node = "Expr") \/ Prev \notin {";", "{"})
  /\ (pc = "primary" /\ stack[1].node # "Expr" /\ Quiet) =>
       Prev \in {"=", "(", ","} \/ (Prev = "return" /\ tok # ";")

\* Every def and every statement in front of the current token is accounted for.
Tally ==
  /\ Cardinality(Defs(text, Len(text) - 1)) = Len(functions) + (IF pc = "definition" THEN 0 ELSE 1)
  /\ Cardinality(Ends(text, Len(text) - 1)) + (IF pc = "separator" THEN 1 ELSE 0)
       = Cardinality(Placed) + Len(body)

\* A silent hole has its semicolon, or is about to be told.
HolesTold == (~reported /\ Holes) => Excused \/ (pc = "separator" /\ tok = "}")

Working == /\ pc # "definition" => Len(text) >= 2
           /\ Followed /\ Tally /\ HolesTold

Data == /\ script \in Scripts /\ text \in Seq(Stream) /\ text # <<>>
        /\ reported \in BOOLEAN
        /\ IsSeq(body) /\ IsSeq(functions) /\ IsFiniteSet(Placed)
        /\ value = Null \/ value.node \in ExprNodes
        /\ pc = "value" => value # Null
\* The activation on top of the stack is the one that looks at the token.
Fits == /\ pc \in {"identifier", "arguments"} => Top.frame = "call"
        /\ pc \in {"element", "list"} => Top.frame = "literal"
Place == \/ pc \in OuterPcs /\ stack = <<>>
         \/ pc \in InnerPcs /\ Nested(stack) /\ Fits

Outcome == (status \in {"module", "nullptr"} /\ ~reported) =>
             /\ status = "module"
             /\ Len(functions) = Cardinality(Defs(text, Len(text)))
             /\ Cardinality(Placed) = Cardinality(Ends(text, Len(text)))
             /\ Holes => Excused

ParserInv == /\ Data /\ Place
             /\ status \in {"parsing", "module", "nullptr", "aborted"}
             /\ status = "parsing" => Working
             /\ Outcome
-----------------------------------------------------------------------------
(* The stack of activations. *)

LEMMA NestedFacts ==
  ASSUME NEW s, Nested(s)
  PROVE  /\ Len(s) \in Nat \ {0} /\ DOMAIN s = 1..Len(s)
         /\ s[1].frame = "statement"
         /\ Len(s) = 1 <=> s[Len(s)].frame = "statement"
         /\ Len(s) > 1 => Activation(s[Len(s)])
<1>1. PICK S : s \in Seq(S)
  BY DEF Nested
<1>2. Len(s) \in Nat \ {0} /\ DOMAIN s = 1..Len(s)
  BY <1>1, EmptySeq DEF Nested
<1>3. s[1].frame = "statement"
  BY DEF Nested, Beginning
<1>4. Len(s) > 1 => Activation(s[Len(s)])
  BY <1>2 DEF Nested
<1>5. Len(s) > 1 => s[Len(s)].frame # "statement"
  BY <1>4 DEF Activation
<1> QED
  BY <1>2, <1>3, <1>4, <1>5

\* A statement begins.
LEMMA NestedOne ==
  ASSUME NEW f, Beginning(f)
  PROVE  Nested(<<f>>)
<1> DEFINE t == <<f>>
<1>1. t \in Seq({f}) /\ Len(t) = 1 /\ t[1] = f
  OBVIOUS
<1> HIDE DEF t
<1>2. t # <<>>
  BY <1>1, EmptySeq
<1>3. Nested(t)
  BY <1>1, <1>2 DEF Nested
<1> QED
  BY <1>3 DEF t

\* Pushing an activation.
LEMMA NestedPush ==
  ASSUME NEW s, Nested(s), NEW f, Activation(f)
  PROVE  /\ Nested(Append(s, f))
         /\ Append(s, f)[1] = s[1]
         /\ Append(s, f)[Len(Append(s, f))] = f /\ Len(Append(s, f)) \in DOMAIN Append(s, f)
<1>1. PICK S : s \in Seq(S)
  BY DEF Nested
<1> DEFINE t == Append(s, f)
<1>2. s \in Seq(S \cup {f}) /\ Len(s) \in Nat \ {0}
  BY <1>1, SeqMonotonic, NestedFacts
<1>3. /\ t \in Seq(S \cup {f}) /\ t # <<>> /\ Len(t) = Len(s) + 1 /\ t[Len(s) + 1] = f
      /\ \A k \in 1..Len(s) : t[k] = s[k]
  BY <1>2, AppendProperties
<1> HIDE DEF t
<1>4. t[1] = s[1] /\ Beginning(s[1])
  BY <1>2, <1>3 DEF Nested
<1>5. ASSUME NEW k \in 2..Len(t) PROVE Activation(t[k])
  <2>1. CASE k = Len(s) + 1
    BY <1>3, <2>1
  <2>2. CASE k # Len(s) + 1
    <3>1. k \in 2..Len(s) /\ k \in 1..Len(s)
      BY <1>2, <1>3, <2>2
    <3> QED
      BY <1>3, <3>1 DEF Nested
  <2> QED
    BY <2>1, <2>2
<1>6. Nested(t)
  BY <1>3, <1>4, <1>5 DEF Nested
<1>7. Len(t) \in DOMAIN t /\ t[Len(t)] = f
  BY <1>2, <1>3
<1> QED
  BY <1>4, <1>6, <1>7 DEF t

\* An activation ends.
LEMMA NestedPop ==
  ASSUME NEW s, Nested(s), s[Len(s)].frame # "statement"
  PROVE  Nested(Front(s)) /\ Front(s)[1] = s[1] /\ Len(Front(s)) = Len(s) - 1
<1>1. PICK S : s \in Seq(S)
  BY DEF Nested
<1> DEFINE n == Len(s) - 1  t == Front(s)
<1>2. Len(s) \in Nat /\ Len(s) > 1
  BY NestedFacts
<1>3. n \in Nat /\ n >= 1 /\ n <= Len(s)
  BY <1>2
<1>4. /\ t \in Seq(S) /\ Len(t) = n
      /\ \A k \in 1..n : t[k] = s[k]
  <2>1. t = SubSeq(s, 1, n)
    BY DEF Front
  <2> HIDE DEF n, t
  <2> QED
    BY <1>1, <1>3, <2>1, SubSeqProperties
<1> HIDE DEF t
<1>5. t # <<>> /\ t[1] = s[1]
  BY <1>3, <1>4, EmptySeq
<1>6. \A k \in 2..n : k \in 2..Len(s) /\ t[k] = s[k]
  BY <1>2, <1>4
<1>7. Nested(t)
  BY <1>4, <1>5, <1>6 DEF Nested
<1> QED
  BY <1>4, <1>5, <1>7 DEF t

LEMMA FrontTwice ==
  ASSUME NEW S, NEW s \in Seq(S), Len(s) > 1
  PROVE  Front(Front(s)) = SubSeq(s, 1, Len(s) - 2)
<1> DEFINE n == Len(s) - 1
<1>1. n \in Nat /\ n >= 1 /\ n <= Len(s) /\ n - 1 = Len(s) - 2 /\ n - 1 \in Nat /\ n - 1 <= Len(s)
  OBVIOUS
<1> HIDE DEF n
<1> DEFINE t == SubSeq(s, 1, n)
           u == SubSeq(t, 1, n - 1)
           w == SubSeq(s, 1, n - 1)
<1>2. t \in Seq(S) /\ Len(t) = n /\ \A k \in 1..n : t[k] = s[k]
  BY <1>1, SubSeqProperties
<1>3. w \in Seq(S) /\ Len(w) = n - 1 /\ \A k \in 1..(n - 1) : w[k] = s[k]
  BY <1>1, SubSeqProperties
<1> HIDE DEF t, w
<1>4. u \in Seq(S) /\ Len(u) = n - 1 /\ \A k \in 1..(n - 1) : u[k] = t[k]
  BY <1>1, <1>2, SubSeqProperties
<1> HIDE DEF u
<1>5. \A k \in 1..(n - 1) : u[k] = w[k]
  BY <1>1, <1>2, <1>3, <1>4
<1>6. u = w
  BY <1>1, <1>3, <1>4, <1>5, SeqEqual
<1>7. Front(s) = t
  BY DEF Front, t, n
<1>8. Front(t) = u
  BY <1>2 DEF Front, u
<1> QED
  BY <1>1, <1>6, <1>7, <1>8 DEF w

\* The activation on top changes.
LEMMA NestedBecome ==
  ASSUME NEW s, Nested(s), s[Len(s)].frame # "statement", NEW f, Activation(f)
  PROVE  /\ Nested(Append(Front(s), f)) /\ Append(Front(s), f)[1] = s[1]
         /\ Append(Front(s), f)[Len(Append(Front(s), f))] = f
         /\ Len(Append(Front(s), f)) \in DOMAIN Append(Front(s), f)
BY NestedPop, NestedPush, Zenon

\* The statement at the bottom changes, but not in kind.
LEMMA NestedExcept ==
  ASSUME NEW s, Nested(s), NEW f, Beginning(f), f.node = s[1].node
  PROVE  Nested([s EXCEPT ![1] = f]) /\ [s EXCEPT ![1] = f][1].node = s[1].node
<1>1. PICK S : s \in Seq(S)
  BY DEF Nested
<1> DEFINE t == [s EXCEPT ![1] = f]
<1>2. s \in Seq(S \cup {f}) /\ Len(s) \in Nat \ {0} /\ 1 \in 1..Len(s)
  BY <1>1, SeqMonotonic, NestedFacts
<1>3. t \in Seq(S \cup {f}) /\ Len(t) = Len(s)
  BY <1>2, ExceptSeq
<1>4. t[1] = f /\ \A k \in 2..Len(s) : t[k] = s[k]
  BY <1>2
<1> HIDE DEF t
<1>5. t # <<>>
  BY <1>2, <1>3, EmptySeq
<1>6. Nested(t)
  BY <1>3, <1>4, <1>5 DEF Nested
<1> QED
  BY <1>4, <1>6 DEF t
-----------------------------------------------------------------------------
(* The stream. *)

\* The lexer supplies a token of the stream.
LEMMA SupplyIsToken ==
  ASSUME NEW n \in Nat \ {0}, NEW t \in Supply(n), script \in Scripts
  PROVE  t \in Stream
<1>1. CASE n <= Len(script)
  <2>1. script \in Seq(Stream)
    BY TokenAssumption
  <2>2. n \in 1..Len(script)
    BY <1>1, <2>1
  <2> QED
    BY <1>1, <2>1, <2>2, ElementOfSeq DEF Supply
<1>2. CASE ~(n <= Len(script))
  BY <1>2 DEF Supply, Stream
<1> QED
  BY <1>1, <1>2

\* What is counted is finite, and depends on the first n tokens alone.
LEMMA Counted ==
  ASSUME NEW ts, NEW n \in Nat
  PROVE  /\ IsFiniteSet(Ends(ts, n)) /\ Cardinality(Ends(ts, n)) \in Nat
         /\ IsFiniteSet(Defs(ts, n)) /\ Cardinality(Defs(ts, n)) \in Nat
         /\ n + 1 \notin Ends(ts, n) /\ n + 1 \notin Defs(ts, n)
<1>1. IsFiniteSet(1..n)
  BY FS_Interval
<1>2. Ends(ts, n) \subseteq 1..n /\ Defs(ts, n) \subseteq 1..n
  <2>1. \A k \in 2..n : k \in 1..n
    OBVIOUS
  <2>2. Ends(ts, n) \subseteq 2..n /\ Defs(ts, n) \subseteq 1..n
    BY DEF Ends, Defs
  <2> QED
    BY <2>1, <2>2
<1>3. IsFiniteSet(Ends(ts, n)) /\ IsFiniteSet(Defs(ts, n))
  BY <1>1, <1>2, FS_Subset
<1> QED
  BY <1>2, <1>3, FS_CardinalityType

LEMMA CountPrefix ==
  ASSUME NEW ts, NEW us, NEW n \in Nat, \A j \in 1..n : ts[j] = us[j]
  PROVE  Ends(ts, n) = Ends(us, n) /\ Defs(ts, n) = Defs(us, n)
<1>1. \A k \in 2..n : k \in 1..n /\ k - 1 \in 1..n
  OBVIOUS
<1> QED
  BY <1>1 DEF Ends, Defs

\* One token more.
LEMMA CountGrows ==
  ASSUME NEW ts, NEW n \in Nat
  PROVE  /\ Cardinality(Defs(ts, n + 1)) = Cardinality(Defs(ts, n)) + (IF ts[n + 1] = "def" THEN 1 ELSE 0)
         /\ Cardinality(Ends(ts, n + 1))
              = Cardinality(Ends(ts, n)) + (IF n >= 1 /\ ts[n + 1] = ";" /\ ts[n] \notin {";", "{"} THEN 1 ELSE 0)
<1>1. Defs(ts, n + 1) = IF ts[n + 1] = "def" THEN Defs(ts, n) \cup {n + 1} ELSE Defs(ts, n)
  BY DEF Defs
<1>2. Ends(ts, n + 1) = IF n >= 1 /\ ts[n + 1] = ";" /\ ts[n] \notin {";", "{"}
                        THEN Ends(ts, n) \cup {n + 1} ELSE Ends(ts, n)
  <2>1. ASSUME NEW k
        PROVE  k \in 2..(n + 1) <=> k \in 2..n \/ (n >= 1 /\ k = n + 1)
    OBVIOUS
  <2>2. (n + 1) - 1 = n /\ n + 1 \notin 2..n
    OBVIOUS
  <2>3. ASSUME NEW k
        PROVE  k \in Ends(ts, n + 1) <=>
                 k \in Ends(ts, n) \/ (k = n + 1 /\ n >= 1 /\ ts[n + 1] = ";" /\ ts[n] \notin {";", "{"})
    <3>1. CASE k = n + 1
      BY <3>1, <2>1, <2>2 DEF Ends
    <3>2. CASE k # n + 1
      BY <3>2, <2>1 DEF Ends
    <3> QED
      BY <3>1, <3>2
  <2>4. CASE n >= 1 /\ ts[n + 1] = ";" /\ ts[n] \notin {";", "{"}
    <3>1. Ends(ts, n + 1) = Ends(ts, n) \cup {n + 1}
      <4>1. \A k : k \in Ends(ts, n + 1) <=> k \in Ends(ts, n) \/ k = n + 1
        BY <2>3, <2>4, Zenon
      <4> QED
        BY <4>1, Zenon
    <3> QED
      BY <2>4, <3>1, Zenon
  <2>5. CASE ~(n >= 1 /\ ts[n + 1] = ";" /\ ts[n] \notin {";", "{"})
    <3>1. Ends(ts, n + 1) = Ends(ts, n)
      BY <2>3, <2>5
    <3> QED
      BY <2>5, <3>1, Zenon
  <2> QED
    BY <2>4, <2>5, Zenon
<1>3. /\ Cardinality(Defs(ts, n) \cup {n + 1}) = Cardinality(Defs(ts, n)) + 1
      /\ Cardinality(Ends(ts, n) \cup {n + 1}) = Cardinality(Ends(ts, n)) + 1
  BY Counted, FS_AddElement
<1>4. Cardinality(Defs(ts, n)) \in Nat /\ Cardinality(Ends(ts, n)) \in Nat
  BY Counted
<1>5. /\ Cardinality(Defs(ts, n + 1)) = Cardinality(Defs(ts, n)) + (IF ts[n + 1] = "def" THEN 1 ELSE 0)
  <2>1. CASE ts[n + 1] = "def"
    BY <1>1, <1>3, <2>1
  <2>2. CASE ts[n + 1] # "def"
    BY <1>1, <1>4, <2>2
  <2> QED
    BY <2>1, <2>2
<1>6. Cardinality(Ends(ts, n + 1))
        = Cardinality(Ends(ts, n)) + (IF n >= 1 /\ ts[n + 1] = ";" /\ ts[n] \notin {";", "{"} THEN 1 ELSE 0)
  <2>1. CASE n >= 1 /\ ts[n + 1] = ";" /\ ts[n] \notin {";", "{"}
    BY <1>2, <1>3, <2>1
  <2>2. CASE ~(n >= 1 /\ ts[n + 1] = ";" /\ ts[n] \notin {";", "{"})
    <3>1. Ends(ts, n + 1) = Ends(ts, n)
      BY <1>2, <2>2, Zenon
    <3>2. Cardinality(Ends(ts, n)) = Cardinality(Ends(ts, n)) + 0
      BY <1>4
    <3> QED
      BY <2>2, <3>1, <3>2, Zenon
  <2> QED
    BY <2>1, <2>2
<1> QED
  BY <1>5, <1>6

LEMMA AtItsEnd ==
  ASSUME NEW n \in Nat, n >= 2
  PROVE  n \in 2..n
OBVIOUS

LEMMA NotTheFirst ==
  ASSUME NEW n \in Nat \ {0}, n # 1
  PROVE  n > 1
OBVIOUS

LEMMA BothBefore ==
  ASSUME NEW n \in Nat, NEW k \in 2..n
  PROVE  k \in 1..n /\ k - 1 \in 1..n /\ k \in 2..(n + 1)
OBVIOUS

\* Taking a token: it stands in front of the new one, and is counted.
LEMMA Taken ==
  ASSUME script \in Scripts, text \in Seq(Stream), text # <<>>, GetNextToken
  PROVE  /\ script' \in Scripts
         /\ text' \in Seq(Stream) /\ text' # <<>>
         /\ Len(text) \in Nat \ {0} /\ Len(text') = Len(text) + 1
         /\ Prev' = tok
         /\ Cardinality(Defs(text', Len(text') - 1))
              = Cardinality(Defs(text, Len(text) - 1)) + (IF tok = "def" THEN 1 ELSE 0)
         /\ Cardinality(Ends(text', Len(text') - 1))
              = Cardinality(Ends(text, Len(text) - 1))
                  + (IF Len(text) >= 2 /\ tok = ";" /\ Prev \notin {";", "{"} THEN 1 ELSE 0)
         /\ Excused => Excused'
<1>1. PICK t \in Supply(Len(text) + 1) : text' = Append(text, t)
  BY DEF GetNextToken
<1>2. Len(text) \in Nat \ {0} /\ script' = script
  BY EmptySeq DEF GetNextToken
<1>3. t \in Stream
  BY <1>2, SupplyIsToken
<1>4. /\ text' \in Seq(Stream) /\ text' # <<>> /\ Len(text') = Len(text) + 1
      /\ \A j \in 1..Len(text) : text'[j] = text[j]
  BY <1>1, <1>3, AppendProperties
<1> DEFINE n == Len(text) - 1
<1>5. n \in Nat /\ n + 1 = Len(text) /\ Len(text') - 1 = Len(text) /\ (n >= 1 <=> Len(text) >= 2)
  BY <1>2, <1>4
<1>6. Prev' = tok
  BY <1>2, <1>4 DEF Prev, tok
<1>7. Ends(text', Len(text)) = Ends(text, Len(text)) /\ Defs(text', Len(text)) = Defs(text, Len(text))
  BY <1>2, <1>4, CountPrefix
<1>8. text[n + 1] = tok /\ text[n] = Prev
  BY <1>5 DEF tok, Prev
<1>9. /\ Cardinality(Defs(text', Len(text') - 1))
           = Cardinality(Defs(text, Len(text) - 1)) + (IF tok = "def" THEN 1 ELSE 0)
      /\ Cardinality(Ends(text', Len(text') - 1))
           = Cardinality(Ends(text, Len(text) - 1))
               + (IF Len(text) >= 2 /\ tok = ";" /\ Prev \notin {";", "{"} THEN 1 ELSE 0)
  <2> HIDE DEF n
  <2>1. /\ Cardinality(Defs(text, n + 1)) = Cardinality(Defs(text, n)) + (IF text[n + 1] = "def" THEN 1 ELSE 0)
        /\ Cardinality(Ends(text, n + 1))
             = Cardinality(Ends(text, n)) + (IF n >= 1 /\ text[n + 1] = ";" /\ text[n] \notin {";", "{"} THEN 1 ELSE 0)
    BY <1>5, CountGrows
  <2>2. n = Len(text) - 1
    BY DEF n
  <2> QED
    BY <1>5, <1>7, <1>8, <2>1, <2>2
<1>10. Excused => Excused'
  <2> SUFFICES ASSUME NEW k \in 2..Len(text), text[k] = ";", text[k - 1] \in {"=", "(", ","}
               PROVE  Excused'
    BY DEF Excused
  <2>1. k \in 1..Len(text) /\ k - 1 \in 1..Len(text) /\ k \in 2..Len(text')
    <3>1. Len(text) \in Nat
      BY <1>2
    <3>2. Len(text') = Len(text) + 1
      BY <1>4
    <3> QED
      BY <3>1, <3>2, BothBefore, Zenon
  <2>2. text'[k] = ";" /\ text'[k - 1] \in {"=", "(", ","}
    BY <1>4, <2>1
  <2> QED
    BY <2>1, <2>2 DEF Excused
<1> QED
  BY <1>2, <1>4, <1>6, <1>9, <1>10
-----------------------------------------------------------------------------
(* The module under construction. *)

SameModule == UNCHANGED <<body, functions>>

LEMMA SameModuleFacts ==
  ASSUME SameModule
  PROVE  /\ body' = body /\ functions' = functions
         /\ Placed' = Placed /\ Holes' = Holes
BY DEF SameModule, Placed, Holes, Statements, Bodies

\* A statement is added to the body.
LEMMA StatementAdded ==
  ASSUME IsSeq(body), NEW s, body' = Append(body, s), functions' = functions
  PROVE  /\ IsSeq(body') /\ Len(body) \in Nat /\ Len(body') = Len(body) + 1
         /\ Placed' = Placed
         /\ Holes' => Holes \/ Hole(s)
<1>1. PICK S : body \in Seq(S)
  BY DEF IsSeq
<1>2. body \in Seq(S \cup {s})
  BY <1>1, SeqMonotonic
<1>3. /\ body' \in Seq(S \cup {s}) /\ Len(body) \in Nat /\ Len(body') = Len(body) + 1
      /\ body'[Len(body) + 1] = s
      /\ \A k \in 1..Len(body) : body'[k] = body[k]
  BY <1>2, AppendProperties
<1>4. ToSet(body') \subseteq ToSet(body) \cup {s}
  <2> SUFFICES ASSUME NEW k \in DOMAIN body' PROVE body'[k] \in ToSet(body) \cup {s}
    BY DEF ToSet
  <2>1. k \in 1..(Len(body) + 1) /\ DOMAIN body = 1..Len(body)
    BY <1>2, <1>3
  <2>2. CASE k = Len(body) + 1
    BY <1>3, <2>2
  <2>3. CASE k # Len(body) + 1
    <3>1. k \in 1..Len(body)
      BY <1>3, <2>1, <2>3
    <3> QED
      BY <1>3, <2>1, <3>1 DEF ToSet
  <2> QED
    BY <2>2, <2>3
<1>5. Statements' \subseteq Statements \cup {s}
  <2> SUFFICES ASSUME NEW b \in Bodies' PROVE ToSet(b) \subseteq Statements \cup {s}
    BY DEF Statements
  <2>1. b = body' \/ b \in Bodies
    BY DEF Bodies
  <2>2. ToSet(body) \subseteq Statements
    BY DEF Statements, Bodies
  <2> QED
    BY <1>4, <2>1, <2>2 DEF Statements
<1>6. Holes' => Holes \/ Hole(s)
  <2> SUFFICES ASSUME NEW r \in Statements', Hole(r) PROVE Holes \/ Hole(s)
    BY DEF Holes, Hole, Null
  <2>1. r \in Statements \/ r = s
    BY <1>5
  <2> QED
    BY <2>1 DEF Holes
<1>7. Placed' = Placed
  BY DEF Placed
<1> QED
  BY <1>3, <1>6, <1>7 DEF IsSeq

\* A function with m statements adds as many places.
LEMMA RowOfPlaces ==
  ASSUME NEW a, NEW m \in Nat
  PROVE  IsFiniteSet({a} \X (1..m)) /\ Cardinality({a} \X (1..m)) = m
<1> DEFINE One == {a}
<1> DEFINE Row == 1..m
<1>1. IsFiniteSet(One) /\ Cardinality(One) = 1
  BY FS_Singleton
<1>2. IsFiniteSet(Row) /\ Cardinality(Row) = m
  BY FS_Interval
<1> HIDE DEF One, Row
<1>3. IsFiniteSet(One \X Row) /\ Cardinality(One \X Row) = Cardinality(One) * Cardinality(Row)
  BY <1>1, <1>2, FS_Product, Zenon
<1>4. Cardinality(One \X Row) = 1 * m
  BY <1>1, <1>2, <1>3, Zenon
<1>5. Cardinality(One \X Row) = m
  BY <1>4, SMT
<1> QED
  BY <1>3, <1>5, Zenon DEF One, Row

\* The body becomes that of a function.
LEMMA FunctionAdded ==
  ASSUME IsSeq(body), IsSeq(functions), IsFiniteSet(Placed),
         NEW f, f.body = body,
         functions' = Append(functions, f), body' = <<>>
  PROVE  /\ IsSeq(body') /\ IsSeq(functions') /\ IsFiniteSet(Placed')
         /\ Len(functions) \in Nat /\ Len(functions') = Len(functions) + 1
         /\ Cardinality(Placed') + Len(body') = Cardinality(Placed) + Len(body)
         /\ Holes' => Holes
<1>1. PICK S : functions \in Seq(S)
  BY DEF IsSeq
<1>2. functions \in Seq(S \cup {f})
  BY <1>1, SeqMonotonic
<1> DEFINE n == Len(functions)
<1>3. /\ functions' \in Seq(S \cup {f}) /\ n \in Nat /\ Len(functions') = n + 1
      /\ functions'[n + 1] = f
      /\ \A k \in 1..n : functions'[k] = functions[k]
  BY <1>2, AppendProperties
<1>4. DOMAIN functions = 1..n /\ DOMAIN functions' = 1..(n + 1)
  BY <1>2, <1>3
<1>5. Len(body) \in Nat /\ DOMAIN body = 1..Len(body)
  BY DEF IsSeq
<1>6. body' \in Seq({}) /\ Len(body') = 0
  BY EmptySeq
<1> HIDE DEF n
<1>7. \A k \in 1..(n + 1) : k \in 1..n \/ k = n + 1
  BY <1>3
<1>8. \A k \in 1..n : k \in 1..(n + 1)
  BY <1>3
<1> DEFINE New == {n + 1} \X (1..Len(body))
<1>9. Placed' = Placed \cup New
  <2> DEFINE old(k) == {k} \X DOMAIN functions[k].body
             new(k) == {k} \X DOMAIN functions'[k].body
  <2>1. \A k \in 1..n : new(k) = old(k)
    BY <1>3
  <2>2. new(n + 1) = New
    BY <1>3, <1>5
  <2>3. Placed' = UNION {new(k) : k \in 1..(n + 1)}
    BY <1>4 DEF Placed
  <2>4. Placed = UNION {old(k) : k \in 1..n}
    BY <1>4 DEF Placed
  <2>5. n + 1 \in 1..(n + 1)
    BY <1>3
  <2> HIDE DEF old, new, New
  <2>6. UNION {new(k) : k \in 1..(n + 1)} = (UNION {old(k) : k \in 1..n}) \cup New
    BY <1>7, <1>8, <2>1, <2>2, <2>5, Zenon
  <2> QED
    BY <2>3, <2>4, <2>6, Zenon
<1>10. IsFiniteSet(New) /\ Cardinality(New) = Len(body)
  BY <1>5, RowOfPlaces DEF New
<1>11. Placed \cap New = {}
  <2> SUFFICES ASSUME NEW p \in Placed, p \in New PROVE FALSE
    OBVIOUS
  <2>1. PICK k \in 1..n : p \in {k} \X DOMAIN functions[k].body
    BY <1>4 DEF Placed
  <2>2. p[1] = k /\ p[1] = n + 1
    BY <2>1
  <2> QED
    BY <1>3, <2>2
<1> HIDE DEF New
<1>12. IsFiniteSet(Placed') /\ Cardinality(Placed') = Cardinality(Placed) + Cardinality(New)
  <2>1. Cardinality(Placed \cap New) = 0
    BY <1>11, FS_EmptySet
  <2>2. /\ IsFiniteSet(Placed \cup New)
        /\ Cardinality(Placed \cup New) = Cardinality(Placed) + Cardinality(New) - Cardinality(Placed \cap New)
    BY <1>10, FS_Union
  <2>3. Cardinality(Placed) \in Nat /\ Cardinality(New) \in Nat
    BY <1>10, FS_CardinalityType
  <2> QED
    BY <1>9, <2>1, <2>2, <2>3
<1>13. Cardinality(Placed') + Len(body') = Cardinality(Placed) + Len(body)
  <2>1. Cardinality(Placed) \in Nat
    BY FS_CardinalityType
  <2> QED
    BY <1>5, <1>6, <1>10, <1>12, <2>1
<1>14. Holes' => Holes
  <2>1. Statements' \subseteq Statements
    <3> SUFFICES ASSUME NEW b \in Bodies' PROVE ToSet(b) \subseteq Statements
      BY DEF Statements
    <3>1. b = body' \/ \E k \in 1..(n + 1) : b = functions'[k].body
      BY <1>4 DEF Bodies
    <3>2. CASE b = body'
      BY <1>6, <3>2 DEF ToSet
    <3>3. CASE \E k \in 1..(n + 1) : b = functions'[k].body
      <4>1. b = body \/ \E k \in 1..n : b = functions[k].body
        BY <1>3, <1>7, <3>3
      <4>2. b \in Bodies
        BY <1>4, <4>1 DEF Bodies
      <4> QED
        BY <4>2 DEF Statements
    <3> QED
      BY <3>1, <3>2, <3>3
  <2> QED
    BY <2>1 DEF Holes, Hole, Null
<1>15. Len(functions) \in Nat /\ Len(functions') = Len(functions) + 1
  BY <1>3 DEF n
<1> QED
  BY <1>3, <1>6, <1>12, <1>13, <1>14, <1>15 DEF IsSeq
-----------------------------------------------------------------------------
(* The kinds of steps, and what they keep. *)

InProgress == status = "parsing" /\ status' = "parsing"
Stays == UNCHANGED <<script, text>>

\* Parsing ends, with a message or in an assertion.
Stops == /\ status = "parsing" /\ status' \in {"module", "nullptr", "aborted"}
         /\ reported' \in BOOLEAN /\ (status' # "aborted" => reported')
         /\ SameModule /\ UNCHANGED <<script, text, pc, stack, value>>

\* A token is taken outside of statements.
Outer == /\ InProgress /\ SameModule /\ UNCHANGED <<stack, value, reported>>
         /\ pc \in OuterPcs /\ pc' \in OuterPcs \ {"definition", "separator"}
         /\ GetNextToken
         /\ pc = "definition" <=> tok = "def"
         /\ pc = "separator" => tok = ";"
         /\ tok = ";" => pc \in {"separator", "statement"}
         /\ pc' = "statement" => tok \in {";", "{"}
         /\ pc' = "return" => tok = "return"

\* A statement begins.
Enters == /\ InProgress /\ SameModule /\ UNCHANGED <<value, reported>>
          /\ Nested(stack')
          /\ \/ pc = "return" /\ pc' = "primary" /\ Stays /\ tok # ";"
             \/ pc = "statement" /\ pc' = "primary" /\ Stays /\ stack'[1].node = "Expr"
             \/ pc = "varname" /\ pc' = "type" /\ GetNextToken /\ tok \notin {";", "{", "def"}

\* A step inside a statement.
Inside == /\ InProgress /\ SameModule /\ UNCHANGED reported
          /\ pc \in InnerPcs /\ pc' \in InnerPcs
          /\ Nested(stack') /\ stack'[1].node = stack[1].node /\ Fits'
          /\ value' = Null \/ value'.node \in ExprNodes
          /\ pc' = "value" => value' # Null
          /\ \/ /\ GetNextToken /\ tok \notin {";", "{", "def"}
                /\ pc' = "primary" => tok \in {"=", "(", ","} \/ ~Quiet'
                /\ pc' = "arguments" => tok = "("
             \/ /\ Stays /\ pc # "primary" /\ pc' # "arguments"
                /\ pc' = "primary" => pc = "arguments"

\* A statement ends, perhaps with a hole.
Completes == /\ InProgress /\ Stays /\ UNCHANGED functions
             /\ pc \notin {"definition", "separator"} /\ pc' = "separator"
             /\ stack' = <<>> /\ value' \in {Null, value}
             /\ Prev \notin {";", "{"}
             /\ reported' \in BOOLEAN /\ (reported => reported')
             /\ \E s : body' = Append(body, s) /\ (Hole(s) => reported' \/ tok = "}" \/ Excused)

LEMMA StopsKeeps ==
  ASSUME ParserInv, Stops
  PROVE  ParserInv'
<1>1. /\ script' = script /\ text' = text /\ pc' = pc /\ stack' = stack /\ value' = value
      /\ body' = body /\ functions' = functions /\ Placed' = Placed
      /\ reported' \in BOOLEAN
  BY SameModuleFacts DEF Stops
<1>2. Data' /\ Place'
  BY <1>1 DEF ParserInv, Data, Place, Fits, Top
<1>3. status' \in {"module", "nullptr", "aborted"} /\ Outcome'
  BY DEF Stops, Outcome
<1> QED
  BY <1>2, <1>3 DEF ParserInv

\* What the steps that go on have in common.
LEMMA GoesOn ==
  ASSUME InProgress, Data', Place', Working'
  PROVE  ParserInv'
BY DEF InProgress, ParserInv, Outcome

LEMMA StaysFacts ==
  ASSUME Stays
  PROVE  /\ script' = script /\ text' = text /\ tok' = tok /\ Prev' = Prev
         /\ Excused' = Excused
BY DEF Stays, tok, Prev, Excused

LEMMA CountsAreNumbers ==
  ASSUME Data
  PROVE  /\ Len(text) \in Nat \ {0} /\ Len(text) - 1 \in Nat
         /\ Cardinality(Defs(text, Len(text) - 1)) \in Nat
         /\ Cardinality(Ends(text, Len(text) - 1)) \in Nat
         /\ Cardinality(Placed) \in Nat /\ Len(body) \in Nat /\ Len(functions) \in Nat
<1>1. Len(text) \in Nat \ {0}
  BY EmptySeq DEF Data
<1>2. Len(text) - 1 \in Nat
  BY <1>1
<1>3. Len(body) \in Nat /\ Len(functions) \in Nat
  BY DEF Data, IsSeq
<1>4. Cardinality(Placed) \in Nat
  BY FS_CardinalityType DEF Data
<1> QED
  BY <1>1, <1>2, <1>3, <1>4, Counted

LEMMA PlusZero ==
  ASSUME NEW a, NEW b \in Nat, a = b + 0
  PROVE  a = b
OBVIOUS

LEMMA OuterKeeps ==
  ASSUME ParserInv, Outer
  PROVE  ParserInv'
<1>1. /\ Data /\ Working /\ GetNextToken /\ stack = <<>> /\ pc # "value"
      /\ pc' \in OuterPcs \ {"definition", "separator"}
  BY DEF ParserInv, Outer, InProgress, Place, OuterPcs, InnerPcs
<1>2. /\ body' = body /\ functions' = functions /\ Placed' = Placed /\ Holes' = Holes
      /\ stack' = <<>> /\ value' = value /\ reported' = reported
  BY <1>1, SameModuleFacts DEF Outer
<1>3. /\ script' \in Scripts
      /\ text' \in Seq(Stream) /\ text' # <<>>
      /\ Len(text) \in Nat \ {0} /\ Len(text') = Len(text) + 1
      /\ Prev' = tok
      /\ Excused => Excused'
  BY <1>1, Taken DEF Data
<1>4. pc' # "value" /\ pc' \notin InnerPcs
  BY <1>1 DEF OuterPcs, InnerPcs
<1>5. Data'
  BY <1>1, <1>2, <1>3, <1>4 DEF Data
<1>6. Place'
  BY <1>1, <1>2 DEF Place
<1>7. Followed'
  <2>1. /\ pc' = "statement" => tok \in {";", "{"}
        /\ pc' = "return" => tok = "return"
        /\ pc' # "separator" /\ pc' # "arguments" /\ pc' # "primary"
    BY <1>1 DEF Outer, OuterPcs
  <2> QED
    BY <1>3, <1>4, <2>1 DEF Followed
<1>8. Tally'
  <2>1. /\ Cardinality(Defs(text', Len(text') - 1))
             = Cardinality(Defs(text, Len(text) - 1)) + (IF tok = "def" THEN 1 ELSE 0)
        /\ Cardinality(Ends(text', Len(text') - 1))
             = Cardinality(Ends(text, Len(text) - 1))
                 + (IF Len(text) >= 2 /\ tok = ";" /\ Prev \notin {";", "{"} THEN 1 ELSE 0)
    BY <1>1, Taken DEF Data
  <2>2. /\ Cardinality(Defs(text, Len(text) - 1)) = Len(functions) + (IF pc = "definition" THEN 0 ELSE 1)
        /\ Cardinality(Ends(text, Len(text) - 1)) + (IF pc = "separator" THEN 1 ELSE 0)
             = Cardinality(Placed) + Len(body)
    BY <1>1 DEF Working, Tally
  <2>3. (Len(text) >= 2 /\ tok = ";" /\ Prev \notin {";", "{"}) <=> pc = "separator"
    <3>1. /\ pc = "separator" => tok = ";"
          /\ tok = ";" => pc \in {"separator", "statement"}
      BY DEF Outer
    <3>2. /\ pc = "separator" => Prev \notin {";", "{"}
          /\ pc = "statement" => Prev \in {";", "{"}
          /\ pc = "separator" => Len(text) >= 2
      BY <1>1 DEF Working, Followed
    <3> QED
      BY <3>1, <3>2
  <2>4. tok = "def" <=> pc = "definition"
    BY DEF Outer
  <2>5. pc' # "definition" /\ pc' # "separator"
    BY <1>1
  <2>6. /\ Len(functions) \in Nat /\ Len(body) \in Nat /\ Cardinality(Placed) \in Nat
        /\ Cardinality(Defs(text, Len(text) - 1)) \in Nat
        /\ Cardinality(Ends(text, Len(text) - 1)) \in Nat
    BY <1>1, CountsAreNumbers
  <2>7. Cardinality(Defs(text', Len(text') - 1)) = Len(functions) + 1
    <3>1. CASE pc = "definition"
      BY <2>1, <2>2, <2>4, <2>6, <3>1
    <3>2. CASE pc # "definition"
      <4>1. /\ Cardinality(Defs(text', Len(text') - 1)) = Cardinality(Defs(text, Len(text) - 1)) + 0
            /\ Cardinality(Defs(text, Len(text) - 1)) = Len(functions) + 1
        BY <2>1, <2>2, <2>4, <3>2, Zenon
      <4> QED
        BY <2>6, <4>1
    <3> QED
      BY <3>1, <3>2
  <2>8. Cardinality(Ends(text', Len(text') - 1)) + 0 = Cardinality(Placed) + Len(body)
    <3>1. CASE pc = "separator"
      <4>1. /\ Cardinality(Ends(text', Len(text') - 1)) = Cardinality(Ends(text, Len(text) - 1)) + 1
            /\ Cardinality(Ends(text, Len(text) - 1)) + 1 = Cardinality(Placed) + Len(body)
        BY <2>1, <2>2, <2>3, <3>1, Zenon
      <4> QED
        BY <2>6, <4>1
    <3>2. CASE pc # "separator"
      <4>1. /\ Cardinality(Ends(text', Len(text') - 1)) = Cardinality(Ends(text, Len(text) - 1)) + 0
            /\ Cardinality(Ends(text, Len(text) - 1)) + 0 = Cardinality(Placed) + Len(body)
        BY <2>1, <2>2, <2>3, <3>2, Zenon
      <4> QED
        BY <2>6, <4>1
    <3> QED
      BY <3>1, <3>2
  <2> QED
    BY <1>2, <2>5, <2>7, <2>8 DEF Tally
<1>9. HolesTold'
  <2>1. (~reported /\ Holes) => Excused \/ (pc = "separator" /\ tok = "}")
    BY <1>1 DEF Working, HolesTold
  <2>2. ~(pc = "separator" /\ tok = "}")
    BY DEF Outer
  <2> QED
    BY <1>2, <1>3, <2>1, <2>2 DEF HolesTold
<1>10. Working'
  BY <1>3, <1>7, <1>8, <1>9 DEF Working
<1> QED
  BY <1>5, <1>6, <1>10, GoesOn DEF Outer

\* A step that takes no token of those counted, away from the places that count.
LEMMA TallyKept ==
  ASSUME Data, Tally, SameModule,
         pc \notin {"definition", "separator"}, pc' \notin {"definition", "separator"},
         Stays \/ (GetNextToken /\ tok \notin {";", "def"})
  PROVE  Tally'
<1>1. Placed' = Placed /\ body' = body /\ functions' = functions
  BY SameModuleFacts
<1>2. /\ Cardinality(Defs(text, Len(text) - 1)) = Len(functions) + 1
      /\ Cardinality(Ends(text, Len(text) - 1)) + 0 = Cardinality(Placed) + Len(body)
  BY Zenon DEF Tally
<1>3. /\ Cardinality(Defs(text', Len(text') - 1)) = Cardinality(Defs(text, Len(text) - 1))
      /\ Cardinality(Ends(text', Len(text') - 1)) = Cardinality(Ends(text, Len(text) - 1))
  <2>1. CASE Stays
    BY <2>1 DEF Stays
  <2>2. CASE GetNextToken /\ tok \notin {";", "def"}
    <3>1. /\ Cardinality(Defs(text', Len(text') - 1)) = Cardinality(Defs(text, Len(text) - 1)) + 0
          /\ Cardinality(Ends(text', Len(text') - 1)) = Cardinality(Ends(text, Len(text) - 1)) + 0
      <4>1. tok # ";" /\ tok # "def"
        BY <2>2
      <4> QED
        BY <2>2, <4>1, Taken, Zenon DEF Data
    <3> QED
      BY <3>1, CountsAreNumbers, PlusZero, Zenon
  <2> QED
    BY <2>1, <2>2
<1> QED
  BY <1>1, <1>2, <1>3, Zenon DEF Tally

LEMMA EntersKeeps ==
  ASSUME ParserInv, Enters
  PROVE  ParserInv'
<1>1. /\ Data /\ Working /\ stack = <<>>
      /\ pc \in {"return", "statement", "varname"} /\ pc' \in {"primary", "type"}
      /\ Stays \/ (GetNextToken /\ tok \notin {";", "{", "def"})
  BY DEF ParserInv, Enters, InProgress, Place, OuterPcs, InnerPcs
<1>2. /\ body' = body /\ functions' = functions /\ Placed' = Placed /\ Holes' = Holes
      /\ value' = value /\ reported' = reported
  BY SameModuleFacts DEF Enters
<1>3. /\ script' \in Scripts
      /\ text' \in Seq(Stream) /\ text' # <<>>
      /\ Len(text') >= 2
      /\ Excused => Excused'
  <2>1. Len(text) >= 2 /\ Len(text) \in Nat
    BY <1>1, EmptySeq DEF Working, Data
  <2>2. CASE Stays
    BY <1>1, <2>1, <2>2, StaysFacts DEF Data
  <2>3. CASE GetNextToken
    <3>1. /\ script' \in Scripts /\ text' \in Seq(Stream) /\ text' # <<>>
          /\ Len(text') = Len(text) + 1 /\ (Excused => Excused')
      BY <1>1, <2>3, Taken DEF Data
    <3> QED
      BY <2>1, <3>1
  <2> QED
    BY <1>1, <2>2, <2>3
<1>4. Data'
  BY <1>1, <1>2, <1>3 DEF Data
<1>5. Place'
  BY <1>1 DEF Place, Enters, InnerPcs, Fits
<1>6. Followed'
  <2>1. CASE pc = "return" /\ pc' = "primary" /\ Stays /\ tok # ";"
    <3>1. Prev = "return" /\ tok' = tok /\ Prev' = Prev
      BY <1>1, <2>1, StaysFacts DEF Working, Followed
    <3> QED
      BY <2>1, <3>1 DEF Followed
  <2>2. CASE pc = "statement" /\ pc' = "primary" /\ Stays /\ stack'[1].node = "Expr"
    BY <2>2 DEF Followed
  <2>3. CASE pc = "varname" /\ pc' = "type" /\ GetNextToken /\ tok \notin {";", "{", "def"}
    <3>1. Prev' = tok
      BY <1>1, <2>3, Taken DEF Data
    <3> QED
      BY <2>3, <3>1 DEF Followed
  <2> QED
    BY <2>1, <2>2, <2>3 DEF Enters
<1>7. Tally'
  <2>1. Tally /\ SameModule
    BY <1>1 DEF Working, Enters
  <2> QED
    BY <1>1, <2>1, TallyKept
<1>8. HolesTold'
  <2>1. (~reported /\ Holes) => Excused
    BY <1>1 DEF Working, HolesTold
  <2> QED
    BY <1>2, <1>3, <2>1 DEF HolesTold
<1>9. Working'
  BY <1>3, <1>6, <1>7, <1>8 DEF Working
<1> QED
  BY <1>4, <1>5, <1>9, GoesOn DEF Enters

LEMMA InsideKeeps ==
  ASSUME ParserInv, Inside
  PROVE  ParserInv'
<1>1. /\ Data /\ Working /\ Nested(stack) /\ pc \in InnerPcs /\ pc' \in InnerPcs
      /\ pc \notin {"definition", "separator"} /\ pc' \notin {"definition", "separator"}
      /\ Stays \/ (GetNextToken /\ tok \notin {";", "{", "def"})
      /\ stack'[1].node = stack[1].node
  BY DEF ParserInv, Inside, InProgress, Place, OuterPcs, InnerPcs
<1>2. /\ body' = body /\ functions' = functions /\ Placed' = Placed /\ Holes' = Holes
      /\ reported' = reported
  BY SameModuleFacts DEF Inside
<1>3. /\ script' \in Scripts
      /\ text' \in Seq(Stream) /\ text' # <<>>
      /\ Len(text') >= 2
      /\ Excused => Excused'
      /\ GetNextToken => Prev' = tok
  <2>1. Len(text) >= 2 /\ Len(text) \in Nat
    BY <1>1, EmptySeq DEF Working, Data
  <2>2. GetNextToken =>
          /\ script' \in Scripts /\ text' \in Seq(Stream) /\ text' # <<>>
          /\ Len(text') = Len(text) + 1 /\ (Excused => Excused') /\ Prev' = tok
    BY <1>1, Taken DEF Data
  <2>3. Len(text) + 1 >= 2
    BY <2>1
  <2>4. CASE Stays
    <3>1. script' = script /\ text' = text /\ Excused' = Excused
      BY <2>4, StaysFacts
    <3> QED
      BY <1>1, <2>1, <2>2, <2>3, <3>1 DEF Data
  <2>5. CASE GetNextToken
    BY <2>2, <2>3, <2>5
  <2> QED
    BY <1>1, <2>4, <2>5
<1>4. Data'
  BY <1>1, <1>2, <1>3 DEF Data, Inside
<1>5. Place'
  BY <1>1 DEF Place, Inside
<1>6. Followed'
  <2>1. pc' \notin {"statement", "return", "separator"}
    BY <1>1 DEF InnerPcs
  <2>2. CASE /\ GetNextToken /\ tok \notin {";", "{", "def"}
             /\ pc' = "primary" => tok \in {"=", "(", ","} \/ ~Quiet'
             /\ pc' = "arguments" => tok = "("
    BY <1>3, <2>1, <2>2 DEF Followed
  <2>3. CASE /\ Stays /\ pc # "primary" /\ pc' # "arguments"
             /\ pc' = "primary" => pc = "arguments"
    <3>1. Prev' = Prev
      BY <2>3, StaysFacts
    <3>2. Prev \notin {";", "{"} /\ (pc = "arguments" => Prev = "(")
      BY <1>1, <2>3 DEF Working, Followed
    <3> QED
      BY <2>1, <2>3, <3>1, <3>2 DEF Followed
  <2> QED
    BY <2>2, <2>3 DEF Inside
<1>7. Tally'
  <2>1. Tally /\ SameModule
    BY <1>1 DEF Working, Inside
  <2> QED
    BY <1>1, <2>1, TallyKept
<1>8. HolesTold'
  <2>1. (~reported /\ Holes) => Excused
    BY <1>1 DEF Working, HolesTold
  <2> QED
    BY <1>2, <1>3, <2>1 DEF HolesTold
<1>9. Working'
  BY <1>3, <1>6, <1>7, <1>8 DEF Working
<1> QED
  BY <1>4, <1>5, <1>9, GoesOn DEF Inside

LEMMA CompletesKeeps ==
  ASSUME ParserInv, Completes
  PROVE  ParserInv'
<1>1. /\ Data /\ Working /\ pc \notin {"definition", "separator"} /\ pc' = "separator"
      /\ stack' = <<>> /\ value' \in {Null, value} /\ functions' = functions /\ Prev \notin {";", "{"}
      /\ reported' \in BOOLEAN /\ (reported => reported')
  BY DEF ParserInv, Completes, InProgress
<1>2. PICK s : body' = Append(body, s) /\ (Hole(s) => reported' \/ tok = "}" \/ Excused)
  BY DEF Completes
<1>3. /\ script' = script /\ text' = text /\ tok' = tok /\ Prev' = Prev /\ Excused' = Excused
  BY StaysFacts DEF Completes
<1>4. /\ IsSeq(body') /\ Len(body) \in Nat /\ Len(body') = Len(body) + 1
      /\ Placed' = Placed
      /\ Holes' => Holes \/ Hole(s)
  BY <1>1, <1>2, StatementAdded DEF Data
<1>5. Data'
  BY <1>1, <1>3, <1>4 DEF Data
<1>6. Place'
  BY <1>1 DEF Place, OuterPcs
<1>7. Followed'
  BY <1>1, <1>3 DEF Followed, InnerPcs
<1>8. Tally'
  <2>1. /\ Cardinality(Defs(text, Len(text) - 1)) = Len(functions) + 1
        /\ Cardinality(Ends(text, Len(text) - 1)) + 0 = Cardinality(Placed) + Len(body)
    BY <1>1, Zenon DEF Working, Tally
  <2>2. /\ Cardinality(Ends(text, Len(text) - 1)) \in Nat /\ Cardinality(Placed) \in Nat
    BY <1>1, CountsAreNumbers
  <2>3. Cardinality(Ends(text, Len(text) - 1)) + 1 = Cardinality(Placed) + (Len(body) + 1)
    BY <1>4, <2>1, <2>2
  <2> QED
    BY <1>1, <1>3, <1>4, <2>1, <2>3 DEF Tally
<1>9. HolesTold'
  <2>1. (~reported /\ Holes) => Excused
    BY <1>1 DEF Working, HolesTold
  <2> QED
    BY <1>1, <1>2, <1>3, <1>4, <2>1 DEF HolesTold
<1>10. Working'
  BY <1>1, <1>3, <1>7, <1>8, <1>9 DEF Working
<1> QED
  BY <1>5, <1>6, <1>10, GoesOn DEF Completes

LEMMA CloseBlockKeeps ==
  ASSUME ParserInv, CloseBlock
  PROVE  ParserInv'
<1>1. /\ Data /\ Working /\ pc = "statement" /\ tok = "}" /\ stack = <<>>
      /\ GetNextToken /\ pc' = "definition"
      /\ stack' = <<>> /\ value' = value /\ reported' = reported
      /\ status' = IF tok' = "eof" THEN "module" ELSE "parsing"
  BY DEF ParserInv, CloseBlock, AtOneOf, At, Place, InnerPcs, tok
<1>2. /\ body' = <<>>
      /\ functions' = Append(functions, [name |-> proto.name, params |-> proto.params, body |-> body])
  BY DEF CloseBlock
<1>3. /\ IsSeq(body') /\ IsSeq(functions') /\ IsFiniteSet(Placed')
      /\ Len(functions) \in Nat /\ Len(functions') = Len(functions) + 1
      /\ Cardinality(Placed') + Len(body') = Cardinality(Placed) + Len(body)
      /\ Holes' => Holes
  <2>1. IsSeq(body) /\ IsSeq(functions) /\ IsFiniteSet(Placed)
    BY <1>1 DEF Data
  <2> DEFINE f == [name |-> proto.name, params |-> proto.params, body |-> body]
  <2>2. f.body = body /\ functions' = Append(functions, f)
    BY <1>2
  <2> HIDE DEF f
  <2> QED
    BY <1>2, <2>1, <2>2, FunctionAdded
<1>4. /\ script' \in Scripts
      /\ text' \in Seq(Stream) /\ text' # <<>>
      /\ Len(text) \in Nat \ {0} /\ Len(text') = Len(text) + 1
      /\ Excused => Excused'
      /\ Cardinality(Defs(text', Len(text') - 1)) = Cardinality(Defs(text, Len(text) - 1)) + 0
      /\ Cardinality(Ends(text', Len(text') - 1)) = Cardinality(Ends(text, Len(text) - 1)) + 0
  BY <1>1, Taken, Zenon DEF Data
<1>5. Data'
  BY <1>1, <1>3, <1>4 DEF Data
<1>6. Place'
  BY <1>1 DEF Place, OuterPcs
<1>7. Followed'
  BY <1>1 DEF Followed, InnerPcs
<1>8. /\ Cardinality(Defs(text', Len(text') - 1)) = Len(functions')
      /\ Cardinality(Ends(text', Len(text') - 1)) = Cardinality(Placed') + Len(body')
  <2>1. /\ Cardinality(Defs(text, Len(text) - 1)) = Len(functions) + 1
        /\ Cardinality(Ends(text, Len(text) - 1)) + 0 = Cardinality(Placed) + Len(body)
    BY <1>1, Zenon DEF Working, Tally
  <2>2. /\ Cardinality(Defs(text, Len(text) - 1)) \in Nat
        /\ Cardinality(Ends(text, Len(text) - 1)) \in Nat
    BY <1>1, CountsAreNumbers
  <2> QED
    BY <1>3, <1>4, <2>1, <2>2
<1>9. Tally'
  <2>1. Len(functions') \in Nat
    BY <1>3
  <2>2. Cardinality(Ends(text', Len(text') - 1)) \in Nat
    BY <1>5, CountsAreNumbers, Counted, <1>4
  <2>3. Len(functions') = Len(functions') + 0
    BY <2>1
  <2>4. Cardinality(Ends(text', Len(text') - 1)) + 0 = Cardinality(Placed') + Len(body')
    BY <1>8, <2>2
  <2> QED
    BY <1>1, <1>8, <2>3, <2>4 DEF Tally
<1>10. (~reported' /\ Holes') => Excused'
  BY <1>1, <1>3, <1>4 DEF Working, HolesTold
<1>11. Working'
  BY <1>1, <1>7, <1>9, <1>10 DEF Working, HolesTold
<1>12. tok' = "eof" =>
         /\ Len(functions') = Cardinality(Defs(text', Len(text')))
         /\ Cardinality(Placed') = Cardinality(Ends(text', Len(text')))
  <2> SUFFICES ASSUME tok' = "eof"
               PROVE  /\ Len(functions') = Cardinality(Defs(text', Len(text')))
                      /\ Cardinality(Placed') = Cardinality(Ends(text', Len(text')))
    OBVIOUS
  <2> DEFINE n == Len(text') - 1
  <2>1. n \in Nat /\ n + 1 = Len(text')
    BY <1>4
  <2>2. text'[n + 1] # "def" /\ text'[n + 1] # ";"
    <3>1. text'[n + 1] = "eof"
      BY <2>1 DEF tok
    <3> QED
      BY <3>1
  <2>3. /\ Cardinality(Defs(text', n)) = Len(functions')
        /\ Cardinality(Ends(text', n)) = Cardinality(Placed') + Len(body')
    BY <1>8
  <2> HIDE DEF n
  <2>4. /\ Cardinality(Defs(text', n + 1)) = Cardinality(Defs(text', n)) + 0
        /\ Cardinality(Ends(text', n + 1)) = Cardinality(Ends(text', n)) + 0
    BY <2>1, <2>2, CountGrows, Zenon
  <2>5. Len(body') = 0 /\ Cardinality(Placed') \in Nat
    BY <1>2, <1>3, FS_CardinalityType
  <2>6. Cardinality(Defs(text', n)) \in Nat
    BY <2>1, Counted
  <2> QED
    BY <2>1, <2>3, <2>4, <2>5, <2>6
<1>13. Outcome'
  <2>1. CASE tok' = "eof"
    BY <1>1, <1>10, <1>12, <2>1 DEF Outcome
  <2>2. CASE tok' # "eof"
    BY <1>1, <2>2 DEF Outcome
  <2> QED
    BY <2>1, <2>2
<1>14. status' \in {"parsing", "module", "nullptr", "aborted"}
  BY <1>1
<1> QED
  BY <1>5, <1>6, <1>11, <1>13, <1>14 DEF ParserInv

LEMMA InitKeeps ==
  ASSUME Init
  PROVE  ParserInv
<1>1. /\ script \in Seq(Stream) /\ script # <<>> /\ script \in Scripts
  BY TokenAssumption DEF Init
<1>2. Head(script) \in Stream
  BY <1>1
<1> DEFINE h == Head(script)
<1>3. /\ text = <<h>> /\ text \in Seq(Stream) /\ Len(text) = 1 /\ text # <<>>
  <2> HIDE DEF h
  <2>1. text = <<h>>
    BY DEF Init, h
  <2>2. h \in Stream
    BY <1>2 DEF h
  <2> QED
    BY <2>1, <2>2
<1>4. /\ pc = "definition" /\ stack = <<>> /\ value = Null /\ body = <<>> /\ functions = <<>>
      /\ reported = FALSE /\ status = "parsing"
  BY DEF Init
<1>5. /\ IsSeq(body) /\ IsSeq(functions) /\ Len(body) = 0 /\ Len(functions) = 0
      /\ DOMAIN body = {} /\ DOMAIN functions = {}
  <2>1. <<>> \in Seq({}) /\ Len(<<>>) = 0
    BY EmptySeq
  <2> QED
    BY <1>4, <2>1 DEF IsSeq
<1>6. Placed = {} /\ IsFiniteSet(Placed) /\ Cardinality(Placed) = 0
  BY <1>5, FS_EmptySet DEF Placed
<1>7. Data /\ Place
  BY <1>1, <1>3, <1>4, <1>5, <1>6 DEF Data, Place, OuterPcs
<1>8. Defs(text, Len(text) - 1) = {} /\ Ends(text, Len(text) - 1) = {}
  <2>1. Len(text) - 1 = 0 /\ 1..0 = {} /\ 2..0 = {}
    BY <1>3
  <2> QED
    BY <2>1 DEF Defs, Ends
<1>9. Tally
  BY <1>4, <1>5, <1>6, <1>8, FS_EmptySet DEF Tally
<1>10. Followed
  BY <1>4 DEF Followed, InnerPcs
<1>11. ~Holes
  <2>1. ToSet(body) = {}
    BY <1>5 DEF ToSet
  <2>2. Bodies = {body}
    BY <1>5 DEF Bodies
  <2> QED
    BY <2>1, <2>2 DEF Holes, Statements
<1>12. Working
  BY <1>4, <1>9, <1>10, <1>11 DEF Working, HolesTold
<1> QED
  BY <1>4, <1>7, <1>12 DEF ParserInv, Outcome
-----------------------------------------------------------------------------
(* Which action is a step of which kind. *)

LEMMA WordsApart ==
  ASSUME NEW t, t \in Identifiers \/ t \in Numbers
  PROVE  t \notin {"def", "var", "return", "(", ")", "[", "]", "{", "}", ";", ",", "=", "<", ">",
                   "+", "-", "*", "@", "eof"}
BY TokenAssumption DEF Reserved

LEMMA PrototypeSteps ==
  ASSUME ParserInv, Prototype
  PROVE  Outer \/ Stops
<1> USE DEF AtOneOf, At, Goto, Expect, modules, SameModule, InProgress, OuterPcs
<1>1. CASE Define
  BY <1>1 DEF Define, Outer
<1>2. CASE FunctionName
  BY <1>2, WordsApart DEF FunctionName, Outer
<1>3. CASE OpenPrototype
  BY <1>3 DEF OpenPrototype, Outer
<1>4. CASE ClosePrototype
  BY <1>4 DEF ClosePrototype, Outer
<1>5. CASE Parameter
  BY <1>5, WordsApart DEF Parameter, Outer
<1>6. CASE AnotherParameter
  BY <1>6 DEF AnotherParameter, Outer
<1>7. CASE NotAParameter
  BY <1>7 DEF NotAParameter, Abort, Stops, ParserInv, Data
<1>8. CASE PrototypeError
  BY <1>8 DEF PrototypeError, Unexpected, DefinitionFails, Stops, ParserInv, Data
<1> QED
  BY <1>1, <1>2, <1>3, <1>4, <1>5, <1>6, <1>7, <1>8 DEF Prototype

\* An expression fails: the definition with it, or the statement is completed
\* without its expression.
LEMMA FailureSteps ==
  ASSUME ParserInv, status = "parsing", pc \in InnerPcs, NEW m \in BOOLEAN, ExpressionFails(m),
         m \/ (pc = "primary" /\ tok \in {";", "}"})
  PROVE  Stops \/ Completes
<1> DEFINE told == m \/ \E k \in DOMAIN stack : stack[k].frame = "binary"
<1>1. Data /\ Working /\ Nested(stack) /\ reported \in BOOLEAN
  BY DEF ParserInv, Data, Place, OuterPcs, InnerPcs
<1>2. CASE stack[1].node = "Expr"
  <2>1. DefinitionFails(told)
    BY <1>2 DEF ExpressionFails
  <2>2. told \/ tok # "eof"
    OBVIOUS
  <2> HIDE DEF told
  <2>3. reported'
    BY <1>1, <2>1, <2>2 DEF DefinitionFails
  <2>4. reported' \in BOOLEAN
    BY <2>1 DEF DefinitionFails
  <2> QED
    BY <2>1, <2>3, <2>4 DEF DefinitionFails, Stops, SameModule, modules
<1>3. CASE stack[1].node # "Expr"
  <2>1. /\ body' = Append(body, Completed(stack[1], Null))
        /\ stack' = <<>> /\ value' = Null /\ pc' = "separator"
        /\ reported' = (reported \/ told)
        /\ UNCHANGED <<script, text, proto, functions, status>>
    BY <1>3 DEF ExpressionFails
  <2>2. Prev \notin {";", "{"} /\ Len(text) >= 2
    BY <1>1, <1>3 DEF Working, Followed, InnerPcs
  <2>3. told \/ tok = "}" \/ Excused
    <3>1. CASE ~told /\ tok = ";"
      <4>1. pc = "primary" /\ Quiet
        BY <3>1 DEF Quiet
      <4>2. Prev \in {"=", "(", ","}
        BY <1>1, <1>3, <3>1, <4>1 DEF Working, Followed
      <4>3. Len(text) \in 2..Len(text)
        <5>1. Len(text) \in Nat
          BY <1>1, CountsAreNumbers
        <5>2. Len(text) >= 2
          BY <2>2
        <5> QED
          BY <5>1, <5>2, AtItsEnd, Zenon
      <4> QED
        BY <3>1, <4>2, <4>3 DEF Excused, Prev, tok
    <3> QED
      BY <3>1
  <2>4. reported' \in BOOLEAN /\ (reported => reported') /\ (told => reported')
    BY <1>1, <2>1
  <2>5. pc \notin {"definition", "separator"}
    BY DEF InnerPcs
  <2> HIDE DEF told
  <2> QED
    BY <2>1, <2>2, <2>3, <2>4, <2>5 DEF Completes, InProgress, Stays
<1> QED
  BY <1>2, <1>3

\* A statement that has its expression is no hole.
LEMMA NoHole ==
  ASSUME NEW s, Beginning(s), NEW e, e.node \in ExprNodes
  PROVE  ~Hole(Completed(s, e))
<1>1. e # Null
  BY DEF Null, ExprNodes
<1>2. CASE s.node = "Return"
  BY <1>1, <1>2 DEF Completed, Hole
<1>3. CASE s.node = "VarDecl"
  BY <1>1, <1>3 DEF Completed, Hole
<1>4. CASE s.node = "Expr"
  BY <1>4 DEF Completed, Hole, ExprNodes
<1> QED
  BY <1>2, <1>3, <1>4 DEF Beginning

LEMMA EndStatementStep ==
  ASSUME ParserInv, EndStatement
  PROVE  Completes
<1>1. /\ status = "parsing" /\ pc = "value"
      /\ body' = Append(body, Completed(stack[1], value))
      /\ stack' = <<>> /\ value' = Null /\ pc' = "separator"
      /\ UNCHANGED <<script, text, proto, functions, reported, status>>
  BY DEF EndStatement, At, AtOneOf
<1>2. Nested(stack) /\ Data /\ Working
  BY <1>1 DEF ParserInv, Place, OuterPcs
<1>3. Beginning(stack[1]) /\ value.node \in ExprNodes /\ reported \in BOOLEAN
  BY <1>1, <1>2 DEF Nested, Data
<1>4. ~Hole(Completed(stack[1], value))
  BY <1>3, NoHole
<1>5. Prev \notin {";", "{"}
  BY <1>1, <1>2 DEF Working, Followed, InnerPcs
<1> QED
  BY <1>1, <1>3, <1>4, <1>5 DEF Completes, InProgress, Stays

LEMMA ReturnNothingStep ==
  ASSUME ParserInv, ReturnNothing
  PROVE  Completes
<1>1. /\ status = "parsing" /\ pc = "return"
      /\ body' = Append(body, [node |-> "Return", hasExpr |-> FALSE, expr |-> Null])
      /\ pc' = "separator"
      /\ UNCHANGED <<script, text, stack, value, proto, functions, reported, status>>
  BY DEF ReturnNothing, At, AtOneOf
<1>2. stack = <<>> /\ Data /\ Working
  BY <1>1 DEF ParserInv, Place, InnerPcs
<1>3. ~Hole([node |-> "Return", hasExpr |-> FALSE, expr |-> Null])
  BY DEF Hole
<1>4. Prev = "return"
  BY <1>1, <1>2 DEF Working, Followed
<1> QED
  BY <1>1, <1>2, <1>3, <1>4 DEF Completes, InProgress, Stays, Data

LEMMA EnterSteps ==
  ASSUME ParserInv, ReturnExpression \/ VariableName \/ ExpressionStatement
  PROVE  Enters
<1>1. ASSUME NEW node \in {"Return", "VarDecl", "Expr"}, NEW name
      PROVE  /\ Nested(<<Statement(node, name, <<>>)>>)
             /\ <<Statement(node, name, <<>>)>>[1].node = node
  <2> DEFINE f == Statement(node, name, <<>>)
  <2>1. Beginning(f) /\ f.node = node
    BY DEF Statement, Beginning
  <2> HIDE DEF f
  <2>2. Nested(<<f>>) /\ <<f>>[1] = f
    BY <2>1, NestedOne
  <2> QED
    BY <2>1, <2>2 DEF f
<1> USE DEF AtOneOf, At, Enter, modules, SameModule, InProgress, Stays
<1>2. CASE ReturnExpression
  BY <1>1, <1>2 DEF ReturnExpression, Enters
<1>3. CASE VariableName
  BY <1>1, <1>3, WordsApart DEF VariableName, Enters
<1>4. CASE ExpressionStatement
  BY <1>1, <1>4 DEF ExpressionStatement, Enters
<1> QED
  BY <1>2, <1>3, <1>4

\* The other steps of a block.
LEMMA BlockSteps ==
  ASSUME ParserInv, \/ OpenBlock \/ Semicolon \/ Return \/ Declaration \/ Separator
                    \/ NoInitialiser \/ BlockError
  PROVE  Outer \/ Stops
<1> USE DEF AtOneOf, At, Goto, Expect, modules, SameModule, InProgress, OuterPcs
<1>1. CASE OpenBlock
  BY <1>1 DEF OpenBlock, Outer
<1>2. CASE Semicolon
  BY <1>2 DEF Semicolon, Outer
<1>3. CASE Return
  BY <1>3 DEF Return, Outer
<1>4. CASE Declaration
  BY <1>4 DEF Declaration, Outer
<1>5. CASE Separator
  BY <1>5 DEF Separator, Outer
<1>6. CASE NoInitialiser
  BY <1>6 DEF NoInitialiser, Abort, Stops, ParserInv, Data
<1>7. CASE BlockError
  BY <1>7 DEF BlockError, Unexpected, DefinitionFails, Stops, ParserInv, Data
<1> QED
  BY <1>1, <1>2, <1>3, <1>4, <1>5, <1>6, <1>7

LEMMA ErrorSteps ==
  ASSUME ParserInv, NoPrimary \/ ParenError \/ PrintArity \/ CallError \/ LiteralError \/ MixedLiteral
  PROVE  Stops \/ Completes
<1> USE DEF AtOneOf, At
<1>1. CASE NoPrimary
  <2>1. /\ pc = "primary" /\ status = "parsing" /\ pc \in InnerPcs
        /\ ExpressionFails(tok \notin {";", "}"})
    BY <1>1 DEF NoPrimary, InnerPcs
  <2>2. (tok \notin {";", "}"}) \in BOOLEAN
    OBVIOUS
  <2>3. (tok \notin {";", "}"}) \/ tok \in {";", "}"}
    OBVIOUS
  <2> QED
    BY <2>1, <2>2, <2>3, FailureSteps
<1>2. CASE ParenError \/ PrintArity \/ CallError \/ LiteralError
  <2>1. status = "parsing" /\ pc \in InnerPcs /\ ExpressionFails(TRUE)
    BY <1>2 DEF ParenError, PrintArity, CallError, LiteralError, InnerPcs
  <2> QED
    BY <2>1, FailureSteps
<1>3. CASE MixedLiteral
  BY <1>3 DEF MixedLiteral, Abort, Stops, ParserInv, Data, SameModule, modules
<1> QED
  BY <1>1, <1>2, <1>3
-----------------------------------------------------------------------------
(* The steps inside a statement. *)

Going == /\ InProgress /\ SameModule /\ UNCHANGED reported

LEMMA InsideFacts ==
  ASSUME ParserInv, status = "parsing", pc \in InnerPcs
  PROVE  /\ Nested(stack) /\ Fits
         /\ value = Null \/ value.node \in ExprNodes
         /\ pc = "value" => value # Null
BY DEF ParserInv, Data, Place, OuterPcs, InnerPcs

\* A type, and the sign behind it.
LEMMA TypeSteps ==
  ASSUME ParserInv, \/ OpenType \/ DimensionComma \/ DimensionNoComma \/ CloseType
                    \/ OpenCall \/ NextElement \/ Arguments
  PROVE  Inside
<1> USE DEF AtOneOf, At, Goto, Expect, Same, modules, SameModule, InProgress, Stays
<1>1. /\ status = "parsing" /\ pc \in InnerPcs /\ pc # "value"
      /\ stack' = stack /\ value' = value /\ Going
      /\ pc' \in InnerPcs /\ pc' # "value"
  BY DEF OpenType, DimensionComma, DimensionNoComma, CloseType, OpenCall, NextElement, Arguments,
         InnerPcs, Going
<1>2. /\ Nested(stack) /\ Fits
      /\ value = Null \/ value.node \in ExprNodes
  BY <1>1, InsideFacts
<1>3. /\ Nested(stack') /\ stack'[1].node = stack[1].node
      /\ value' = Null \/ value'.node \in ExprNodes
  BY <1>1, <1>2
<1>4. Fits'
  <2>1. Top' = Top
    BY <1>1 DEF Top
  <2>2. /\ pc' = "arguments" => pc = "identifier"
        /\ pc' = "element" => pc = "list"
        /\ pc' # "identifier" /\ pc' # "list"
    BY DEF OpenType, DimensionComma, DimensionNoComma, CloseType, OpenCall, NextElement, Arguments
  <2> QED
    BY <1>2, <2>1, <2>2 DEF Fits
<1>5. \/ /\ GetNextToken /\ tok \notin {";", "{", "def"}
         /\ pc' = "primary" => tok \in {"=", "(", ","} \/ ~Quiet'
         /\ pc' = "arguments" => tok = "("
      \/ /\ Stays /\ pc # "primary" /\ pc' # "arguments"
         /\ pc' = "primary" => pc = "arguments"
  BY DEF OpenType, DimensionComma, DimensionNoComma, CloseType, OpenCall, NextElement, Arguments
<1> QED
  BY <1>1, <1>3, <1>4, <1>5 DEF Inside, Going

\* What is known of the statement on the stack changes.
LEMMA StatementSteps ==
  ASSUME ParserInv, Dimension \/ Initialiser
  PROVE  Inside
<1> USE DEF AtOneOf, At, modules, SameModule, InProgress
<1>1. /\ status = "parsing" /\ pc \in InnerPcs /\ Going
      /\ value' = value
      /\ pc' \in {"comma", "primary"} /\ pc' \in InnerPcs
      /\ GetNextToken /\ tok \in Numbers \cup {"="} /\ (pc' = "primary" => tok = "=")
  BY DEF Dimension, Initialiser, InnerPcs, Going
<1>2. /\ Nested(stack)
      /\ value = Null \/ value.node \in ExprNodes
  BY <1>1, InsideFacts
<1>3. Nested(stack') /\ stack'[1].node = stack[1].node
  <2>1. ASSUME NEW v PROVE /\ Beginning([stack[1] EXCEPT !.shape = v])
                           /\ [stack[1] EXCEPT !.shape = v].node = stack[1].node
    BY <1>2 DEF Nested, Beginning
  <2>2. ASSUME NEW v PROVE /\ Beginning([stack[1] EXCEPT !.from = v])
                           /\ [stack[1] EXCEPT !.from = v].node = stack[1].node
    BY <1>2 DEF Nested, Beginning
  <2>3. CASE Dimension
    <3> DEFINE f == [stack[1] EXCEPT !.shape = Append(@, tok)]
    <3>1. Beginning(f) /\ f.node = stack[1].node
      BY <2>1
    <3>2. stack' = [stack EXCEPT ![1] = f]
      BY <2>3 DEF Dimension
    <3> HIDE DEF f
    <3> QED
      BY <1>2, <3>1, <3>2, NestedExcept
  <2>4. CASE Initialiser
    <3> DEFINE f == [stack[1] EXCEPT !.from = Len(text) + 1]
    <3>1. Beginning(f) /\ f.node = stack[1].node
      BY <2>2
    <3>2. stack' = [stack EXCEPT ![1] = f]
      BY <2>4 DEF Initialiser
    <3> HIDE DEF f
    <3> QED
      BY <1>2, <3>1, <3>2, NestedExcept
  <2> QED
    BY <2>3, <2>4
<1>4. Fits'
  BY <1>1 DEF Fits
<1>5. tok \notin {";", "{", "def"}
  BY <1>1, WordsApart
<1>6. value' = Null \/ value'.node \in ExprNodes
  BY <1>1, <1>2
<1> QED
  BY <1>1, <1>3, <1>4, <1>5, <1>6 DEF Inside, Going

\* A parse function is called.
LEMMA PushSteps ==
  ASSUME ParserInv, Identifier \/ OpenParen \/ OpenLiteral
  PROVE  Inside
<1> USE DEF AtOneOf, At, Same, modules, SameModule, InProgress
<1>1. /\ status = "parsing" /\ pc \in InnerPcs /\ Going
      /\ GetNextToken /\ tok \in Identifiers \cup {"(", "["}
      /\ value' = value
  BY DEF Identifier, OpenParen, OpenLiteral, InnerPcs, Going
<1>2. /\ Nested(stack)
      /\ value = Null \/ value.node \in ExprNodes
  BY <1>1, InsideFacts
<1>3. PICK f : /\ Activation(f) /\ stack' = Append(stack, f)
               /\ \/ pc' = "identifier" /\ f.frame = "call"
                  \/ pc' = "primary" /\ tok = "("
                  \/ pc' = "element" /\ f.frame = "literal"
  <2>1. CASE Identifier
    <3> DEFINE f == [frame |-> "call", callee |-> tok, args |-> <<>>]
    <3>1. Activation(f) /\ f.frame = "call"
      BY DEF Activation
    <3>2. stack' = Append(stack, f) /\ pc' = "identifier"
      BY <2>1 DEF Identifier, Push
    <3> QED
      BY <3>1, <3>2
  <2>2. CASE OpenParen
    <3> DEFINE f == [frame |-> "paren"]
    <3>1. Activation(f)
      BY DEF Activation
    <3>2. stack' = Append(stack, f) /\ pc' = "primary" /\ tok = "("
      BY <2>2 DEF OpenParen, Push
    <3> QED
      BY <3>1, <3>2
  <2>3. CASE OpenLiteral
    <3> DEFINE f == [frame |-> "literal", values |-> <<>>]
    <3>1. Activation(f) /\ f.frame = "literal"
      BY DEF Activation
    <3>2. stack' = Append(stack, f) /\ pc' = "element"
      BY <2>3 DEF OpenLiteral, Push
    <3> QED
      BY <3>1, <3>2
  <2> QED
    BY <2>1, <2>2, <2>3
<1>4. Nested(stack') /\ stack'[1].node = stack[1].node /\ Top' = f
  BY <1>2, <1>3, NestedPush DEF Top
<1>5. Fits' /\ pc' \in InnerPcs /\ pc' # "value" /\ pc' # "arguments"
  BY <1>3, <1>4 DEF Fits, InnerPcs
<1>6. tok \notin {";", "{", "def"}
  BY <1>1, WordsApart
<1>7. value' = Null \/ value'.node \in ExprNodes
  BY <1>1, <1>2
<1> QED
  BY <1>1, <1>3, <1>4, <1>5, <1>6, <1>7 DEF Inside, Going

\* A number, and what ends a parse function: its value is an operand.
LEMMA OperandSteps ==
  ASSUME ParserInv, Number \/ VariableReference \/ CloseParen \/ CloseCall
  PROVE  Inside
<1> USE DEF AtOneOf, At, Same, modules, SameModule, InProgress
<1>1. /\ status = "parsing" /\ pc \in InnerPcs /\ Going
      /\ pc' = "operand" /\ pc' \in InnerPcs
      /\ \/ GetNextToken /\ tok \in Numbers \cup {")"}
         \/ Stays /\ pc = "identifier"
  BY DEF Number, VariableReference, CloseParen, CloseCall, PrimaryValue, InnerPcs, Going, Stays
<1>2. /\ Nested(stack) /\ Fits
      /\ value = Null \/ value.node \in ExprNodes
  BY <1>1, InsideFacts
<1>3. Nested(stack') /\ stack'[1].node = stack[1].node
  <2>1. CASE Number
    BY <1>2, <2>1 DEF Number
  <2>2. CASE VariableReference \/ CloseParen \/ CloseCall
    <3>1. Top.frame \in {"call", "paren"}
      BY <1>2, <2>2 DEF VariableReference, CloseParen, CloseCall, Fits
    <3>2. stack' = Front(stack)
      BY <2>2 DEF VariableReference, CloseParen, CloseCall, Pop
    <3> QED
      BY <1>2, <3>1, <3>2, NestedPop DEF Top
  <2> QED
    BY <2>1, <2>2
<1>4. value' = Null \/ value'.node \in ExprNodes
  <2>1. CASE Number
    BY <2>1 DEF Number, PrimaryValue, ExprNodes
  <2>2. CASE VariableReference
    BY <2>2 DEF VariableReference, PrimaryValue, ExprNodes
  <2>3. CASE CloseParen
    BY <1>2, <2>3 DEF CloseParen, PrimaryValue
  <2>4. CASE CloseCall
    <3>1. PICK args : value' = IF Top.callee # "print"
                               THEN [node |-> "Call", callee |-> Top.callee, args |-> args]
                               ELSE IF Len(args) = 1 THEN [node |-> "Print", arg |-> args[1]] ELSE Null
      BY <2>4 DEF CloseCall, PrimaryValue
    <3> QED
      BY <3>1 DEF ExprNodes
  <2> QED
    BY <2>1, <2>2, <2>3, <2>4
<1>5. Fits'
  BY <1>1 DEF Fits
<1>6. \/ GetNextToken /\ tok \notin {";", "{", "def"}
      \/ Stays /\ pc # "primary"
  BY <1>1, WordsApart
<1> QED
  BY <1>1, <1>3, <1>4, <1>5, <1>6 DEF Inside, Going

\* The activation on top gets an argument or an element.
LEMMA PartSteps ==
  ASSUME ParserInv, Argument \/ Element
  PROVE  Inside
<1> USE DEF AtOneOf, At, Same, modules, SameModule, InProgress
<1>1. /\ status = "parsing" /\ pc \in InnerPcs /\ Going
      /\ value' = value
      /\ GetNextToken
      /\ \/ pc' = "primary" /\ tok = ","
         \/ pc' = "list" /\ tok \in Numbers
  BY DEF Argument, Element, InnerPcs, Going
<1>2. /\ Nested(stack) /\ Fits
      /\ value = Null \/ value.node \in ExprNodes
  BY <1>1, InsideFacts
<1>3. PICK f : /\ Activation(f) /\ stack' = Append(Front(stack), f)
               /\ pc' = "list" => f.frame = "literal"
               /\ Top.frame # "statement"
  <2> DEFINE g(v) == [Top EXCEPT !.args = v]
             h(v) == [Top EXCEPT !.values = v]
  <2>1. Top.frame \in {"call", "literal"}
    BY <1>2 DEF Argument, Element, Fits
  <2>2. Activation(Top)
    BY <1>2, <2>1, NestedFacts DEF Top
  <2>3. ASSUME NEW v
        PROVE  /\ Activation(g(v)) /\ g(v).frame = Top.frame
               /\ Activation(h(v)) /\ h(v).frame = Top.frame
    BY <2>1, <2>2 DEF Activation
  <2>4. CASE Argument
    BY <2>1, <2>3, <2>4 DEF Argument, Become
  <2>5. CASE Element
    <3>1. Top.frame = "literal"
      BY <1>2, <2>5 DEF Element, Fits
    <3> QED
      BY <2>3, <2>5, <3>1 DEF Element, Become
  <2> QED
    BY <2>4, <2>5
<1>4. Nested(stack') /\ stack'[1].node = stack[1].node /\ Top' = f
  BY <1>2, <1>3, NestedBecome DEF Top
<1>5. Fits' /\ pc' \in InnerPcs /\ pc' # "value" /\ pc' # "arguments"
  BY <1>1, <1>3, <1>4 DEF Fits, InnerPcs
<1>6. tok \notin {";", "{", "def"}
  BY <1>1, WordsApart
<1>7. value' = Null \/ value'.node \in ExprNodes
  BY <1>1, <1>2
<1> QED
  BY <1>1, <1>4, <1>5, <1>6, <1>7 DEF Inside, Going

\* A literal is complete: an element of the one around it, or an operand.
LEMMA LiteralStep ==
  ASSUME ParserInv, CloseLiteral
  PROVE  Inside
<1> USE DEF AtOneOf, At, Same, modules, SameModule, InProgress
<1> DEFINE below == stack[Len(stack) - 1]
           v == Literal(Top.values)
<1>1. /\ status = "parsing" /\ pc = "list" /\ pc \in InnerPcs /\ Going
      /\ GetNextToken /\ tok = "]"
      /\ IF below.frame = "literal"
         THEN /\ stack' = Append(SubSeq(stack, 1, Len(stack) - 2), [below EXCEPT !.values = Append(@, v)])
              /\ UNCHANGED <<pc, value>>
         ELSE Pop /\ PrimaryValue(v)
  BY DEF CloseLiteral, InnerPcs, Going
<1>2. /\ Nested(stack) /\ Top.frame = "literal"
      /\ value = Null \/ value.node \in ExprNodes
  BY <1>1, InsideFacts DEF Fits
<1>3. Nested(Front(stack)) /\ Front(stack)[1] = stack[1] /\ Len(Front(stack)) = Len(stack) - 1
  BY <1>2, NestedPop DEF Top
<1>4. Len(stack) \in Nat /\ Len(stack) > 1
  BY <1>2, NestedFacts DEF Top
<1>5. v.node \in ExprNodes
  BY DEF Literal, ExprNodes
<1>6. Front(stack)[Len(Front(stack))] = below
  <2>1. PICK S : stack \in Seq(S)
    BY <1>2 DEF Nested
  <2> DEFINE n == Len(stack) - 1
  <2>2. n \in Nat /\ n >= 1 /\ n <= Len(stack) /\ n \in 1..n
    BY <1>4
  <2>3. Front(stack) = SubSeq(stack, 1, n)
    BY DEF Front
  <2> HIDE DEF n
  <2>4. Front(stack)[n] = stack[n]
    BY <2>1, <2>2, <2>3, SubSeqProperties
  <2> QED
    BY <1>3, <2>4 DEF n
<1>7. tok \notin {";", "{", "def"}
  BY <1>1
<1>8. CASE below.frame = "literal"
  <2> DEFINE f == [below EXCEPT !.values = Append(@, v)]
  <2>1. Activation(below)
    <3>1. Len(Front(stack)) # 1
      BY <1>3, <1>6, <1>8, NestedFacts
    <3>2. Len(Front(stack)) \in Nat \ {0}
      BY <1>3, NestedFacts
    <3>3. Len(Front(stack)) > 1
      BY <3>1, <3>2, NotTheFirst, Zenon
    <3> QED
      BY <1>3, <1>6, <3>3, NestedFacts, Zenon
  <2>2. Activation(f) /\ f.frame = "literal"
    BY <1>8, <2>1 DEF Activation
  <2>3. SubSeq(stack, 1, Len(stack) - 2) = Front(Front(stack))
    BY <1>2, <1>3, <1>4, FrontTwice DEF Nested
  <2>4. /\ stack' = Append(Front(Front(stack)), f)
        /\ pc' = pc /\ value' = value
    BY <1>1, <1>8, <2>3
  <2> HIDE DEF f, v
  <2>5. Front(stack)[Len(Front(stack))].frame # "statement"
    BY <1>6, <1>8
  <2>6. /\ Nested(stack') /\ stack'[1] = stack[1]
        /\ stack'[Len(stack')] = f
    BY <1>3, <2>2, <2>4, <2>5, NestedBecome
  <2>7. Fits'
    BY <1>1, <2>2, <2>4, <2>6 DEF Fits, Top
  <2> QED
    BY <1>1, <1>2, <1>7, <2>4, <2>6, <2>7 DEF Inside, Going
<1>9. CASE below.frame # "literal"
  <2>1. stack' = Front(stack) /\ value' = v /\ pc' = "operand"
    BY <1>1, <1>9 DEF Pop, PrimaryValue
  <2> HIDE DEF v
  <2>2. Fits' /\ pc' \in InnerPcs
    BY <2>1 DEF Fits, InnerPcs
  <2> QED
    BY <1>1, <1>3, <1>5, <1>7, <2>1, <2>2 DEF Inside, Going
<1> QED
  BY <1>8, <1>9

\* parseBinOpRHS() stops, or takes an operator.
LEMMA LoopStep ==
  ASSUME ParserInv, status = "parsing", pc \in {"operand", "value"},
         NEW min \in Nat, NEW lhs, lhs.node \in ExprNodes,
         NEW below, Nested(below), below[1] = stack[1],
         Loop(min, lhs), Pending(min, lhs, below), Same
  PROVE  Inside
<1>1. Going /\ pc \in InnerPcs /\ pc # "primary"
  BY DEF Going, Same, InProgress, SameModule, modules, InnerPcs
<1>2. value = Null \/ value.node \in ExprNodes
  BY <1>1, InsideFacts
<1>3. lhs # Null
  BY DEF Null, ExprNodes
<1>4. CASE Precedence(tok) < min
  <2>1. pc' = "value" /\ value' = lhs /\ Stays /\ stack' = below
    BY <1>4 DEF Loop, Pending, Stays
  <2>2. Fits' /\ pc' \in InnerPcs
    BY <2>1 DEF Fits, InnerPcs
  <2> QED
    BY <1>1, <1>3, <2>1, <2>2 DEF Inside, Going
<1>5. CASE ~(Precedence(tok) < min)
  <2> DEFINE f == [frame |-> "binary", min |-> min, lhs |-> lhs, op |-> tok]
  <2>1. pc' = "primary" /\ value' = value /\ GetNextToken /\ stack' = Append(below, f)
    BY <1>5 DEF Loop, Pending
  <2>2. Activation(f) /\ f.frame = "binary"
    BY DEF Activation
  <2> HIDE DEF f
  <2>3. /\ Nested(stack') /\ stack'[1] = stack[1]
        /\ Len(stack') \in DOMAIN stack' /\ stack'[Len(stack')] = f
    BY <2>1, <2>2, NestedPush
  <2>4. ~Quiet'
    BY <2>2, <2>3 DEF Quiet
  <2>5. tok \notin {";", "{", "def"}
    <3>1. ASSUME tok \in {";", "{", "def"} PROVE Precedence(tok) = -1
      BY <3>1 DEF Precedence
    <3>2. -1 < min
      OBVIOUS
    <3>3. Precedence(tok) # -1
      BY <1>5, <3>2, Zenon
    <3> QED
      BY <3>1, <3>3, Zenon
  <2>6. Fits' /\ pc' \in InnerPcs
    BY <2>1 DEF Fits, InnerPcs
  <2> QED
    BY <1>1, <1>2, <2>1, <2>3, <2>4, <2>5, <2>6 DEF Inside, Going
<1> QED
  BY <1>4, <1>5

LEMMA PrecedenceIsLevel ==
  ASSUME NEW t
  PROVE  Precedence(t) + 1 \in Nat
<1>1. Precedence(t) \in {20, 40, 50, -1}
  BY DEF Precedence
<1> QED
  BY <1>1

LEMMA LoopSteps ==
  ASSUME ParserInv, FirstOperand \/ Climb \/ Merge
  PROVE  Inside
<1> USE DEF AtOneOf, At
<1>1. status = "parsing" /\ pc \in {"operand", "value"} /\ pc \in InnerPcs /\ value # Null /\ Same
  BY DEF FirstOperand, Climb, Merge, InnerPcs
<1>2. Nested(stack) /\ value.node \in ExprNodes
  BY <1>1, InsideFacts
<1>3. CASE FirstOperand
  <2>1. Loop(0, value) /\ Pending(0, value, stack)
    BY <1>3 DEF FirstOperand
  <2> QED
    BY <1>1, <1>2, <2>1, LoopStep
<1>4. CASE Climb
  <2>1. Loop(InnerMin(Top.op), value) /\ Pending(InnerMin(Top.op), value, stack)
    BY <1>4 DEF Climb
  <2>2. InnerMin(Top.op) \in Nat
    BY PrecedenceIsLevel DEF InnerMin
  <2> QED
    BY <1>1, <1>2, <2>1, <2>2, LoopStep
<1>5. CASE Merge
  <2> DEFINE merged == [node |-> "BinOp", op |-> Top.op, lhs |-> Top.lhs, rhs |-> value]
  <2>1. /\ Top.frame = "binary"
        /\ Loop(Top.min, merged) /\ Pending(Top.min, merged, Front(stack))
    BY <1>5 DEF Merge
  <2>2. merged.node \in ExprNodes
    BY DEF ExprNodes
  <2>3. Top.min \in Nat
    <3>1. Activation(Top)
      BY <1>2, <2>1, NestedFacts DEF Top
    <3> QED
      BY <2>1, <3>1 DEF Activation
  <2>4. Nested(Front(stack)) /\ Front(stack)[1] = stack[1]
    BY <1>2, <2>1, NestedPop DEF Top
  <2> HIDE DEF merged
  <2> QED
    BY <1>1, <2>1, <2>2, <2>3, <2>4, LoopStep
<1> QED
  BY <1>3, <1>4, <1>5
-----------------------------------------------------------------------------
LEMMA NextKeeps ==
  ASSUME ParserInv, [Next]_vars
  PROVE  ParserInv'
<1>1. CASE Prototype
  BY <1>1, PrototypeSteps, OuterKeeps, StopsKeeps
<1>2. CASE Block
  <2>1. Block => \/ OpenBlock \/ Semicolon \/ Return \/ Declaration \/ Separator \/ NoInitialiser \/ BlockError
                 \/ CloseBlock \/ ReturnNothing \/ EndStatement
                 \/ ReturnExpression \/ VariableName \/ ExpressionStatement
                 \/ OpenType \/ Dimension \/ DimensionComma \/ DimensionNoComma \/ CloseType \/ Initialiser
    BY Zenon DEF Block
  <2>2. \/ Outer \/ Stops \/ CloseBlock \/ Completes \/ Enters \/ Inside
    BY <1>2, <2>1, BlockSteps, ReturnNothingStep, EndStatementStep, EnterSteps, TypeSteps, StatementSteps, Zenon
  <2> QED
    BY <2>2, OuterKeeps, StopsKeeps, CloseBlockKeeps, CompletesKeeps, EntersKeeps, InsideKeeps
<1>3. CASE Expression
  <2>1. Expression => \/ NoPrimary \/ ParenError \/ PrintArity \/ CallError \/ LiteralError \/ MixedLiteral
                      \/ Identifier \/ OpenParen \/ OpenLiteral
                      \/ Number \/ VariableReference \/ CloseParen \/ CloseCall
                      \/ OpenCall \/ Arguments \/ NextElement
                      \/ Argument \/ Element
                      \/ CloseLiteral \/ FirstOperand \/ Climb \/ Merge
    BY Zenon DEF Expression
  <2>2. Stops \/ Completes \/ Inside
    BY <1>3, <2>1, ErrorSteps, PushSteps, OperandSteps, TypeSteps, PartSteps, LiteralStep, LoopSteps, Zenon
  <2> QED
    BY <2>2, StopsKeeps, CompletesKeeps, InsideKeeps
<1>4. CASE UNCHANGED vars
  <2>1. /\ Tally' = Tally /\ Followed' = Followed /\ HolesTold' = HolesTold /\ Excused' = Excused
        /\ Holes' = Holes /\ Placed' = Placed
    BY <1>4 DEF vars, Tally, Followed, HolesTold, Excused, Holes, Placed, Prev, tok, Quiet,
                Statements, Bodies
  <2>2. Data' /\ Place'
    BY <1>4, <2>1 DEF vars, ParserInv, Data, Place, Fits, Top
  <2>3. (status = "parsing" => Working)' /\ Outcome'
    BY <1>4, <2>1 DEF vars, ParserInv, Working, Outcome
  <2> QED
    BY <1>4, <2>2, <2>3 DEF vars, ParserInv
<1> QED
  BY <1>1, <1>2, <1>3, <1>4 DEF Next
-----------------------------------------------------------------------------
(* The theorems. *)

\* The invariant holds in every reachable state.
THEOREM ParserInvariant == Spec => []ParserInv
<1>1. Init => ParserInv
  BY InitKeeps
<1>2. ParserInv /\ [Next]_vars => ParserInv'
  BY NextKeeps
<1> QED
  BY <1>1, <1>2, PTL DEF Spec

\* A file that is parsed without a message is in the module whole: every "def"
\* and every statement, at its place (Parser.h:42-60, 351-396).
THEOREM NothingLost == Spec => []NothingIsLost
<1>1. ASSUME ParserInv PROVE TypeOK
  <2>1. /\ script \in Scripts /\ text # <<>> /\ reported \in BOOLEAN
        /\ status \in {"parsing", "module", "nullptr", "aborted"}
    BY <1>1 DEF ParserInv, Data
  <2>2. ToSet(text) \subseteq Stream
    <3>1. text \in Seq(Stream)
      BY <1>1 DEF ParserInv, Data
    <3>2. \A k \in DOMAIN text : text[k] \in Stream
      BY <3>1
    <3> QED
      BY <3>2 DEF ToSet
  <2>3. stack # <<>> => stack[1].frame = "statement" /\ pc \notin {"statement", "separator"}
    BY <1>1, NestedFacts DEF ParserInv, Place, InnerPcs
  <2>4. \A k \in DOMAIN stack : k > 1 => stack[k].frame \in {"call", "paren", "literal", "binary"}
    <3>1. CASE stack = <<>>
      BY <3>1
    <3>2. CASE Nested(stack)
      <4> SUFFICES ASSUME NEW k \in DOMAIN stack, k > 1
                   PROVE  stack[k].frame \in {"call", "paren", "literal", "binary"}
        OBVIOUS
      <4>1. k \in 2..Len(stack)
        BY <3>2, NestedFacts
      <4> QED
        BY <3>2, <4>1 DEF Nested, Activation
    <3> QED
      BY <1>1, <3>1, <3>2 DEF ParserInv, Place
  <2> QED
    BY <2>1, <2>2, <2>3, <2>4 DEF TypeOK
<1>2. ASSUME ParserInv PROVE Outcome /\ (text \in Seq(Stream))
  BY <1>2 DEF ParserInv, Data
<1>3. ParserInv => NothingIsLost
  <2> SUFFICES ASSUME ParserInv PROVE NothingIsLost
    OBVIOUS
  <2>1. DOMAIN text = 1..Len(text)
    BY <1>2
  <2>2. /\ {k \in DOMAIN text : text[k] = "def"} = Defs(text, Len(text))
        /\ {k \in 2..Len(text) : text[k] = ";" /\ text[k - 1] \notin {";", "{"}} = Ends(text, Len(text))
    BY <2>1, Zenon DEF Defs, Ends
  <2> QED
    BY <1>1, <1>2, <2>2, Zenon DEF NothingIsLost, Outcome
<1> QED
  BY <1>3, ParserInvariant, PTL

\* A return or a declaration that lost its expression without a message lost it
\* to a semicolon where an expression had to begin (Parser.h:72, 340-342).
THEOREM HolesAreEmpty == Spec => []SilentHolesAreEmpty
<1>1. ParserInv => SilentHolesAreEmpty
  BY DEF ParserInv, Outcome, Holes, Excused, SilentHolesAreEmpty
<1> QED
  BY <1>1, ParserInvariant, PTL
================================================================================
