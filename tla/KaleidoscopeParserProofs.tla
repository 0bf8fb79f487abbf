----------------------- MODULE KaleidoscopeParserProofs -----------------------
(***************************************************************************)
(* What the parser keeps, for every stream of tokens, of any length.       *)
(***************************************************************************)
EXTENDS KaleidoscopeParser, TLAPS, FiniteSetTheorems, SequenceTheorems

Classes == {"def", "extern"}
PrototypePcs == {"prototype", "operator", "precedence", "open", "names", "arity"}
ExpressionPcs == {"unary", "operand", "value", "identifier", "arguments", "forname", "forassign",
                  "varname", "varinit"}

Signature == [kind : {"function", "unary", "binary"}, op : {""} \cup Ascii, args : Nat,
              precedence : 1..100]
Items == [kind : {"none", "expression"}, from : Nat \ {0}]
           \cup [kind : Classes, from : Nat \ {0}, proto : Signature]

\* A waiting activation: that of a binary operator remembers its level.
FrameOK(f) == /\ "frame" \in DOMAIN f
              /\ f.frame = "binary" => "min" \in DOMAIN f /\ f.min \in Nat
Frames(s) == \E S : s \in Seq(S) /\ \A f \in S : FrameOK(f)

\* The items of a class that have begun before the current token: those that
\* have been accepted, and the one that is being read.
Reading(k) == IF pc \notin {"main", "done"} /\ item.kind = k THEN 1 ELSE 0
Tally == \A k \in Classes : accepted[k] + Reading(k) = Count(text, Len(text) - 1, {k})

ParserInv ==
  /\ script \in Scripts
  /\ text \in Seq(Stream) /\ text # <<>>
  /\ item \in Items
  /\ precedence \in [Ascii -> 0..100]
  /\ accepted \in [{"def", "extern", "expression"} -> Nat]
  /\ reported \in BOOLEAN
  /\ Frames(stack)
  /\ \/ pc \in {"main", "done"} /\ stack = <<>> /\ item.from <= Len(text)
     \/ pc \in PrototypePcs /\ stack = <<>> /\ item.kind \in Classes /\ item.from < Len(text)
     \/ /\ pc \in ExpressionPcs /\ item.kind \in {"def", "expression"}
        /\ item.kind = "def" => RightArity(item.proto)
        /\ item.from <= Len(text) /\ (pc # "unary" => item.from < Len(text))
  /\ pc = "done" => CurTok = "eof"
  /\ ~reported => Tally
-----------------------------------------------------------------------------
(* The stack of activations. *)

LEMMA NoFrames == Frames(<<>>)
<1> DEFINE S == {}
<1>1. <<>> \in Seq(S) /\ \A f \in S : FrameOK(f)
  BY EmptySeq
<1> HIDE DEF S
<1> QED
  BY <1>1 DEF Frames

\* Pushing an activation.
LEMMA FramesPush ==
  ASSUME NEW s, Frames(s), NEW f, FrameOK(f)
  PROVE  Frames(Append(s, f))
<1>1. PICK S : s \in Seq(S) /\ \A g \in S : FrameOK(g)
  BY DEF Frames
<1>2. s \in Seq(S \cup {f})
  BY <1>1, SeqMonotonic
<1>3. Append(s, f) \in Seq(S \cup {f})
  BY <1>2, AppendProperties
<1> QED
  BY <1>1, <1>3 DEF Frames

\* Every activation on the stack is one; the rest of the stack is a stack.
LEMMA FramesTop ==
  ASSUME NEW s, Frames(s), s # <<>>
  PROVE  /\ FrameOK(s[Len(s)])
         /\ Frames(Front(s))
         /\ Len(s) \in DOMAIN s
<1>1. PICK S : s \in Seq(S) /\ \A g \in S : FrameOK(g)
  BY DEF Frames
<1>2. Len(s) \in 1..Len(s) /\ DOMAIN s = 1..Len(s)
  BY <1>1, EmptySeq
<1>3. s[Len(s)] \in S
  BY <1>1, <1>2, ElementOfSeq
<1>4. Front(s) \in Seq(S)
  BY <1>1, <1>2, SubSeqProperties DEF Front
<1> QED
  BY <1>1, <1>2, <1>3, <1>4 DEF Frames

\* An activation ends.
LEMMA FramesPop ==
  ASSUME NEW s, Frames(s)
  PROVE  Frames(Front(s))
<1>1. CASE s # <<>>
  BY <1>1, FramesTop
<1>2. CASE s = <<>>
  <2>1. <<>> \in Seq({}) /\ Len(<<>>) = 0
    BY EmptySeq
  <2>2. SubSeq(<<>>, 1, 0 - 1) = <<>>
    BY <2>1, SubSeqEmpty
  <2>3. Front(s) = <<>>
    BY <1>2, <2>1, <2>2 DEF Front
  <2> QED
    BY <2>3, NoFrames
<1> QED
  BY <1>1, <1>2

\* Changing the names of the activation on top.
LEMMA FramesExcept ==
  ASSUME NEW s, Frames(s), NEW v
  PROVE  Frames([s EXCEPT ![Len(s)].names = v])
<1> DEFINE f == [s[Len(s)] EXCEPT !.names = v]
<1>1. PICK S : s \in Seq(S) /\ \A g \in S : FrameOK(g)
  BY DEF Frames
<1>2. CASE s = <<>>
  <2>1. Len(s) = 0 /\ DOMAIN s = {} /\ s \in Seq(S)
    BY <1>1, <1>2
  <2>2. [s EXCEPT ![Len(s)] = f] \in Seq(S)
    <3> HIDE DEF f
    <3>1. s \in [{} -> S]
      BY <2>1
    <3>2. [s EXCEPT ![Len(s)] = f] = s
      BY <2>1, <3>1
    <3> QED
      BY <2>1, <3>2
  <2> QED
    BY <1>1, <2>2 DEF Frames
<1>3. CASE s # <<>>
  <2>1. FrameOK(s[Len(s)])
    BY <1>3, FramesTop
  <2>2. DOMAIN f = DOMAIN s[Len(s)]
    OBVIOUS
  <2>3. f.frame = s[Len(s)].frame /\ ("min" \in DOMAIN f => f.min = s[Len(s)].min)
    BY <2>1 DEF FrameOK
  <2>4. FrameOK(f)
    BY <2>1, <2>2, <2>3 DEF FrameOK
  <2>5. s \in Seq(S \cup {f}) /\ Len(s) \in 1..Len(s)
    BY <1>1, <1>3, SeqMonotonic, EmptySeq
  <2>6. [s EXCEPT ![Len(s)] = f] \in Seq(S \cup {f})
    <3> HIDE DEF f
    <3> QED
      BY <2>5, ExceptSeq
  <2>7. Frames([s EXCEPT ![Len(s)] = f])
    BY <1>1, <2>4, <2>6 DEF Frames
  <2> QED
    BY <2>7
<1> QED
  BY <1>2, <1>3

-----------------------------------------------------------------------------
(* The stream. *)

\* A longer prefix counts one token more.
LEMMA CountGrows ==
  ASSUME NEW ts, NEW n \in Nat, NEW class
  PROVE  /\ Count(ts, n, class) \in Nat
         /\ Count(ts, n + 1, class) = Count(ts, n, class) + (IF ts[n + 1] \in class THEN 1 ELSE 0)
<1> DEFINE C(m) == {j \in 1..m : ts[j] \in class}
<1>1. IsFiniteSet(C(n))
  <2>1. IsFiniteSet(1..n)
    BY FS_Interval
  <2>2. C(n) \subseteq 1..n
    OBVIOUS
  <2> QED
    BY <2>1, <2>2, FS_Subset
<1>2. C(n + 1) = IF ts[n + 1] \in class THEN C(n) \cup {n + 1} ELSE C(n)
  OBVIOUS
<1>3. n + 1 \notin C(n)
  OBVIOUS
<1>4. Cardinality(C(n) \cup {n + 1}) = Cardinality(C(n)) + 1
  <2> HIDE DEF C
  <2> QED
    BY <1>1, <1>3, FS_AddElement
<1>5. Cardinality(C(n)) \in Nat
  BY <1>1, FS_CardinalityType
<1> HIDE DEF C
<1>6. /\ Count(ts, n, class) = Cardinality(C(n))
      /\ Count(ts, n + 1, class) = Cardinality(C(n + 1))
  BY DEF Count, C
<1> QED
  BY <1>2, <1>4, <1>5, <1>6

\* What is counted depends on the prefix alone.
LEMMA CountPrefix ==
  ASSUME NEW ts, NEW us, NEW n \in Nat, NEW class, \A j \in 1..n : ts[j] = us[j]
  PROVE  Count(ts, n, class) = Count(us, n, class)
<1>1. {j \in 1..n : ts[j] \in class} = {j \in 1..n : us[j] \in class}
  OBVIOUS
<1> QED
  BY <1>1 DEF Count

\* The lexer supplies a token of the stream.
LEMMA SupplyIsToken ==
  ASSUME NEW n \in Nat \ {0}, NEW t \in Supply(n), script \in Scripts
  PROVE  t \in Stream
<1>1. CASE n <= Len(script)
  <2>1. script \in Seq(Stream)
    BY TokenAssumption
  <2>2. n \in 1..Len(script)
    BY <1>1, <2>1
  <2> QED
    BY <1>1, <2>1, <2>2, ElementOfSeq DEF Supply
<1>2. CASE ~(n <= Len(script))
  BY <1>2, TokenAssumption DEF Supply, Stream
<1> QED
  BY <1>1, <1>2

\* Taking a token counts the one that was current.
LEMMA Taken ==
  ASSUME script \in Scripts, text \in Seq(Stream), text # <<>>, GetNextToken
  PROVE  /\ script' \in Scripts
         /\ text' \in Seq(Stream) /\ text' # <<>>
         /\ Len(text) \in Nat \ {0}
         /\ Len(text') = Len(text) + 1
         /\ \A k : Count(text', Len(text') - 1, {k})
                     = Count(text, Len(text) - 1, {k}) + (IF CurTok = k THEN 1 ELSE 0)
         /\ \A k : Count(text, Len(text) - 1, {k}) \in Nat
<1>1. PICK t \in Supply(Len(text) + 1) : text' = Append(text, t)
  BY DEF GetNextToken
<1>2. Len(text) \in Nat \ {0} /\ script' = script
  BY EmptySeq DEF GetNextToken
<1>3. t \in Stream
  BY <1>2, SupplyIsToken
<1>4. /\ text' \in Seq(Stream) /\ text' # <<>> /\ Len(text') = Len(text) + 1
      /\ \A j \in 1..Len(text) : text'[j] = text[j]
  BY <1>1, <1>3, AppendProperties
<1>5. ASSUME NEW k
      PROVE  /\ Count(text', Len(text') - 1, {k})
                  = Count(text, Len(text) - 1, {k}) + (IF CurTok = k THEN 1 ELSE 0)
             /\ Count(text, Len(text) - 1, {k}) \in Nat
  <2> DEFINE n == Len(text) - 1
  <2>1. n \in Nat /\ n + 1 = Len(text) /\ Len(text') - 1 = Len(text)
    BY <1>2, <1>4
  <2>2. Count(text', Len(text), {k}) = Count(text, Len(text), {k})
    BY <1>2, <1>4, CountPrefix
  <2> HIDE DEF n
  <2>3. /\ Count(text, n, {k}) \in Nat
        /\ Count(text, n + 1, {k}) = Count(text, n, {k}) + (IF text[n + 1] \in {k} THEN 1 ELSE 0)
    BY <2>1, CountGrows
  <2>4. text[n + 1] = CurTok /\ n = Len(text) - 1
    BY <2>1 DEF CurTok, n
  <2> QED
    BY <2>1, <2>2, <2>3, <2>4
<1> QED
  BY <1>2, <1>4, <1>5

-----------------------------------------------------------------------------
(* What the steps have in common. *)

\* No name, number or character is a keyword.
LEMMA NoClass ==
  /\ \A t \in Identifiers \cup DOMAIN Numbers \cup Ascii : t \notin Classes
  /\ \A t \in Identifiers \cup DOMAIN Numbers \cup Ascii : t \notin Keywords
BY TokenAssumption DEF Classes, Keywords

\* A step inside an expression: it takes a token that begins no item, or none.
Within == /\ Others
          /\ pc \in ExpressionPcs /\ pc' \in ExpressionPcs /\ Frames(stack')
          /\ \/ GetNextToken /\ CurTok \notin Classes
             \/ pc # "unary" /\ UNCHANGED <<script, text>>

LEMMA WithinKeeps ==
  ASSUME ParserInv, Within
  PROVE  ParserInv'
<1>1. /\ item \in Items /\ item' = item /\ precedence' = precedence
      /\ accepted' = accepted /\ reported' = reported
      /\ script \in Scripts /\ text \in Seq(Stream) /\ text # <<>> /\ item.from \in Nat
  BY DEF ParserInv, Within, Others, Items
<1>2. pc \notin {"main", "done"} /\ pc' \notin {"main", "done"} /\ pc \notin PrototypePcs
  BY DEF Within, ExpressionPcs, PrototypePcs
<1>3. /\ item.kind \in {"def", "expression"}
      /\ item.kind = "def" => RightArity(item.proto)
      /\ item.from <= Len(text) /\ (pc # "unary" => item.from < Len(text))
  BY <1>2 DEF ParserInv
<1>4. /\ script' \in Scripts /\ text' \in Seq(Stream) /\ text' # <<>>
      /\ item.from < Len(text')
  <2>1. CASE GetNextToken
    BY <1>1, <1>3, <2>1, Taken
  <2>2. CASE pc # "unary" /\ UNCHANGED <<script, text>>
    BY <1>1, <1>3, <2>2
  <2> QED
    BY <2>1, <2>2 DEF Within
<1>5. ~reported' => Tally'
  <2> SUFFICES ASSUME ~reported', NEW k \in Classes
               PROVE  accepted'[k] + Reading(k)' = Count(text', Len(text') - 1, {k})
    BY DEF Tally
  <2>1. accepted[k] + Reading(k) = Count(text, Len(text) - 1, {k})
    BY <1>1 DEF ParserInv, Tally
  <2>2. Reading(k)' = Reading(k)
    BY <1>1, <1>2 DEF Reading
  <2>3. Count(text', Len(text') - 1, {k}) = Count(text, Len(text) - 1, {k})
    <3>1. CASE GetNextToken /\ CurTok \notin Classes
      <4>1. CurTok # k
        BY <3>1
      <4>2. Count(text', Len(text') - 1, {k}) = Count(text, Len(text) - 1, {k}) + 0
        BY <1>1, <3>1, <4>1, Taken, Zenon
      <4>3. Count(text, Len(text) - 1, {k}) \in Nat
        BY <1>1, <3>1, Taken, Zenon
      <4> QED
        BY <4>2, <4>3
    <3>2. CASE UNCHANGED <<script, text>>
      BY <3>2
    <3> QED
      BY <3>1, <3>2 DEF Within
  <2> QED
    BY <1>1, <2>1, <2>2, <2>3
<1>6. /\ item'.kind \in {"def", "expression"}
      /\ item'.kind = "def" => RightArity(item'.proto)
      /\ item'.from < Len(text') /\ item'.from <= Len(text')
  BY <1>1, <1>3, <1>4
<1>7. /\ precedence' \in [Ascii -> 0..100]
      /\ accepted' \in [{"def", "extern", "expression"} -> Nat]
      /\ reported' \in BOOLEAN
      /\ Frames(stack')
      /\ pc' \in ExpressionPcs /\ pc' # "done"
  BY <1>1, <1>2 DEF ParserInv, Within
<1> QED
  BY <1>1, <1>3, <1>4, <1>5, <1>6, <1>7 DEF ParserInv

\* An error of the parser.
LEMMA FailKeeps ==
  ASSUME ParserInv, Fail, pc \notin {"main", "done"}
  PROVE  ParserInv'
<1>1. /\ script' \in Scripts /\ text' \in Seq(Stream) /\ text' # <<>>
      /\ Len(text) \in Nat \ {0} /\ Len(text') = Len(text) + 1
  BY Taken DEF ParserInv, Fail
<1>2. /\ item \in Items /\ item' = item /\ precedence' = precedence
      /\ accepted' = accepted /\ reported' = TRUE /\ stack' = <<>> /\ pc' = "main"
      /\ item.from \in Nat
  BY DEF ParserInv, Fail, Abandon, Items
<1>3. item'.from <= Len(text')
  BY <1>1, <1>2 DEF ParserInv
<1>4. Frames(stack')
  BY <1>2, NoFrames
<1> QED
  BY <1>1, <1>2, <1>3, <1>4 DEF ParserInv

\* A step inside a prototype.
WithinPrototype ==
  /\ pc \in PrototypePcs /\ pc' \in PrototypePcs /\ stack' = stack
  /\ item' \in Items /\ item'.kind = item.kind /\ item'.from = item.from
  /\ UNCHANGED <<precedence, accepted, reported>>
  /\ \/ GetNextToken /\ CurTok \notin Classes
     \/ UNCHANGED <<script, text>>

LEMMA WithinPrototypeKeeps ==
  ASSUME ParserInv, WithinPrototype
  PROVE  ParserInv'
<1>1. /\ item \in Items
      /\ script \in Scripts /\ text \in Seq(Stream) /\ text # <<>> /\ item.from \in Nat
  BY DEF ParserInv, Items
<1>2. pc \notin {"main", "done"} /\ pc' \notin {"main", "done"} /\ pc \notin ExpressionPcs
  BY DEF WithinPrototype, ExpressionPcs, PrototypePcs
<1>3. item.kind \in Classes /\ item.from < Len(text) /\ stack = <<>>
  BY <1>2 DEF ParserInv
<1>4. /\ script' \in Scripts /\ text' \in Seq(Stream) /\ text' # <<>>
      /\ item.from < Len(text')
  <2>1. CASE GetNextToken
    BY <1>1, <1>3, <2>1, Taken
  <2>2. CASE UNCHANGED <<script, text>>
    BY <1>1, <1>3, <2>2
  <2> QED
    BY <2>1, <2>2 DEF WithinPrototype
<1>5. ~reported' => Tally'
  <2> SUFFICES ASSUME ~reported', NEW k \in Classes
               PROVE  accepted'[k] + Reading(k)' = Count(text', Len(text') - 1, {k})
    BY DEF Tally
  <2>1. accepted[k] + Reading(k) = Count(text, Len(text) - 1, {k}) /\ accepted' = accepted
    BY DEF ParserInv, Tally, WithinPrototype
  <2>2. Reading(k)' = Reading(k)
    BY <1>2 DEF Reading, WithinPrototype
  <2>3. Count(text', Len(text') - 1, {k}) = Count(text, Len(text) - 1, {k})
    <3>1. CASE GetNextToken /\ CurTok \notin Classes
      <4>1. CurTok # k
        BY <3>1
      <4>2. Count(text', Len(text') - 1, {k}) = Count(text, Len(text) - 1, {k}) + 0
        BY <1>1, <3>1, <4>1, Taken, Zenon
      <4>3. Count(text, Len(text) - 1, {k}) \in Nat
        BY <1>1, <3>1, Taken, Zenon
      <4> QED
        BY <4>2, <4>3
    <3>2. CASE UNCHANGED <<script, text>>
      BY <3>2
    <3> QED
      BY <3>1, <3>2 DEF WithinPrototype
  <2> QED
    BY <2>1, <2>2, <2>3
<1>6. /\ precedence' \in [Ascii -> 0..100]
      /\ accepted' \in [{"def", "extern", "expression"} -> Nat]
      /\ reported' \in BOOLEAN
      /\ stack' = <<>> /\ Frames(stack')
      /\ item' \in Items /\ item'.kind \in Classes /\ item'.from = item.from
      /\ pc' \in PrototypePcs /\ pc' # "done"
  BY <1>2, <1>3, NoFrames DEF ParserInv, WithinPrototype
<1> QED
  BY <1>4, <1>5, <1>6 DEF ParserInv

-----------------------------------------------------------------------------
(* The handlers of the main loop, and the prototypes. *)

LEMMA InitKeeps ==
  ASSUME Init
  PROVE  ParserInv
<1>1. script \in Scripts /\ script \in Seq(Stream) /\ script # <<>>
  BY TokenAssumption DEF Init
<1>2. Head(script) \in Stream
  BY <1>1, HeadTailProperties
<1>3. text = <<Head(script)>> /\ text \in Seq(Stream) /\ text # <<>> /\ Len(text) = 1
  BY <1>2 DEF Init
<1>4. precedence \in [Ascii -> 0..100]
  BY DEF Init, Builtin
<1>5. item = [kind |-> "none", from |-> 1] /\ item \in Items
  BY DEF Init, Items
<1>6. Frames(stack)
  BY NoFrames DEF Init
<1>7. Tally
  <2> SUFFICES ASSUME NEW k \in Classes
               PROVE  accepted[k] + Reading(k) = Count(text, Len(text) - 1, {k})
    BY DEF Tally
  <2>1. {j \in 1..(Len(text) - 1) : text[j] \in {k}} = {}
    BY <1>3
  <2>2. Count(text, Len(text) - 1, {k}) = 0
    BY <2>1, FS_EmptySet DEF Count
  <2>3. Reading(k) = 0 /\ accepted[k] = 0
    BY DEF Init, Reading, Classes
  <2> QED
    BY <2>2, <2>3
<1>8. item.from <= Len(text)
  BY <1>3, <1>5
<1>9. /\ pc = "main" /\ stack = <<>> /\ reported \in BOOLEAN
      /\ accepted \in [{"def", "extern", "expression"} -> Nat]
  BY DEF Init
<1> QED
  BY <1>1, <1>3, <1>4, <1>5, <1>6, <1>7, <1>8, <1>9 DEF ParserInv

\* Outside an item nothing is being read.
LEMMA NotReading ==
  ASSUME pc \in {"main", "done"}
  PROVE  \A k : Reading(k) = 0
BY DEF Reading

LEMMA EndOfFileKeeps ==
  ASSUME ParserInv, EndOfFile
  PROVE  ParserInv'
<1>1. /\ pc = "main" /\ pc' = "done" /\ CurTok = "eof"
      /\ UNCHANGED <<script, text, stack, item, precedence, accepted, reported>>
  BY DEF EndOfFile, Others
<1>2. CurTok' = "eof"
  BY <1>1 DEF CurTok
<1>3. Tally' <=> Tally
  BY <1>1 DEF Tally, Reading
<1>4. stack = <<>> /\ item.from <= Len(text)
  BY <1>1 DEF ParserInv, PrototypePcs, ExpressionPcs
<1> QED
  BY <1>1, <1>2, <1>3, <1>4 DEF ParserInv

LEMMA TopSemicolonKeeps ==
  ASSUME ParserInv, TopSemicolon
  PROVE  ParserInv'
<1>1. /\ pc = "main" /\ pc' = "main" /\ CurTok = ";" /\ GetNextToken
      /\ UNCHANGED <<stack, item, precedence, accepted, reported>>
  BY DEF TopSemicolon, Expect, Goto, Others
<1>2. /\ script' \in Scripts /\ text' \in Seq(Stream) /\ text' # <<>>
      /\ Len(text) \in Nat \ {0} /\ Len(text') = Len(text) + 1
  BY <1>1, Taken DEF ParserInv
<1>3. /\ stack = <<>> /\ item.from <= Len(text) /\ item.from \in Nat
  BY <1>1 DEF ParserInv, PrototypePcs, ExpressionPcs, Items
<1>4. ~reported => Tally'
  <2> SUFFICES ASSUME ~reported, NEW k \in Classes
               PROVE  accepted'[k] + Reading(k)' = Count(text', Len(text') - 1, {k})
    BY DEF Tally
  <2>1. accepted[k] + Reading(k) = Count(text, Len(text) - 1, {k})
    BY DEF ParserInv, Tally
  <2>2. Reading(k)' = Reading(k) /\ CurTok # k
    BY <1>1 DEF Reading, Classes
  <2>3. Count(text', Len(text') - 1, {k}) = Count(text, Len(text) - 1, {k}) + 0
    BY <1>1, <2>2, Taken, Zenon DEF ParserInv
  <2>4. Count(text, Len(text) - 1, {k}) \in Nat
    BY <1>1, Taken, Zenon DEF ParserInv
  <2>5. Count(text', Len(text') - 1, {k}) = Count(text, Len(text) - 1, {k})
    BY <2>3, <2>4
  <2> QED
    BY <1>1, <2>1, <2>2, <2>5
<1>5. item'.from <= Len(text')
  <2>1. item' = item
    BY <1>1
  <2>2. item.from <= Len(text')
    BY <1>2, <1>3
  <2> QED
    BY <2>1, <2>2
<1> QED
  BY <1>1, <1>2, <1>3, <1>4, <1>5 DEF ParserInv

\* An item begins: its keyword is counted, and it is being read.
LEMMA KeywordKeeps ==
  ASSUME ParserInv, Keyword
  PROVE  ParserInv'
<1>1. /\ pc = "main" /\ pc' = "prototype" /\ CurTok \in Classes /\ GetNextToken
      /\ item' = [kind |-> CurTok, from |-> Len(text), proto |-> Prototype]
      /\ UNCHANGED <<stack, precedence, accepted, reported>>
  BY DEF Keyword, Goto, Classes
<1>2. /\ script' \in Scripts /\ text' \in Seq(Stream) /\ text' # <<>>
      /\ Len(text) \in Nat \ {0} /\ Len(text') = Len(text) + 1
  BY <1>1, Taken DEF ParserInv
<1>3. stack = <<>>
  BY <1>1 DEF ParserInv, PrototypePcs, ExpressionPcs
<1>4. item' \in Items /\ item'.kind \in Classes /\ item'.from < Len(text')
  <2>1. Prototype \in Signature
    BY DEF Prototype, Signature
  <2>2. item' \in [kind : Classes, from : Nat \ {0}, proto : Signature]
    BY <1>1, <1>2, <2>1
  <2>3. item'.kind \in Classes /\ item'.from = Len(text)
    BY <1>1
  <2> QED
    BY <1>2, <2>2, <2>3 DEF Items
<1>5. ~reported => Tally'
  <2> SUFFICES ASSUME ~reported, NEW k \in Classes
               PROVE  accepted'[k] + Reading(k)' = Count(text', Len(text') - 1, {k})
    BY DEF Tally
  <2>1. accepted[k] + Reading(k) = Count(text, Len(text) - 1, {k})
    BY DEF ParserInv, Tally
  <2>2. Reading(k) = 0 /\ Reading(k)' = IF CurTok = k THEN 1 ELSE 0
    BY <1>1 DEF Reading
  <2>3. Count(text', Len(text') - 1, {k})
          = Count(text, Len(text) - 1, {k}) + (IF CurTok = k THEN 1 ELSE 0)
    BY <1>1, Taken, Zenon DEF ParserInv
  <2>4. Count(text, Len(text) - 1, {k}) \in Nat /\ accepted[k] \in Nat
    <3>1. Count(text, Len(text) - 1, {k}) \in Nat
      BY <1>1, Taken, Zenon DEF ParserInv
    <3>2. accepted[k] \in Nat
      BY DEF ParserInv, Classes
    <3> QED
      BY <3>1, <3>2
  <2> QED
    BY <1>1, <2>1, <2>2, <2>3, <2>4
<1>6. pc' \in PrototypePcs /\ pc' # "done"
  BY <1>1 DEF PrototypePcs
<1> QED
  BY <1>1, <1>2, <1>3, <1>4, <1>5, <1>6 DEF ParserInv

LEMMA TopLevelExpressionKeeps ==
  ASSUME ParserInv, TopLevelExpression
  PROVE  ParserInv'
<1>1. /\ pc = "main" /\ pc' = "unary"
      /\ item' = [kind |-> "expression", from |-> Len(text)]
      /\ UNCHANGED <<script, text, stack, precedence, accepted, reported>>
  BY DEF TopLevelExpression
<1>2. Len(text) \in Nat \ {0}
  BY EmptySeq DEF ParserInv
<1>3. item' \in Items /\ item'.kind = "expression" /\ item'.from = Len(text)
  BY <1>1, <1>2 DEF Items
<1>4. Tally => Tally'
  <2> SUFFICES ASSUME Tally, NEW k \in Classes
               PROVE  accepted'[k] + Reading(k)' = Count(text', Len(text') - 1, {k})
    BY DEF Tally
  <2>1. Reading(k)' = Reading(k)
    BY <1>1, <1>3 DEF Reading, Classes
  <2> QED
    BY <1>1, <2>1 DEF Tally
<1>5. pc' \in ExpressionPcs
  BY <1>1 DEF ExpressionPcs
<1> QED
  BY <1>1, <1>2, <1>3, <1>4, <1>5 DEF ParserInv

\* An item is accepted: it is no longer being read.
LEMMA AcceptKeeps ==
  ASSUME ParserInv, NEW table \in [Ascii -> 0..100], Accept(table), stack = <<>>,
         pc \notin {"main", "done"}, item.kind # "none"
  PROVE  ParserInv'
<1>1. /\ pc' = "main" /\ accepted' = [accepted EXCEPT ![item.kind] = @ + 1] /\ precedence' = table
      /\ UNCHANGED <<script, text, stack, item, reported>>
  BY DEF Accept
<1>2. /\ item.kind \in {"def", "extern", "expression"} /\ item.from <= Len(text)
      /\ accepted \in [{"def", "extern", "expression"} -> Nat]
  BY DEF ParserInv, Items, Classes
<1>3. accepted' \in [{"def", "extern", "expression"} -> Nat]
  BY <1>1, <1>2
<1>4. Tally => Tally'
  <2> SUFFICES ASSUME Tally, NEW k \in Classes
               PROVE  accepted'[k] + Reading(k)' = Count(text', Len(text') - 1, {k})
    BY DEF Tally
  <2>1. accepted[k] + Reading(k) = Count(text', Len(text') - 1, {k})
    BY <1>1 DEF Tally
  <2>2. Reading(k)' = 0 /\ Reading(k) = IF item.kind = k THEN 1 ELSE 0
    BY <1>1 DEF Reading
  <2>3. accepted'[k] = IF item.kind = k THEN accepted[k] + 1 ELSE accepted[k]
    BY <1>1, <1>2 DEF Classes
  <2>4. accepted[k] \in Nat
    BY <1>2 DEF Classes
  <2> QED
    BY <2>1, <2>2, <2>3, <2>4
<1> QED
  BY <1>1, <1>2, <1>3, <1>4 DEF ParserInv

\* A field of the prototype that is being read.
LEMMA SetField ==
  ASSUME ParserInv, item.kind \in Classes, NEW field \in {"kind", "op", "args", "precedence"}, NEW v,
         \/ field = "kind" /\ v \in {"unary", "binary"}
         \/ field = "op" /\ v \in Ascii
         \/ field = "args" /\ v \in Nat
         \/ field = "precedence" /\ v \in 1..100,
         Set(field, v)
  PROVE  /\ item' \in Items /\ item'.kind = item.kind /\ item'.from = item.from
         /\ UNCHANGED <<precedence, accepted, reported>>
<1>1. item \in [kind : Classes, from : Nat \ {0}, proto : Signature]
  BY DEF ParserInv, Items, Classes
<1>2. item.proto \in Signature
  BY <1>1
<1>3. [item.proto EXCEPT ![field] = v] \in Signature
  BY <1>2 DEF Signature
<1>4. /\ item' = [item EXCEPT !.proto = [item.proto EXCEPT ![field] = v]]
      /\ UNCHANGED <<precedence, accepted, reported>>
  BY <1>1 DEF Set
<1>5. item' \in [kind : Classes, from : Nat \ {0}, proto : Signature]
  BY <1>1, <1>3, <1>4
<1>6. item'.kind = item.kind /\ item'.from = item.from
  BY <1>1, <1>4
<1> QED
  BY <1>4, <1>5, <1>6 DEF Items

\* The steps that read a prototype, but for its errors and its end.
LEMMA PrototypeSteps ==
  ASSUME ParserInv,
         \/ FunctionName \/ OperatorKind \/ OperatorName \/ ReadPrecedence \/ DefaultPrecedence
         \/ OpenNames \/ ArgumentName \/ CloseNames
  PROVE  WithinPrototype
<1>1. \A t \in Identifiers \cup DOMAIN Numbers \cup Ascii : t \notin Classes
  BY NoClass
<1>2. pc \in PrototypePcs => item.kind \in Classes /\ item \in Items
  BY DEF ParserInv, PrototypePcs, ExpressionPcs
<1>3. pc \in PrototypePcs => item.proto \in Signature
  BY <1>2 DEF Items, Classes
<1>4. Others => item' = item /\ UNCHANGED <<precedence, accepted, reported>>
  BY DEF Others
<1>5. ASSUME FunctionName PROVE WithinPrototype
  <2>1. /\ pc = "prototype" /\ pc' = "open" /\ stack' = stack /\ GetNextToken /\ Others
        /\ CurTok \in Identifiers
    BY <1>5 DEF FunctionName, Expect, Goto
  <2>2. pc \in PrototypePcs /\ pc' \in PrototypePcs
    BY <2>1 DEF PrototypePcs
  <2> QED
    BY <1>1, <1>2, <1>4, <2>1, <2>2 DEF WithinPrototype
<1>6. ASSUME OperatorKind PROVE WithinPrototype
  <2>1. /\ pc = "prototype" /\ pc' = "operator" /\ stack' = stack /\ GetNextToken
        /\ CurTok \in {"unary", "binary"} /\ Set("kind", CurTok)
    BY <1>6 DEF OperatorKind, Expect, Goto
  <2>2. pc \in PrototypePcs /\ pc' \in PrototypePcs
    BY <2>1 DEF PrototypePcs
  <2>3. CurTok \notin Classes
    BY <2>1 DEF Classes
  <2>4. /\ item' \in Items /\ item'.kind = item.kind /\ item'.from = item.from
        /\ UNCHANGED <<precedence, accepted, reported>>
    BY <1>2, <2>1, <2>2, SetField
  <2> QED
    BY <2>1, <2>2, <2>3, <2>4 DEF WithinPrototype
<1>7. ASSUME OperatorName PROVE WithinPrototype
  <2>1. /\ pc = "operator" /\ pc' \in {"precedence", "open"} /\ stack' = stack /\ GetNextToken
        /\ CurTok \in Ascii /\ Set("op", CurTok)
    BY <1>7 DEF OperatorName, Goto
  <2>2. pc \in PrototypePcs /\ pc' \in PrototypePcs
    BY <2>1 DEF PrototypePcs
  <2>4. /\ item' \in Items /\ item'.kind = item.kind /\ item'.from = item.from
        /\ UNCHANGED <<precedence, accepted, reported>>
    BY <1>2, <2>1, <2>2, SetField
  <2> QED
    BY <1>1, <2>1, <2>2, <2>4 DEF WithinPrototype
<1>8. ASSUME ReadPrecedence PROVE WithinPrototype
  <2>1. /\ pc = "precedence" /\ pc' = "open" /\ stack' = stack /\ GetNextToken
        /\ CurTok \in DOMAIN Numbers /\ ValidPrecedence(CurTok)
        /\ Set("precedence", Numbers[CurTok] \div 10)
    BY <1>8 DEF ReadPrecedence, Goto
  <2>2. pc \in PrototypePcs /\ pc' \in PrototypePcs
    BY <2>1 DEF PrototypePcs
  <2>3. Numbers[CurTok] \div 10 \in 1..100
    <3>1. Numbers[CurTok] \in Nat /\ Numbers[CurTok] >= 10 /\ Numbers[CurTok] <= 1000
      BY <2>1, TokenAssumption DEF ValidPrecedence
    <3>2. \A n \in Nat : (n >= 10 /\ n <= 1000) => n \div 10 \in 1..100
      OBVIOUS
    <3> QED
      BY <3>1, <3>2
  <2>4. /\ item' \in Items /\ item'.kind = item.kind /\ item'.from = item.from
        /\ UNCHANGED <<precedence, accepted, reported>>
    BY <1>2, <2>1, <2>2, <2>3, SetField
  <2> QED
    BY <1>1, <2>1, <2>2, <2>4 DEF WithinPrototype
<1>9. ASSUME DefaultPrecedence PROVE WithinPrototype
  <2>1. /\ pc = "precedence" /\ pc' = "open" /\ stack' = stack /\ UNCHANGED <<script, text>> /\ Others
    BY <1>9 DEF DefaultPrecedence
  <2>2. pc \in PrototypePcs /\ pc' \in PrototypePcs
    BY <2>1 DEF PrototypePcs
  <2> QED
    BY <1>2, <1>4, <2>1, <2>2 DEF WithinPrototype
<1>10. ASSUME OpenNames PROVE WithinPrototype
  <2>1. /\ pc = "open" /\ pc' = "names" /\ stack' = stack /\ GetNextToken /\ Others /\ CurTok = "("
    BY <1>10 DEF OpenNames, Expect, Goto
  <2>2. pc \in PrototypePcs /\ pc' \in PrototypePcs /\ CurTok \notin Classes
    BY <2>1 DEF PrototypePcs, Classes
  <2> QED
    BY <1>2, <1>4, <2>1, <2>2 DEF WithinPrototype
<1>11. ASSUME ArgumentName PROVE WithinPrototype
  <2>1. /\ pc = "names" /\ pc' = "names" /\ stack' = stack /\ GetNextToken
        /\ CurTok \in Identifiers /\ Set("args", item.proto.args + 1)
    BY <1>11 DEF ArgumentName, Expect, Goto
  <2>2. pc \in PrototypePcs /\ pc' \in PrototypePcs
    BY <2>1 DEF PrototypePcs
  <2>3. item.proto.args + 1 \in Nat
    <3>1. item.proto.args \in Nat
      BY <1>3, <2>2 DEF Signature
    <3> QED
      BY <3>1
  <2>4. /\ item' \in Items /\ item'.kind = item.kind /\ item'.from = item.from
        /\ UNCHANGED <<precedence, accepted, reported>>
    BY <1>2, <2>1, <2>2, <2>3, SetField
  <2> QED
    BY <1>1, <2>1, <2>2, <2>4 DEF WithinPrototype
<1>12. ASSUME CloseNames PROVE WithinPrototype
  <2>1. /\ pc = "names" /\ pc' = "arity" /\ stack' = stack /\ GetNextToken /\ Others /\ CurTok = ")"
    BY <1>12 DEF CloseNames, Expect, Goto
  <2>2. pc \in PrototypePcs /\ pc' \in PrototypePcs /\ CurTok \notin Classes
    BY <2>1 DEF PrototypePcs, Classes
  <2> QED
    BY <1>2, <1>4, <2>1, <2>2 DEF WithinPrototype
<1> QED
  BY <1>5, <1>6, <1>7, <1>8, <1>9, <1>10, <1>11, <1>12

\* The prototype of a definition is complete.
LEMMA ParseBodyKeeps ==
  ASSUME ParserInv, ParseBody
  PROVE  ParserInv'
<1>1. /\ pc = "arity" /\ pc' = "unary" /\ RightArity(item.proto) /\ item.kind = "def"
      /\ UNCHANGED <<script, text, stack, item, precedence, accepted, reported>>
  BY DEF ParseBody, Others
<1>2. Tally => Tally'
  BY <1>1 DEF Tally, Reading
<1>3. item.from < Len(text) /\ stack = <<>> /\ item.from \in Nat /\ Len(text) \in Nat
  BY <1>1 DEF ParserInv, ExpressionPcs, Items
<1>4. pc' \in ExpressionPcs /\ pc' # "done"
  BY <1>1 DEF ExpressionPcs
<1>5. item.from <= Len(text)
  BY <1>3
<1> QED
  BY <1>1, <1>2, <1>3, <1>4, <1>5 DEF ParserInv

\* A prototype, or a whole definition or expression, is accepted.
LEMMA AcceptSteps ==
  ASSUME ParserInv, AcceptExtern \/ AcceptDefinition \/ AcceptExpression
  PROVE  ParserInv'
<1>1. precedence \in [Ascii -> 0..100] /\ item \in Items
  BY DEF ParserInv
<1>2. ASSUME AcceptExtern PROVE ParserInv'
  <2>1. pc = "arity" /\ item.kind = "extern" /\ Accept(precedence)
    BY <1>2 DEF AcceptExtern
  <2>2. stack = <<>>
    BY <2>1 DEF ParserInv, ExpressionPcs
  <2> QED
    BY <1>1, <2>1, <2>2, AcceptKeeps
<1>3. ASSUME AcceptDefinition PROVE ParserInv'
  <2>1. /\ pc = "value" /\ stack = <<>> /\ item.kind = "def"
        /\ \/ Accept(precedence)
           \/ \E generated \in BOOLEAN :
                Accept([precedence EXCEPT ![item.proto.op] =
                          IF generated THEN item.proto.precedence ELSE 0])
    BY <1>3 DEF AcceptDefinition
  <2>2. item.proto \in Signature
    BY <1>1, <2>1 DEF Items
  <2>3. CASE Accept(precedence)
    BY <1>1, <2>1, <2>3, AcceptKeeps
  <2>4. ASSUME NEW generated \in BOOLEAN,
               Accept([precedence EXCEPT ![item.proto.op] =
                         IF generated THEN item.proto.precedence ELSE 0])
        PROVE  ParserInv'
    <3> DEFINE table == [precedence EXCEPT ![item.proto.op] =
                           IF generated THEN item.proto.precedence ELSE 0]
    <3>1. table \in [Ascii -> 0..100]
      <4> DEFINE new == IF generated THEN item.proto.precedence ELSE 0
      <4>1. item.proto.precedence \in 1..100
        BY <2>2 DEF Signature
      <4>2. new \in 0..100
        BY <4>1
      <4> HIDE DEF new
      <4>3. [precedence EXCEPT ![item.proto.op] = new] \in [Ascii -> 0..100]
        BY <1>1, <4>2
      <4> QED
        BY <4>3 DEF new
    <3>2. Accept(table)
      BY <2>4
    <3> HIDE DEF table
    <3> QED
      BY <2>1, <3>1, <3>2, AcceptKeeps
  <2> QED
    BY <2>1, <2>3, <2>4
<1>4. ASSUME AcceptExpression PROVE ParserInv'
  BY <1>1, <1>4, AcceptKeeps DEF AcceptExpression
<1> QED
  BY <1>2, <1>3, <1>4

-----------------------------------------------------------------------------
(* The expressions. *)

\* Collecting a part of a construct keeps its activation one.
LEMMA WithIsFrame ==
  ASSUME Frames(stack), stack # <<>>, NEW v, Top.frame # "binary"
  PROVE  FrameOK([Top EXCEPT !.parts = v])
<1> DEFINE f == Top
           g == [f EXCEPT !.parts = v]
<1>1. "frame" \in DOMAIN f /\ f.frame # "binary"
  BY FramesTop DEF Top, FrameOK
<1> HIDE DEF f
<1>2. "frame" \in DOMAIN g /\ g.frame = f.frame
  BY <1>1
<1>3. FrameOK(g)
  <2> HIDE DEF g
  <2> QED
    BY <1>1, <1>2 DEF FrameOK
<1> QED
  BY <1>3 DEF f

\* The next part of a construct.
LEMMA NextPartWithin ==
  ASSUME Frames(stack), pc = "value", CurTok \notin Classes, NEW f, FrameOK(f), NextPart(f), Others
  PROVE  Within
<1>1. Frames(Append(Front(stack), f))
  BY FramesPop, FramesPush
<1>2. /\ GetNextToken /\ stack' = Append(Front(stack), f) /\ pc' = "unary"
  BY DEF NextPart
<1> QED
  BY <1>1, <1>2 DEF Within, ExpressionPcs

\* A round of ParseBinOpRHS() goes on only over a character.
LEMMA LoopWithin ==
  ASSUME ParserInv, pc \in {"value", "operand"}, NEW min \in Nat, NEW lhs, NEW below, Frames(below),
         Loop(min, lhs, below), Others
  PROVE  Within
<1>1. CASE TokPrecedence(CurTok) < min
  <2>1. pc' = "value" /\ stack' = below /\ UNCHANGED <<script, text>>
    BY <1>1 DEF Loop
  <2> QED
    BY <2>1 DEF Within, ExpressionPcs
<1>2. CASE ~(TokPrecedence(CurTok) < min)
  <2> DEFINE f == [frame |-> "binary", min |-> min, lhs |-> lhs, op |-> CurTok]
  <2>1. GetNextToken /\ pc' = "unary" /\ stack' = Append(below, f)
    BY <1>2 DEF Loop
  <2>2. FrameOK(f)
    BY DEF FrameOK
  <2>3. CurTok \in Ascii
    BY <1>2 DEF TokPrecedence
  <2>4. CurTok \notin Classes
    BY <2>3, NoClass
  <2> HIDE DEF f
  <2>5. Frames(stack')
    BY <2>1, <2>2, FramesPush
  <2> QED
    BY <2>1, <2>4, <2>5 DEF Within, ExpressionPcs
<1> QED
  BY <1>1, <1>2

\* The precedence of a token is -1 or positive.
LEMMA InnerMinIsNat ==
  ASSUME ParserInv, NEW t
  PROVE  InnerMin(t) \in Nat
<1>1. precedence \in [Ascii -> 0..100]
  BY DEF ParserInv
<1>2. TokPrecedence(t) \in -1..100
  <2>1. CASE t \in Ascii
    <3>1. precedence[t] \in 0..100
      BY <1>1, <2>1
    <3> QED
      BY <3>1 DEF TokPrecedence
  <2>2. CASE t \notin Ascii
    BY <2>2 DEF TokPrecedence
  <2> QED
    BY <2>1, <2>2
<1> QED
  BY <1>2 DEF InnerMin

\* The steps that push an activation take a token that begins no item.
LEMMA PushSteps ==
  ASSUME ParserInv, UnaryOperator \/ OpenParen \/ Identifier \/ If \/ ForName \/ Var
  PROVE  Within
<1>1. \A t \in Identifiers \cup DOMAIN Numbers \cup Ascii : t \notin Classes
  BY NoClass
<1>2. Frames(stack)
  BY DEF ParserInv
<1>3. ASSUME UnaryOperator PROVE Within
  <2> DEFINE f == [frame |-> "unary", op |-> CurTok]
  <2>1. /\ pc = "unary" /\ pc' = "unary" /\ GetNextToken /\ Others /\ CurTok \in Ascii
        /\ stack' = Append(stack, f)
    BY <1>3 DEF UnaryOperator, Push
  <2>2. FrameOK(f)
    BY DEF FrameOK
  <2> HIDE DEF f
  <2>3. Frames(stack') /\ CurTok \notin Classes
    BY <1>1, <1>2, <2>1, <2>2, FramesPush DEF Classes
  <2> QED
    BY <2>1, <2>3 DEF Within, ExpressionPcs
<1>4. ASSUME OpenParen PROVE Within
  <2> DEFINE f == [frame |-> "paren"]
  <2>1. /\ pc = "unary" /\ pc' = "unary" /\ GetNextToken /\ Others /\ CurTok = "("
        /\ stack' = Append(stack, f)
    BY <1>4 DEF OpenParen, Push
  <2>2. FrameOK(f)
    BY DEF FrameOK
  <2> HIDE DEF f
  <2>3. Frames(stack') /\ CurTok \notin Classes
    BY <1>1, <1>2, <2>1, <2>2, FramesPush DEF Classes
  <2> QED
    BY <2>1, <2>3 DEF Within, ExpressionPcs
<1>5. ASSUME Identifier PROVE Within
  <2> DEFINE f == [frame |-> "call", name |-> CurTok, parts |-> <<>>]
  <2>1. /\ pc = "unary" /\ pc' = "identifier" /\ GetNextToken /\ Others /\ CurTok \in Identifiers
        /\ stack' = Append(stack, f)
    BY <1>5 DEF Identifier, Push
  <2>2. FrameOK(f)
    BY DEF FrameOK
  <2> HIDE DEF f
  <2>3. Frames(stack') /\ CurTok \notin Classes
    BY <1>1, <1>2, <2>1, <2>2, FramesPush DEF Classes
  <2> QED
    BY <2>1, <2>3 DEF Within, ExpressionPcs
<1>6. ASSUME If PROVE Within
  <2> DEFINE f == [frame |-> "if", parts |-> <<>>]
  <2>1. /\ pc = "unary" /\ pc' = "unary" /\ GetNextToken /\ Others /\ CurTok = "if"
        /\ stack' = Append(stack, f)
    BY <1>6 DEF If, Push
  <2>2. FrameOK(f)
    BY DEF FrameOK
  <2> HIDE DEF f
  <2>3. Frames(stack') /\ CurTok \notin Classes
    BY <1>1, <1>2, <2>1, <2>2, FramesPush DEF Classes
  <2> QED
    BY <2>1, <2>3 DEF Within, ExpressionPcs
<1>7. ASSUME ForName PROVE Within
  <2> DEFINE f == [frame |-> "for", name |-> CurTok, parts |-> <<>>]
  <2>1. /\ pc = "forname" /\ pc' = "forassign" /\ GetNextToken /\ Others /\ CurTok \in Identifiers
        /\ stack' = Append(stack, f)
    BY <1>7 DEF ForName, Push
  <2>2. FrameOK(f)
    BY DEF FrameOK
  <2> HIDE DEF f
  <2>3. Frames(stack') /\ CurTok \notin Classes
    BY <1>1, <1>2, <2>1, <2>2, FramesPush DEF Classes
  <2> QED
    BY <2>1, <2>3 DEF Within, ExpressionPcs
<1>8. ASSUME Var PROVE Within
  <2> DEFINE f == [frame |-> "var", names |-> <<>>, parts |-> <<>>]
  <2>1. /\ pc = "unary" /\ pc' = "varname" /\ GetNextToken /\ Others /\ CurTok = "var"
        /\ stack' = Append(stack, f)
    BY <1>8 DEF Var, Push
  <2>2. FrameOK(f)
    BY DEF FrameOK
  <2> HIDE DEF f
  <2>3. Frames(stack') /\ CurTok \notin Classes
    BY <1>1, <1>2, <2>1, <2>2, FramesPush DEF Classes
  <2> QED
    BY <2>1, <2>3 DEF Within, ExpressionPcs
<1> QED
  BY <1>3, <1>4, <1>5, <1>6, <1>7, <1>8

\* The steps that leave an activation.
LEMMA PopSteps ==
  ASSUME ParserInv,
         \/ UnaryDone \/ CloseParen \/ VariableReference \/ CloseCall \/ IfDone \/ ForDone \/ VarDone
  PROVE  Within
<1>1. Frames(Front(stack))
  BY FramesPop DEF ParserInv
<1>2. ASSUME UnaryDone PROVE Within
  <2>1. /\ pc = "operand" /\ pc' = "operand" /\ Others /\ UNCHANGED <<script, text>>
        /\ stack' = Front(stack)
    BY <1>2 DEF UnaryDone, Operand, Pop
  <2>2. pc \in ExpressionPcs /\ pc' \in ExpressionPcs /\ pc # "unary"
    BY <2>1 DEF ExpressionPcs
  <2> QED
    BY <1>1, <2>1, <2>2 DEF Within, Classes
<1>3. ASSUME CloseParen PROVE Within
  <2>1. /\ pc = "value" /\ pc' = "operand" /\ Others /\ GetNextToken /\ CurTok = ")"
        /\ stack' = Front(stack)
    BY <1>3 DEF CloseParen, Operand, Pop
  <2>2. pc \in ExpressionPcs /\ pc' \in ExpressionPcs /\ pc # "unary"
    BY <2>1 DEF ExpressionPcs
  <2> QED
    BY <1>1, <2>1, <2>2 DEF Within, Classes
<1>4. ASSUME VariableReference PROVE Within
  <2>1. /\ pc = "identifier" /\ pc' = "operand" /\ Others /\ UNCHANGED <<script, text>>
        /\ stack' = Front(stack)
    BY <1>4 DEF VariableReference, Operand, Pop
  <2>2. pc \in ExpressionPcs /\ pc' \in ExpressionPcs /\ pc # "unary"
    BY <2>1 DEF ExpressionPcs
  <2> QED
    BY <1>1, <2>1, <2>2 DEF Within, Classes
<1>5. ASSUME CloseCall PROVE Within
  <2>1. /\ pc \in {"arguments", "value"} /\ pc' = "operand" /\ Others /\ GetNextToken /\ CurTok = ")"
        /\ stack' = Front(stack)
    BY <1>5 DEF CloseCall, Operand, Pop
  <2>2. pc \in ExpressionPcs /\ pc' \in ExpressionPcs /\ pc # "unary"
    BY <2>1 DEF ExpressionPcs
  <2> QED
    BY <1>1, <2>1, <2>2 DEF Within, Classes
<1>6. ASSUME IfDone PROVE Within
  <2>1. /\ pc = "value" /\ pc' = "operand" /\ Others /\ UNCHANGED <<script, text>>
        /\ stack' = Front(stack)
    BY <1>6 DEF IfDone, Operand, Pop
  <2>2. pc \in ExpressionPcs /\ pc' \in ExpressionPcs /\ pc # "unary"
    BY <2>1 DEF ExpressionPcs
  <2> QED
    BY <1>1, <2>1, <2>2 DEF Within, Classes
<1>7. ASSUME ForDone PROVE Within
  <2>1. /\ pc = "value" /\ pc' = "operand" /\ Others /\ UNCHANGED <<script, text>>
        /\ stack' = Front(stack)
    BY <1>7 DEF ForDone, Operand, Pop
  <2>2. pc \in ExpressionPcs /\ pc' \in ExpressionPcs /\ pc # "unary"
    BY <2>1 DEF ExpressionPcs
  <2> QED
    BY <1>1, <2>1, <2>2 DEF Within, Classes
<1>8. ASSUME VarDone PROVE Within
  <2>1. /\ pc = "value" /\ pc' = "operand" /\ Others /\ UNCHANGED <<script, text>>
        /\ stack' = Front(stack)
    BY <1>8 DEF VarDone, Operand, Pop
  <2>2. pc \in ExpressionPcs /\ pc' \in ExpressionPcs /\ pc # "unary"
    BY <2>1 DEF ExpressionPcs
  <2> QED
    BY <1>1, <2>1, <2>2 DEF Within, Classes
<1> QED
  BY <1>2, <1>3, <1>4, <1>5, <1>6, <1>7, <1>8

\* The steps that leave the activations as they are.
LEMMA FlatSteps ==
  ASSUME ParserInv,
         \/ Number \/ OpenCall \/ FirstArgument \/ For \/ ForAssign \/ VarInit \/ NoInit
  PROVE  Within
<1>1. \A t \in Identifiers \cup DOMAIN Numbers \cup Ascii : t \notin Classes
  BY NoClass
<1>2. Frames(stack)
  BY DEF ParserInv
<1>3. ASSUME Number PROVE Within
  <2>1. /\ pc = "unary" /\ pc' = "operand" /\ Others /\ GetNextToken /\ CurTok \in DOMAIN Numbers
        /\ stack' = stack
    BY <1>3 DEF Number, Operand
  <2>2. pc \in ExpressionPcs /\ pc' \in ExpressionPcs
    BY <2>1 DEF ExpressionPcs
  <2>3. \/ GetNextToken /\ CurTok \notin Classes
        \/ pc # "unary" /\ UNCHANGED <<script, text>>
    BY <1>1, <2>1 DEF Classes
  <2> QED
    BY <1>2, <2>1, <2>2, <2>3 DEF Within
<1>4. ASSUME OpenCall PROVE Within
  <2>1. /\ pc = "identifier" /\ pc' = "arguments" /\ Others /\ GetNextToken /\ CurTok = "("
        /\ stack' = stack
    BY <1>4 DEF OpenCall, Expect, Goto
  <2>2. pc \in ExpressionPcs /\ pc' \in ExpressionPcs
    BY <2>1 DEF ExpressionPcs
  <2>3. \/ GetNextToken /\ CurTok \notin Classes
        \/ pc # "unary" /\ UNCHANGED <<script, text>>
    BY <1>1, <2>1 DEF Classes
  <2> QED
    BY <1>2, <2>1, <2>2, <2>3 DEF Within
<1>5. ASSUME FirstArgument PROVE Within
  <2>1. /\ pc = "arguments" /\ pc' = "unary" /\ Others /\ UNCHANGED <<script, text>>
        /\ stack' = stack
    BY <1>5 DEF FirstArgument
  <2>2. pc \in ExpressionPcs /\ pc' \in ExpressionPcs
    BY <2>1 DEF ExpressionPcs
  <2>3. \/ GetNextToken /\ CurTok \notin Classes
        \/ pc # "unary" /\ UNCHANGED <<script, text>>
    BY <1>1, <2>1 DEF Classes
  <2> QED
    BY <1>2, <2>1, <2>2, <2>3 DEF Within
<1>6. ASSUME For PROVE Within
  <2>1. /\ pc = "unary" /\ pc' = "forname" /\ Others /\ GetNextToken /\ CurTok = "for"
        /\ stack' = stack
    BY <1>6 DEF For, Expect, Goto
  <2>2. pc \in ExpressionPcs /\ pc' \in ExpressionPcs
    BY <2>1 DEF ExpressionPcs
  <2>3. \/ GetNextToken /\ CurTok \notin Classes
        \/ pc # "unary" /\ UNCHANGED <<script, text>>
    BY <1>1, <2>1 DEF Classes
  <2> QED
    BY <1>2, <2>1, <2>2, <2>3 DEF Within
<1>7. ASSUME ForAssign PROVE Within
  <2>1. /\ pc = "forassign" /\ pc' = "unary" /\ Others /\ GetNextToken /\ CurTok = "="
        /\ stack' = stack
    BY <1>7 DEF ForAssign, Expect, Goto
  <2>2. pc \in ExpressionPcs /\ pc' \in ExpressionPcs
    BY <2>1 DEF ExpressionPcs
  <2>3. \/ GetNextToken /\ CurTok \notin Classes
        \/ pc # "unary" /\ UNCHANGED <<script, text>>
    BY <1>1, <2>1 DEF Classes
  <2> QED
    BY <1>2, <2>1, <2>2, <2>3 DEF Within
<1>8. ASSUME VarInit PROVE Within
  <2>1. /\ pc = "varinit" /\ pc' = "unary" /\ Others /\ GetNextToken /\ CurTok = "="
        /\ stack' = stack
    BY <1>8 DEF VarInit, Expect, Goto
  <2>2. pc \in ExpressionPcs /\ pc' \in ExpressionPcs
    BY <2>1 DEF ExpressionPcs
  <2>3. \/ GetNextToken /\ CurTok \notin Classes
        \/ pc # "unary" /\ UNCHANGED <<script, text>>
    BY <1>1, <2>1 DEF Classes
  <2> QED
    BY <1>2, <2>1, <2>2, <2>3 DEF Within
<1>9. ASSUME NoInit PROVE Within
  <2>1. /\ pc = "varinit" /\ pc' = "value" /\ Others /\ UNCHANGED <<script, text>>
        /\ stack' = stack
    BY <1>9 DEF NoInit
  <2>2. pc \in ExpressionPcs /\ pc' \in ExpressionPcs
    BY <2>1 DEF ExpressionPcs
  <2>3. \/ GetNextToken /\ CurTok \notin Classes
        \/ pc # "unary" /\ UNCHANGED <<script, text>>
    BY <1>1, <2>1 DEF Classes
  <2> QED
    BY <1>2, <2>1, <2>2, <2>3 DEF Within
<1> QED
  BY <1>3, <1>4, <1>5, <1>6, <1>7, <1>8, <1>9

\* The steps from one part of a construct to the next.
LEMMA PartSteps ==
  ASSUME ParserInv, NextArgument \/ IfPart \/ ForPart \/ VarNext \/ VarIn \/ VarName
  PROVE  Within
<1>1. Frames(stack)
  BY DEF ParserInv
<1>2. ASSUME stack # <<>>, Top.frame # "binary", NEW v
      PROVE  FrameOK([Top EXCEPT !.parts = v])
  BY <1>1, <1>2, WithIsFrame
<1>3. ASSUME NextArgument PROVE Within
  <2>1. pc = "value" /\ TopIs("call") /\ CurTok = "," /\ NextPart(With(value)) /\ Others
    BY <1>3 DEF NextArgument
  <2>2. FrameOK(With(value))
    BY <1>2, <2>1 DEF With, TopIs
  <2> QED
    BY <1>1, <2>1, <2>2, NextPartWithin DEF Classes
<1>4. ASSUME IfPart PROVE Within
  <2>1. /\ pc = "value" /\ TopIs("if") /\ CurTok \in {"then", "else"} /\ NextPart(With(value)) /\ Others
    <3>1. Len(Top.parts) < 2 /\ CurTok = <<"then", "else">>[Len(Top.parts) + 1]
      BY <1>4 DEF IfPart, IfKeyword
    <3> QED
      BY <1>4, <3>1 DEF IfPart
  <2>2. FrameOK(With(value))
    BY <1>2, <2>1 DEF With, TopIs
  <2> QED
    BY <1>1, <2>1, <2>2, NextPartWithin DEF Classes
<1>5. ASSUME ForPart PROVE Within
  <2>1. /\ pc = "value" /\ TopIs("for") /\ CurTok \in {",", "in"} /\ Others
        /\ \E v : NextPart([Top EXCEPT !.parts = v])
    BY <1>5 DEF ForPart, With
  <2>2. PICK v : NextPart([Top EXCEPT !.parts = v])
    BY <2>1
  <2>3. FrameOK([Top EXCEPT !.parts = v])
    BY <1>2, <2>1 DEF TopIs
  <2>4. CurTok \notin Classes
    BY <2>1 DEF Classes
  <2> QED
    BY <1>1, <2>1, <2>2, <2>3, <2>4, NextPartWithin
<1>6. ASSUME VarNext PROVE Within
  <2>1. /\ pc = "value" /\ pc' = "varname" /\ TopIs("var") /\ CurTok = "," /\ GetNextToken
        /\ stack' = Append(Front(stack), With(value)) /\ Others
    BY <1>6 DEF VarNext, InList
  <2>2. FrameOK(With(value))
    BY <1>2, <2>1 DEF With, TopIs
  <2>3. Frames(stack')
    BY <1>1, <2>1, <2>2, FramesPop, FramesPush
  <2> QED
    BY <2>1, <2>3 DEF Within, ExpressionPcs, Classes
<1>7. ASSUME VarIn PROVE Within
  <2>1. pc = "value" /\ TopIs("var") /\ CurTok = "in" /\ NextPart(With(value)) /\ Others
    BY <1>7 DEF VarIn, InList
  <2>2. FrameOK(With(value))
    BY <1>2, <2>1 DEF With, TopIs
  <2> QED
    BY <1>1, <2>1, <2>2, NextPartWithin DEF Classes
<1>8. ASSUME VarName PROVE Within
  <2>1. /\ pc = "varname" /\ pc' = "varinit" /\ CurTok \in Identifiers /\ GetNextToken /\ Others
        /\ \E v : stack' = [stack EXCEPT ![Len(stack)].names = v]
    BY <1>8 DEF VarName
  <2>2. PICK v : stack' = [stack EXCEPT ![Len(stack)].names = v]
    BY <2>1
  <2>3. Frames(stack')
    BY <1>1, <2>2, FramesExcept
  <2>4. CurTok \notin Classes
    BY <2>1, NoClass
  <2> QED
    BY <2>1, <2>3, <2>4 DEF Within, ExpressionPcs
<1> QED
  BY <1>3, <1>4, <1>5, <1>6, <1>7, <1>8

\* The rounds of the loop over binary operators.
LEMMA LoopSteps ==
  ASSUME ParserInv, FirstOperand \/ Climb \/ Merge
  PROVE  Within
<1>1. Frames(stack)
  BY DEF ParserInv
<1>2. ASSUME FirstOperand PROVE Within
  <2>1. pc = "operand" /\ Loop(0, value, stack) /\ Others
    BY <1>2 DEF FirstOperand
  <2> QED
    BY <1>1, <2>1, LoopWithin
<1>3. ASSUME Climb PROVE Within
  <2>1. pc = "operand" /\ Loop(InnerMin(Top.op), value, stack) /\ Others
    BY <1>3 DEF Climb
  <2>2. InnerMin(Top.op) \in Nat
    BY InnerMinIsNat
  <2> QED
    BY <1>1, <2>1, <2>2, LoopWithin
<1>4. ASSUME Merge PROVE Within
  <2>1. /\ pc \in {"value", "operand"} /\ stack # <<>> /\ Top.frame = "binary" /\ Others
        /\ \E lhs : Loop(Top.min, lhs, Front(stack))
    BY <1>4 DEF Merge, TopIs
  <2>2. Top.min \in Nat
    BY <1>1, <2>1, FramesTop DEF FrameOK, Top
  <2>3. Frames(Front(stack))
    BY <1>1, FramesPop
  <2>4. PICK lhs : Loop(Top.min, lhs, Front(stack))
    BY <2>1
  <2> QED
    BY <2>1, <2>2, <2>3, <2>4, LoopWithin
<1> QED
  BY <1>2, <1>3, <1>4

\* The errors, which the parser meets only inside an item.
LEMMA ErrorSteps ==
  ASSUME PrototypeError \/ NoPrimary \/ ParenError \/ CallError \/ IfError \/ ForError \/ VarError
  PROVE  Fail /\ pc \notin {"main", "done"}
BY DEF PrototypeError, NoPrimary, ParenError, CallError, IfError, ForError, VarError, InList, Unexpected

\* Every step keeps the invariant.
LEMMA NextKeeps ==
  ASSUME ParserInv, [Next]_vars
  PROVE  ParserInv'
<1>1. ASSUME TopLevel PROVE ParserInv'
  <2>1. CASE EndOfFile
    BY <2>1, EndOfFileKeeps
  <2>2. CASE TopSemicolon
    BY <2>2, TopSemicolonKeeps
  <2>3. CASE Keyword
    BY <2>3, KeywordKeeps
  <2>4. CASE TopLevelExpression
    BY <2>4, TopLevelExpressionKeeps
  <2>5. CASE \/ FunctionName \/ OperatorKind \/ OperatorName \/ ReadPrecedence \/ DefaultPrecedence
             \/ OpenNames \/ ArgumentName \/ CloseNames
    BY <2>5, PrototypeSteps, WithinPrototypeKeeps
  <2>6. CASE PrototypeError
    BY <2>6, ErrorSteps, FailKeeps
  <2>7. CASE ParseBody
    BY <2>7, ParseBodyKeeps
  <2>8. CASE AcceptExtern \/ AcceptDefinition \/ AcceptExpression
    BY <2>8, AcceptSteps
  <2> QED
    BY <1>1, <2>1, <2>2, <2>3, <2>4, <2>5, <2>6, <2>7, <2>8 DEF TopLevel
<1>2. ASSUME Expression PROVE ParserInv'
  <2>1. CASE UnaryOperator \/ OpenParen \/ Identifier \/ If \/ ForName \/ Var
    BY <2>1, PushSteps, WithinKeeps
  <2>2. CASE \/ UnaryDone \/ CloseParen \/ VariableReference \/ CloseCall \/ IfDone \/ ForDone \/ VarDone
    BY <2>2, PopSteps, WithinKeeps
  <2>3. CASE \/ Number \/ OpenCall \/ FirstArgument \/ For \/ ForAssign \/ VarInit \/ NoInit
    BY <2>3, FlatSteps, WithinKeeps
  <2>4. CASE NextArgument \/ IfPart \/ ForPart \/ VarNext \/ VarIn \/ VarName
    BY <2>4, PartSteps, WithinKeeps
  <2>5. CASE FirstOperand \/ Climb \/ Merge
    BY <2>5, LoopSteps, WithinKeeps
  <2>6. CASE NoPrimary \/ ParenError \/ CallError \/ IfError \/ ForError \/ VarError
    BY <2>6, ErrorSteps, FailKeeps
  <2> QED
    BY <1>2, <2>1, <2>2, <2>3, <2>4, <2>5, <2>6 DEF Expression
<1>3. ASSUME UNCHANGED vars PROVE ParserInv'
  <2>1. Tally' <=> Tally
    BY <1>3 DEF vars, Tally, Reading
  <2>2. CurTok' = CurTok
    BY <1>3 DEF vars, CurTok
  <2> QED
    BY <1>3, <2>1, <2>2 DEF vars, ParserInv
<1> QED
  BY <1>1, <1>2, <1>3 DEF Next

-----------------------------------------------------------------------------
(* The theorems. *)

\* The invariant holds in every reachable state.
THEOREM ParserInvariant == Spec => []ParserInv
<1>1. Init => ParserInv
  BY InitKeeps
<1>2. ParserInv /\ [Next]_vars => ParserInv'
  BY NextKeeps
<1> QED
  BY <1>1, <1>2, PTL DEF Spec

\* Code generation is handed operator prototypes with as many arguments as the
\* operator has operands, and a precedence from 1 to 100 (parser.cpp:353,387).
THEOREM PrototypesFit == Spec => []PrototypesFitOperators
<1>1. ASSUME ParserInv, Parsed, item.kind = "def"
      PROVE  CASE item.proto.kind = "unary" -> item.proto.args = 1
               [] item.proto.kind = "binary" -> item.proto.args = 2 /\ item.proto.precedence \in 1..100
               [] OTHER -> TRUE
  <2>1. RightArity(item.proto)
    BY <1>1 DEF ParserInv, Parsed, PrototypePcs
  <2>2. item.proto \in Signature
    BY <1>1 DEF ParserInv, Items
  <2>3. item.proto.kind \in {"function", "unary", "binary"} /\ item.proto.precedence \in 1..100
    BY <2>2 DEF Signature
  <2> QED
    BY <2>1, <2>3 DEF RightArity
<1>2. ParserInv => PrototypesFitOperators
  BY <1>1 DEF PrototypesFitOperators
<1> QED
  BY <1>2, ParserInvariant, PTL

\* Without a message every "def" and every "extern" of the stream has been
\* accepted when the stream is over (main.cpp:227-264).
THEOREM ItemsAreNotLost == Spec => []NothingIsLost
<1>1. ASSUME ParserInv PROVE TypeOK
  <2>1. item.kind \in {"none", "def", "extern", "expression"} /\ item.from \in Nat \ {0}
    BY <1>1 DEF ParserInv, Items, Classes
  <2>2. item.from <= Len(text) /\ text \in Seq(Stream) /\ text # <<>>
    BY <1>1, <2>1 DEF ParserInv
  <2>3. item.from \in DOMAIN text
    BY <2>1, <2>2
  <2>4. pc \in {"main", "done"} => stack = <<>>
    BY <1>1 DEF ParserInv, PrototypePcs, ExpressionPcs
  <2>5. script \in Scripts /\ DOMAIN precedence = Ascii /\ reported \in BOOLEAN
    BY <1>1 DEF ParserInv
  <2> QED
    BY <2>1, <2>2, <2>3, <2>4, <2>5 DEF TypeOK
<1>2. ASSUME ParserInv, pc = "done", ~reported, NEW k \in Classes
      PROVE  accepted[k] = Count(text, Len(text), {k})
  <2> DEFINE n == Len(text) - 1
  <2>1. n \in Nat /\ n + 1 = Len(text)
    BY <1>2, EmptySeq DEF ParserInv
  <2>2. text[n + 1] \notin {k}
    <3>1. CurTok = "eof"
      BY <1>2 DEF ParserInv
    <3> QED
      BY <2>1, <3>1 DEF CurTok, Classes
  <2>3. accepted[k] + Reading(k) = Count(text, n, {k})
    BY <1>2 DEF ParserInv, Tally
  <2>4. Reading(k) = 0
    BY <1>2, NotReading
  <2>5. accepted[k] \in Nat
    BY <1>2 DEF ParserInv, Classes
  <2> HIDE DEF n
  <2>6. Count(text, n, {k}) \in Nat /\ Count(text, n + 1, {k}) = Count(text, n, {k}) + 0
    BY <2>1, <2>2, CountGrows
  <2> QED
    BY <2>1, <2>3, <2>4, <2>5, <2>6
<1>3. ParserInv => NothingIsLost
  BY <1>1, <1>2 DEF NothingIsLost, Classes
<1> QED
  BY <1>3, ParserInvariant, PTL

\* Every round of the loop of main.cpp takes a token, whatever fails in it.
THEOREM EveryRoundAdvances == Spec => LoopAdvances
<1>1. ASSUME ParserInv, [Next]_vars, pc # "main", pc' = "main"
      PROVE  Len(text') > item.from
  <2>1. Len(text) \in Nat \ {0} /\ item.from \in Nat
    BY <1>1, EmptySeq DEF ParserInv, Items
  <2>2. CASE Fail /\ pc \notin {"main", "done"}
    <3>1. Len(text') = Len(text) + 1
      BY <1>1, <2>2, Taken DEF ParserInv, Fail
    <3>2. item.from <= Len(text)
      BY <1>1, <2>1, <2>2 DEF ParserInv
    <3> QED
      BY <2>1, <3>1, <3>2
  <2>3. CASE AcceptExtern \/ AcceptDefinition \/ AcceptExpression
    <3>1. pc \in {"arity", "value"} /\ text' = text
      BY <2>3 DEF AcceptExtern, AcceptDefinition, AcceptExpression, Accept
    <3>2. item.from < Len(text)
      BY <1>1, <3>1 DEF ParserInv
    <3> QED
      BY <2>1, <3>1, <3>2
  <2>4. CASE Within
    BY <1>1, <2>4 DEF Within, ExpressionPcs
  <2>5. CASE WithinPrototype
    BY <1>1, <2>5 DEF WithinPrototype, PrototypePcs
  <2>6. CASE \/ EndOfFile \/ TopSemicolon \/ Keyword \/ TopLevelExpression \/ ParseBody
             \/ UNCHANGED vars
    BY <1>1, <2>6 DEF EndOfFile, TopSemicolon, Expect, Keyword, TopLevelExpression, ParseBody, vars
  <2>7. TopLevel => \/ Fail /\ pc \notin {"main", "done"}
                   \/ AcceptExtern \/ AcceptDefinition \/ AcceptExpression
                   \/ WithinPrototype
                   \/ EndOfFile \/ TopSemicolon \/ Keyword \/ TopLevelExpression \/ ParseBody
    BY <1>1, ErrorSteps, PrototypeSteps DEF TopLevel
  <2>8. Expression => (Fail /\ pc \notin {"main", "done"}) \/ Within
    BY <1>1, ErrorSteps, PushSteps, PopSteps, FlatSteps, PartSteps, LoopSteps DEF Expression
  <2> QED
    BY <1>1, <2>2, <2>3, <2>4, <2>5, <2>6, <2>7, <2>8 DEF Next
<1>2. ParserInv /\ [Next]_vars => [pc # "main" /\ pc' = "main" => Len(text') > item.from]_vars
  BY <1>1
<1> QED
  BY <1>2, ParserInvariant, PTL DEF Spec, LoopAdvances
================================================================================
