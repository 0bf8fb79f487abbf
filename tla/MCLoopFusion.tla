---------------------------- MODULE MCLoopFusion ----------------------------
(***************************************************************************)
(* Two loops of every form and with every choice of phis, two loops with   *)
(* every pair of accesses, and rows of three and four loops.               *)
(***************************************************************************)
EXTENDS LoopFusion, TLC

Pre(l) == <<"pre", l>>
Header(l) == <<"header", l>>
First(l) == <<"body", l>>
More(l) == <<"more", l>>
Latch(l) == <<"latch", l>>
Out(l) == <<"return", l>>

\* "while": the header leaves; "two": the body has two blocks; "do": the latch
\* leaves; "break": the body leaves too, to a return.
Edges(form, l) ==
  CASE form = "while" -> Header(l) :> <<First(l), Pre(l + 1)>> @@ First(l) :> <<Latch(l)>> @@ Latch(l) :> <<Header(l)>>
    [] form = "two" -> Header(l) :> <<First(l), Pre(l + 1)>> @@ First(l) :> <<More(l)>>
                       @@ More(l) :> <<Latch(l)>> @@ Latch(l) :> <<Header(l)>>
    [] form = "do" -> Header(l) :> <<First(l)>> @@ First(l) :> <<Latch(l)>> @@ Latch(l) :> <<Header(l), Pre(l + 1)>>
    [] form = "break" -> Header(l) :> <<First(l), Pre(l + 1)>> @@ First(l) :> <<Latch(l), Out(l)>>
                         @@ Latch(l) :> <<Header(l)>> @@ Out(l) :> <<>>
RECURSIVE AllEdges(_, _)
AllEdges(shapes, l) == IF l = 0 THEN Pre(Len(shapes) + 1) :> <<>>
                       ELSE Pre(l) :> <<Header(l)>> @@ Edges(shapes[l].form, l) @@ AllEdges(shapes, l - 1)
Function(shapes) ==
  [succ |-> AllEdges(shapes, Len(shapes)),
   loops |-> [l \in DOMAIN shapes |->
     [pre |-> Pre(l), header |-> Header(l), latch |-> Latch(l),
      body |-> IF shapes[l].form = "two" THEN <<First(l), More(l)>> ELSE <<First(l)>>,
      phis |-> shapes[l].phis, control |-> shapes[l].control, count |-> shapes[l].count,
      computable |-> shapes[l].computable, simplified |-> shapes[l].simplified, accesses |-> shapes[l].accesses]]]

Shape(form, vars_, count, accesses) ==
  [form |-> form, phis |-> vars_[1], control |-> vars_[2], count |-> count, computable |-> TRUE,
   simplified |-> TRUE, accesses |-> accesses]

\* a counter from 0 or from 1, a sum in front of it or behind it
I0 == [start |-> 0, step |-> 1]
I1 == [start |-> 1, step |-> 1]
Sum == [start |-> 10, step |-> 1]
Zero == <<<<I0>>, 1>>
Variables == {Zero, <<<<I1>>, 1>>, <<<<Sum, I0>>, 2>>, <<<<I0, Sum>>, 1>>}
Forms == {"while", "two", "do", "break"}
Write == [array |-> "a", offset |-> 0, store |-> TRUE]
Read(o) == [array |-> "a", offset |-> o, store |-> FALSE]
Other == [array |-> "b", offset |-> 0, store |-> TRUE]
Accesses == {{}, {Write}, {Read(0)}, {Read(1)}, {Read(-1)}, {Write, Read(0)}, {Write, Read(-1)}, {Other, Read(0)}}

TwoForms == {<<Shape(f, v, 2, {Write}), Shape(g, w, c, {Read(0)})>> : f, g \in Forms, v, w \in Variables, c \in {1, 2}}
TwoAccesses == {<<Shape(f, Zero, 2, a), Shape("while", Zero, 2, b)>> : f \in {"while", "two"}, a, b \in Accesses}
Rows == {<<Shape(f, Zero, 2, {Write}), Shape(g, Zero, 2, {Read(0)}), Shape(h, v, 2, {Read(-1)})>> :
           f, g, h \in Forms, v \in {Zero, <<<<I0, Sum>>, 1>>}}
        \cup {<<Shape(f, Zero, b, {Write}), Shape("while", Zero, 2, {}), Shape("while", Zero, c, {Other}),
                Shape("while", Zero, d, {Read(0)})>> : f \in {"while", "two"}, b, c, d \in {1, 2}}
NoPhi == {<<Shape(f, Zero, 0, {}), Shape(g, <<<<>>, 1>>, 0, {})>> : f, g \in {"while", "do"}}
Uncountable == {<<[s[1] EXCEPT !.computable = x], [s[2] EXCEPT !.computable = y, !.simplified = z]>> :
                 s \in {<<Shape("while", Zero, 2, {Write}), Shape("while", v, 2, {Read(0)})>> : v \in Variables},
                 x, y, z \in BOOLEAN}
MCFunctions == {Function(s) : s \in TwoForms \cup TwoAccesses \cup Rows \cup NoPhi \cup Uncountable}
=============================================================================
