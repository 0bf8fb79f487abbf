------------------------ MODULE MCKaleidoscopeParser ------------------------
(***************************************************************************)
(* Streams that begin in one of many ways and go on with any tokens.       *)
(***************************************************************************)
EXTENDS KaleidoscopeGrammar, TLC

NumberValues == "0.5" :> 5 @@ "7.5" :> 75 @@ "100" :> 1000 @@ "100.5" :> 1005
Characters == {"(", ")", ",", ";", "=", "+", "*", "!"}
Alphabet == {"def", "extern", "a", "7.5", "if", "then", "else", "for", "in", "var", "unary", "binary"}
              \cup Characters
Define(op, n) == <<"def", "binary", op, n, "(", "a", "a", ")", "a">>
Beginnings == {<<t>> : t \in Alphabet \cup {"eof"}}
              \cup {<<t, u>> : t \in {"a", "(", "!"}, u \in Alphabet} \cup {
  <<"def", "a", "(", "a", ")">>,
  Define("!", "7.5") \o <<";", "a", "!", "a">>,
  Define("+", "100") \o <<";", "a", "*", "a">>,
  Define(";", "100") \o <<";", "a">>,
  <<"def", "binary", "!", "0.5", "(", "a", "a", ")">>,
  <<"def", "binary", "!", "100.5", "(", "a">>,
  <<"def", "unary", "!", "(", "a">>, <<"def", "binary", "*", "(", "a">>,
  <<"extern", "unary", "!", "(", "a">>,
  <<"extern", "a", "(", "a", ")", "a">>,
  <<"a", "+", "a", "*", "a">>,
  <<"a", "*", "(", "a", "=">>,
  <<"!", "a", "+", "!", "(", "a">>,
  <<"if", "a", "then", "a", "else", "a">>,
  <<"if", "if", "a", "then", "a", "else", "a", "then">>,
  <<"for", "a", "=", "a", ",", "a">>,
  <<"for", "a", "=", "a", ",", "a", ",", "a", "in">>,
  <<"a", "+", "for", "a", "=", "for", "a", "=", "a", ",", "a", "in", "a", ",">>,
  <<"var", "a", "=", "a", ",", "a">>,
  <<"var", "a", ",", "a", "=", "var", "a", "in">>,
  <<"a", "(", "a", ",", "a", "*">> }
=============================================================================
