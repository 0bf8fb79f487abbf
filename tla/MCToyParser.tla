---------------------------- MODULE MCToyParser ----------------------------
(***************************************************************************)
(* Streams that begin in one of a dozen ways and go on with any tokens.    *)
(***************************************************************************)
EXTENDS ToyGrammar

Header == <<"def", "a", "(", ")", "{">>
Alphabet == {"def", "a", "print", "1", "(", ")", "[", "]", "{", "}", ";", ",", "=", "<", ">",
             "var", "return", "+", "-", "*", "@", "?"}
Beginnings == {<<t>> : t \in Alphabet \cup {"eof"}} \cup {Header} \cup {
  <<"def", "a", "(", "a", ",">>,
  Header \o <<"}", "def">>,
  Header \o <<"a", "-", "a", "*">>,
  Header \o <<"a", "+", "a", "@", "a", "*">>,
  Header \o <<"a", "*", "(", "a", "-">>,
  Header \o <<"return", "a", "*", "a", "*">>,
  Header \o <<"return", "(", "a">>,
  Header \o <<"[", "[", "1", "]", ",">>,
  Header \o <<"[", "[", "1", ",", "1", "]", ",", "[", "1">>,
  Header \o <<"print", "(", "a">>,
  Header \o <<"a", "(", "a", ",", "1", "+">>,
  Header \o <<"var", "a", "<", "1">> }
=============================================================================
