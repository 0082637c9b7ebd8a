------------------------------ MODULE MCParser ------------------------------
(***************************************************************************)
(* Files for Parser: each lead is followed by every few of its words and   *)
(* by a tail that can complete what they begin.                            *)
(***************************************************************************)
EXTENDS Parser

CONSTANT Free   \* the most words that follow a lead, by what they make

Lit(kind, text) == [kind |-> kind, text |-> text]
MCLiterals ==
    ("0" :> Lit("intlit", <<"0">>))
    @@ ("8" :> Lit("intlit", <<"8">>))
    @@ ("017u" :> Lit("intlit", <<"0", "1", "7", "u">>))
    @@ ("0x1fl" :> Lit("intlit", <<"0", "x", "1", "f", "l">>))
    @@ ("21" :> Lit("intlit", <<"2", "1">>))
    @@ ("9ul" :> Lit("intlit", <<"9", "u", "l">>))
    @@ ("1." :> Lit("floatlit", <<"1", ".">>))
    @@ ("1.f" :> Lit("floatlit", <<"1", ".", "f">>))
    @@ ("'a'" :> Lit("charlit", <<"'", "a", "'">>))
    @@ ("'\\n'" :> Lit("charlit", <<"'", "\\", "n", "'">>))
    @@ ("'\\v'" :> Lit("charlit", <<"'", "\\", "v", "'">>))
    @@ ("'\\''" :> Lit("charlit", <<"'", "\\", "'", "'">>))
    @@ ("'ab'" :> Lit("charlit", <<"'", "a", "b", "'">>))
    @@ ("\"\"" :> Lit("strlit", <<"\"", "\"">>))
    @@ ("\"a\"" :> Lit("strlit", <<"\"", "a", "\"">>))
    @@ ("\"\\\\\"" :> Lit("strlit", <<"\"", "\\", "\\", "\"">>))
    @@ ("\"\\\"n\"" :> Lit("strlit", <<"\"", "\\", "\"", "n", "\"">>))
    @@ ("\"a\\0\"" :> Lit("strlit", <<"\"", "a", "\\", "0", "\"">>))
    @@ ("\"\\\\n\"" :> Lit("strlit", <<"\"", "\\", "\\", "n", "\"">>))

After(lead, words, n, tail) ==
    {[lead |-> lead, words |-> words, free |-> k, tail |-> tail] : k \in 1 .. n}

Main == <<"int", "id", "(", ")", "{">>
End == <<";", "}">>

MCFiles ==
    \* declarations of the file, specifiers, parameters
    After(<<>>, {"int", "id", "*", "(", ")", "[", "]", ",", ";", "}"}, Free[1], <<";">>)
    \cup After(<<>>, {"unsigned", "signed", "long", "int", "char", "short", "double", "void",
                      "float", "_Bool", "const", "typedef"}, Free[2], <<"id", ";">>)
    \cup After(<<"int", "id", "(">>, {"int", "void", "...", "id", "*", ",", ")", "["}, Free[3],
              <<")", "{", "}">>)
    \* declarations and statements of a function
    \cup After(Main \o <<"long">>, {"*", "[", "]", "id", ",", "=", "8", "int"}, Free[4], End)
    \cup After(Main \o <<"if", "(", "id", ")">>, {"if", "(", "id", ")", "else", ";"}, Free[5], End)
    \cup After(Main, {"do", "while", "for", "(", "id", ")", ";"}, Free[6], End)
    \cup After(Main \o <<"switch", "(", "id", ")", "{">>,
              {"case", "default", "goto", "break", "return", "id", ":", "{", "}", ";"}, Free[7],
              <<";", "}", "}">>)
    \* expressions
    \cup After(Main, {"id", "+", "=", "?", ":", ",", "(", ")"}, Free[8], End)
    \cup After(Main \o <<"id">>, {"id", "||", "&&", "|", "^", "&", "==", "<", "<<", "+", "*"},
              Free[9], End)
    \cup After(Main, {"id", "[", "]", "(", ")", ".", "++", "sizeof", "!", ","}, Free[10], End)
    \cup After(Main \o <<"id", "(">>, {"id", ",", ")", "("}, Free[11], End)
    \cup After(Main, DOMAIN Literals, 1, End)

MCFree == <<4, 3, 4, 5, 6, 6, 4, 5, 4, 4, 5>>

=============================================================================
