------------------------------ MODULE MCLexer ------------------------------
(***************************************************************************)
(* Every short source over alphabets that bring one part of the lexer out  *)
(* each.                                                                   *)
(***************************************************************************)
EXTENDS Lexer

CONSTANT Size   \* characters of a source

Over(S, n) == UNION {[1 .. k -> S] : k \in 0 .. n}

MCTexts ==
    UNION {Over(S, Size) : S \in
        {{"/", "*", "\n", "a"},               \* comments
         {"\\", "\r", "\n", " ", "#"},        \* line splices
         {"\"", "\\", "\n", "L"},             \* strings
         {"<", "=", ">", "-"},                \* operators
         {".", "1", "e", "+"},                \* decimal numbers
         {"0", "x", "p", "."}}}               \* hexadecimal numbers
      \cup UNION {Over(S, 4) : S \in
        {{"u", "8", "'", "\"", "\\"},         \* prefixes
         {"i", "f", "_", " ", "(", "@"},      \* words
         {"1", "0", "u", "l", "f", "."},      \* suffixes
         {"&", "|", "^", "!", "+", "="}}}     \* more operators

MCKeywords == {<<"i", "f">>}

=============================================================================
