-------------------------------- MODULE Lexer --------------------------------
(***************************************************************************)
(* The lexer of the QBE-based compiler (qbebasedcompiler/src/Lexer.c):     *)
(* next_token called until it returns tok_eof.  One step is one piece of   *)
(* trivia that skip_trivia passes, or one token that a lex_* function      *)
(* makes.  Pointers into the source are indices, from 1; a pointer at the  *)
(* end is Len(text) + 1, where peek returns '\0'.                          *)
(***************************************************************************)
EXTENDS Integers, Sequences, FiniteSets

CONSTANTS
    Texts,     \* the sources, sequences of characters
    Keywords   \* the entries of the keyword table

ASSUME LexerAssumption == \A s \in Texts : s \in Seq(STRING)

(* The characters by their classes; of digits and letters, those that some *)
(* line of the lexer asks for and one more.  "vt" stands for \v.           *)
Blanks == {" ", "\t", "\r", "\f", "vt"}
Digits == {"0", "1", "8"}
Letters == {"a", "e", "f", "i", "l", "p", "u", "x", "E", "F", "L", "P", "U", "X", "_"}
HexDigits == Digits \cup {"a", "e", "f", "E", "F"}

VARIABLES
    text,
    cur,
    line,
    line_start,
    had_error,
    toks       \* what next_token returned

vars == <<text, cur, line, line_start, had_error, toks>>

End == Len(text) + 1
peek(i) == IF i < End THEN text[i] ELSE "end"

(* The first place from i on that is in S, or the end.                     *)
First(i, S) ==
    CHOOSE k \in i .. End : (k = End \/ k \in S) /\ \A j \in i .. (k - 1) : j \notin S

(* Where a run of characters of S that begins at i ends.                   *)
Run(i, S) == First(i, {k \in DOMAIN text : text[k] \notin S})

Ended == \E k \in DOMAIN toks : toks[k].kind = "eof"
Going == ~had_error /\ ~Ended

make_token(kind, start, end) ==
    [kind |-> kind, start |-> start, len |-> end - start, line |-> line,
     col |-> start - line_start + 1]

Newlines(i, k) == {j \in i .. (k - 1) : text[j] = "\n"}
Latest(S) == CHOOSE j \in S : \A k \in S : k <= j

-----------------------------------------------------------------------------
(* skip_trivia.                                                            *)
Blank ==
    /\ Going /\ peek(cur) \in Blanks
    /\ cur' = cur + 1
    /\ UNCHANGED <<text, line, line_start, had_error, toks>>

newline(at) == line' = line + 1 /\ line_start' = at

(* Faulty: the line begins before its newline.                             *)
NewlineEarly ==
    /\ Going /\ peek(cur) = "\n"
    /\ cur' = cur + 1
    /\ newline(cur)
    /\ UNCHANGED <<text, had_error, toks>>

Newline ==
    /\ Going /\ peek(cur) = "\n"
    /\ cur' = cur + 1
    /\ newline(cur + 1)
    /\ UNCHANGED <<text, had_error, toks>>

SpliceEnd(i) ==
    CASE peek(i) = "\\" /\ peek(i + 1) = "\n" -> i + 2
      [] peek(i) = "\\" /\ peek(i + 1) = "\r" /\ peek(i + 2) = "\n" -> i + 3
      [] OTHER -> i

Splice ==
    /\ Going /\ SpliceEnd(cur) > cur
    /\ cur' = SpliceEnd(cur)
    /\ newline(SpliceEnd(cur))
    /\ UNCHANGED <<text, had_error, toks>>

LineComment ==
    /\ Going /\ peek(cur) = "/" /\ peek(cur + 1) = "/"
    /\ cur' = First(cur + 2, {k \in DOMAIN text : text[k] = "\n"})
    /\ UNCHANGED <<text, line, line_start, had_error, toks>>

Closings == {k \in DOMAIN text : text[k] = "*" /\ peek(k + 1) = "/"}

(* Faulty: the star that opens a comment may close it.                     *)
BlockCommentShort ==
    /\ Going /\ peek(cur) = "/" /\ peek(cur + 1) = "*"
    /\ LET close == First(cur + 1, Closings)
           nls == Newlines(cur + 2, close)
       IN /\ cur' = IF close < End THEN close + 2 ELSE End
          /\ had_error' = (close = End)
          /\ line' = line + Cardinality(nls)
          /\ line_start' = IF nls = {} THEN line_start ELSE Latest(nls)
    /\ UNCHANGED <<text, toks>>

(* newline is called before the character is passed, so that a line begins *)
(* at the newline that ends the one before.                                *)
BlockComment ==
    /\ Going /\ peek(cur) = "/" /\ peek(cur + 1) = "*"
    /\ LET close == First(cur + 2, Closings)
           nls == Newlines(cur + 2, close)
       IN /\ cur' = IF close < End THEN close + 2 ELSE End
          /\ had_error' = (close = End)
          /\ line' = line + Cardinality(nls)
          /\ line_start' = IF nls = {} THEN line_start ELSE Latest(nls)
    /\ UNCHANGED <<text, toks>>

InTrivia ==
    \/ peek(cur) \in Blanks \cup {"\n"} \/ SpliceEnd(cur) > cur
    \/ peek(cur) = "/" /\ peek(cur + 1) \in {"/", "*"}

-----------------------------------------------------------------------------
(* The lex_* functions: the kind of the token that begins at i and where   *)
(* it ends; "other" is an error.                                           *)
Lexeme(kind, end) == [kind |-> kind, end |-> end]

(* Faulty: a quote after an escaped backslash is taken for escaped.        *)
EscapedByAny(i, k) == k > i /\ text[k - 1] = "\\"

(* From i, after the quote, to the closing quote.  A backslash takes the   *)
(* next character with it, whatever it is.                                 *)
Escaped(i, k) ==
    LET first == CHOOSE j \in i .. k :
            /\ \A l \in j .. (k - 1) : text[l] = "\\"
            /\ j = i \/ text[j - 1] # "\\"
    IN (k - first) % 2 = 1

(* Faulty: a literal that is not closed goes past the end.                 *)
QuotedPastEnd(i, quote, kind) ==
    Lexeme(kind, First(i, {k \in i .. Len(text) : text[k] = quote /\ ~Escaped(i, k)}) + 1)

lex_quoted(i, quote, kind) ==
    LET e == First(i, {k \in i .. Len(text) : text[k] \in {quote, "\n"} /\ ~Escaped(i, k)})
    IN IF peek(e) = quote THEN Lexeme(kind, e + 1) ELSE Lexeme("other", e)

lex_string(i) == lex_quoted(i, "\"", "strlit")
lex_char(i) == lex_quoted(i, "'", "charlit")

lex_ident(i) ==
    LET e == Run(i, Letters \cup Digits)
        word == SubSeq(text, i, e - 1)
        single == word \in {<<"L">>, <<"u">>, <<"U">>}
    IN CASE peek(e) = "\"" /\ (single \/ word = <<"u", "8">>) -> lex_string(e + 1)
         [] peek(e) = "'" /\ single -> lex_char(e + 1)
         [] OTHER -> Lexeme(IF word \in Keywords THEN "keyword" ELSE "ident", e)

(* Faulty: one suffix is read, and no other.                               *)
SuffixedOnce(is_float, i) ==
    Lexeme(IF is_float THEN "floatlit" ELSE "intlit",
           IF peek(i) \in {"u", "U", "l", "L"} \cup (IF is_float THEN {"f", "F"} ELSE {})
           THEN i + 1 ELSE i)

(* The loop over the suffixes passes any of these letters.                 *)
Suffixed(is_float, i) ==
    Lexeme(IF is_float THEN "floatlit" ELSE "intlit",
           Run(i, {"u", "U", "l", "L"} \cup (IF is_float THEN {"f", "F"} ELSE {})))

Signed(i) == IF peek(i) \in {"+", "-"} THEN i + 1 ELSE i

(* Digits of S with a point, and an exponent; hexadecimal numbers keep an  *)
(* exponent that has no digits, decimal ones back up before it.            *)
HexNumber(i) ==
    LET whole == Run(i, HexDigits)
        point == peek(whole) = "."
        frac  == IF point THEN Run(whole + 1, HexDigits) ELSE whole
        exp   == peek(frac) \in {"p", "P"}
    IN Suffixed(point \/ exp, IF exp THEN Run(Signed(frac + 1), Digits) ELSE frac)

(* Faulty: there is no way back from an exponent without digits.           *)
DecNumberKeeps(i) ==
    LET whole == Run(i, Digits)
        point == peek(whole) = "."
        frac  == IF point THEN Run(whole + 1, Digits) ELSE whole
        exp   == peek(frac) \in {"e", "E"}
    IN Suffixed(point \/ exp, IF exp THEN Run(Signed(frac + 1), Digits) ELSE frac)

DecNumber(i) ==
    LET whole == Run(i, Digits)
        point == peek(whole) = "."
        frac  == IF point THEN Run(whole + 1, Digits) ELSE whole
        exp   == peek(frac) \in {"e", "E"} /\ peek(Signed(frac + 1)) \in Digits
    IN Suffixed(point \/ exp, IF exp THEN Run(Signed(frac + 1), Digits) ELSE frac)

lex_number(i) ==
    IF peek(i) = "0" /\ peek(i + 1) \in {"x", "X"} THEN HexNumber(i + 2) ELSE DecNumber(i + 1)

(* What may follow the first character of a punctuator, in the order in    *)
(* which it is tried.                                                      *)
Alone == {"[", "]", "(", ")", "{", "}", ";", ",", "?", ":", "~"}
Equal == {"=", "!", "^", "*", "/", "%"}
(* Faulty: the short operators are tried first.                            *)
FollowShortFirst(c) ==
    CASE c \in {"<", ">"} -> << <<c>>, <<c, "=">>, <<"=">> >>
      [] c = "." -> << <<".", ".">> >>
      [] OTHER -> << <<"=">> >>

Follow(c) ==
    CASE c = "." -> << <<".", ".">> >>
      [] c = "-" -> << <<">">>, <<"-">>, <<"=">> >>
      [] c \in {"+", "&", "|"} -> << <<c>>, <<"=">> >>
      [] c \in {"<", ">"} -> << <<c, "=">>, <<c>>, <<"=">> >>
      [] c \in Equal -> << <<"=">> >>
      [] c = "#" -> << <<"#">> >>
      [] OTHER -> << >>

Punctuators == Alone \cup Equal \cup {".", "-", "+", "&", "|", "<", ">", "#"}

Reads(s, i) == \A k \in DOMAIN s : peek(i + k - 1) = s[k]

lex_punct(i) ==
    LET alts == Follow(peek(i))
        hits == {k \in DOMAIN alts : Reads(alts[k], i + 1)}
    IN CASE peek(i) \notin Punctuators -> Lexeme("other", i + 1)
         [] peek(i) \in Punctuators /\ hits = {} -> Lexeme("punct", i + 1)
         [] OTHER -> Lexeme("punct", i + 1 + Len(alts[CHOOSE k \in hits : \A j \in hits : k <= j]))

lex(i) ==
    LET c == peek(i)
    IN CASE c \in Letters -> lex_ident(i)
         [] c \in Digits -> lex_number(i)
         [] c = "\"" -> lex_string(i + 1)
         [] c = "'" -> lex_char(i + 1)
         [] OTHER -> lex_punct(i)

-----------------------------------------------------------------------------
(* next_token, when there is no more trivia.                               *)
Token ==
    /\ Going /\ cur < End /\ ~InTrivia
    /\ LET t == lex(cur)
       IN /\ cur' = t.end
          /\ toks' = Append(toks, make_token(t.kind, cur, t.end))
          /\ had_error' = (t.kind = "other")
    /\ UNCHANGED <<text, line, line_start>>

(* After an error every call returns tok_eof at once.                      *)
Eof ==
    /\ ~Ended
    /\ cur = End \/ had_error
    /\ toks' = Append(toks, make_token("eof", cur, cur))
    /\ UNCHANGED <<text, cur, line, line_start, had_error>>

Init ==
    /\ text \in Texts
    /\ cur = 1 /\ line = 1 /\ line_start = 1
    /\ had_error = FALSE
    /\ toks = <<>>

Next == Blank \/ Newline \/ Splice \/ LineComment \/ BlockComment \/ Token \/ Eof

Spec == Init /\ [][Next]_vars /\ WF_vars(Next)

-----------------------------------------------------------------------------
(* Types; the lexer stays in its buffer, and tokens follow one another,    *)
(* none of them empty but the last.                                        *)
TokenKinds ==
    {"ident", "keyword", "intlit", "floatlit", "strlit", "charlit", "punct", "other", "eof"}
TokenType == [kind : TokenKinds, start : Nat, len : Nat, line : Nat, col : Nat]

EndOf(k) == toks[k].start + toks[k].len

TypeOK ==
    /\ text \in Seq(STRING)
    /\ cur \in 1 .. End
    /\ line \in Nat /\ line_start \in 1 .. cur
    /\ had_error \in BOOLEAN
    /\ toks \in Seq(TokenType)
    /\ \A k \in DOMAIN toks :
          /\ EndOf(k) <= cur
          /\ toks[k].kind = "eof" <=> toks[k].len = 0
          /\ toks[k].kind = "eof" => k = Len(toks)
          /\ k > 1 => EndOf(k - 1) <= toks[k].start

(* What may lie between tokens: white space, spliced lines and comments,   *)
(* one of which reaches from i to k.                                       *)
Read(i, s) == \A j \in DOMAIN s : peek(i + j - 1) = s[j]
TriviaAt(i, k) ==
    \/ k = i + 1 /\ text[i] \in Blanks \cup {"\n"}
    \/ k = i + 2 /\ Read(i, <<"\\", "\n">>)
    \/ k = i + 3 /\ Read(i, <<"\\", "\r", "\n">>)
    \/ /\ k >= i + 2 /\ Read(i, <<"/", "/">>)
       /\ Newlines(i, k) = {} /\ peek(k) \in {"\n", "end"}
    \/ /\ Read(i, <<"/", "*">>)
       /\ LET closed == {j \in (i + 4) .. k : Read(j - 2, <<"*", "/">>)}
          IN closed = {k} \/ (closed = {} /\ k = End)

(* A way from i to k over pieces of trivia.                                *)
AllTrivia(i, k) ==
    \E way \in SUBSET (i .. k) :
        {i, k} \subseteq way /\ \A p \in way \ {k} : \E q \in way : TriviaAt(p, q)

(* Nothing of the source is lost: what the tokens leave out is trivia, up  *)
(* to where the lexer is.                                                  *)
OnlyTriviaDropped ==
    LET from(k) == IF k = 0 THEN 1 ELSE EndOf(k)
        to(k) == IF k = Len(toks) THEN cur ELSE toks[k + 1].start
    IN \A k \in 0 .. Len(toks) : AllTrivia(from(k), to(k))

(* Every token is where its line and column say: but a newline in a        *)
(* literal (after a backslash) is not counted, and after a comment of more *)
(* than one line, closed or not, the columns of its last line are one too  *)
(* large.                                                                  *)
PositionsRight ==
    \A k \in DOMAIN toks :
        LET t == toks[k]
            counted == {j \in Newlines(1, t.start) :
                            \A l \in 1 .. (k - 1) : j \notin toks[l].start .. (EndOf(l) - 1)}
            last == IF counted = {} THEN 0 ELSE Latest(counted)
        IN /\ t.line = 1 + Cardinality(counted)
           /\ \/ t.col = t.start - last
              \/ /\ t.col = t.start - last + 1
                 /\ \/ \E j \in (last + 1) .. (t.start - 2) : j \in Closings
                    \/ t.kind = "eof" /\ had_error

(* The punctuators of C that the lexer knows (Lexer.c:67-114).              *)
Spellings ==
    {<<c>> : c \in Punctuators}
      \cup {<<c, "=">> : c \in Equal \cup {"+", "-", "&", "|", "<", ">"}}
      \cup {<<c, c>> : c \in {"+", "-", "&", "|", "<", ">", "#"}}
      \cup {<<"<", "<", "=">>, <<">", ">", "=">>, <<"-", ">">>, <<".", ".", ".">>}

(* A punctuator is the longest one that can be read where it begins.       *)
LongestPunctuator ==
    \A k \in DOMAIN toks : toks[k].kind = "punct" =>
        LET t == toks[k]
        IN /\ SubSeq(text, t.start, EndOf(k) - 1) \in Spellings
           /\ \A s \in Spellings : Read(t.start, s) => Len(s) <= t.len

(* The numbers of C that begin with a digit: digits, a point and more of   *)
(* them, an exponent, suffixes.  The lexer lets more through, that C has   *)
(* no number for: 0x and p without digits, and suffixes in any number.     *)
AllOf(i, k, S) == \A j \in i .. (k - 1) : text[j] \in S

Numeral(i, e, S, exponents, least, float) ==
    \E a, b, c \in i .. e :
        /\ a <= b /\ b <= c /\ AllOf(i, a, S)
        /\ b = a \/ (peek(a) = "." /\ AllOf(a + 1, b, S))
        /\ c = b \/ /\ peek(b) \in exponents
                    /\ \E d \in {b + 1, b + 2} :
                          /\ d = b + 2 => peek(b + 1) \in {"+", "-"}
                          /\ d + least <= c /\ AllOf(d, c, Digits)
        /\ float <=> c > a
        /\ AllOf(c, e, {"u", "U", "l", "L"} \cup (IF float THEN {"f", "F"} ELSE {}))

Number(s, e, float) ==
    \/ peek(s) \in Digits /\ Numeral(s + 1, e, Digits, {"e", "E"}, 1, float)
    \/ /\ peek(s) = "0" /\ peek(s + 1) \in {"x", "X"}
       /\ Numeral(s + 2, e, HexDigits, {"p", "P"}, 0, float)

(* A number of C that the code does not read as one: a point is the token  *)
(* ., or the first of three, whatever follows (Lexer.c:388), so that .5,   *)
(* which test.c:18 has in its row of floating literals, is . and 5.        *)
PointFirst(i) == peek(i) = "." /\ peek(i + 1) \in Digits
BeginsNumber(i) == peek(i) \in Digits \/ PointFirst(i)

(* Where a number begins there is a number token, except if it begins with *)
(* its point.  It is floating exactly if it has a point or an exponent,    *)
(* and the longest number that can be read there: nothing of it is left    *)
(* unread, no digit, exponent or suffix, and "1e" and "1e+" are an integer *)
(* and what comes after it.                                                *)
NumbersWhole ==
    \A k \in DOMAIN toks : toks[k].kind # "eof" =>
        LET t == toks[k]
        IN /\ t.kind \in {"intlit", "floatlit"}
                 <=> BeginsNumber(t.start) /\ ~PointFirst(t.start)
           /\ peek(t.start) \in Digits =>
                 /\ Number(t.start, EndOf(k), t.kind = "floatlit")
                 /\ \A e \in (EndOf(k) + 1) .. End : \A float \in BOOLEAN :
                       ~Number(t.start, e, float)

(* A string or character literal ends at its first quote that is not       *)
(* escaped, and has no newline that is not.                                *)
LiteralsClosed ==
    \A k \in DOMAIN toks : toks[k].kind \in {"strlit", "charlit"} =>
        LET quote == text[EndOf(k) - 1]
            open == First(toks[k].start, {j \in DOMAIN text : text[j] = quote})
            esc[j \in open .. EndOf(k)] == j > open /\ text[j - 1] = "\\" /\ ~esc[j - 1]
        IN /\ quote = IF toks[k].kind = "strlit" THEN "\"" ELSE "'"
           /\ {j \in (open + 1) .. (EndOf(k) - 1) : text[j] \in {quote, "\n"} /\ ~esc[j]}
                = {EndOf(k) - 1}

=============================================================================
