---------------------------- MODULE LexerProofs ----------------------------
(***************************************************************************)
(* For every source: the lexer stays inside its buffer and cuts it into    *)
(* tokens that follow one another; its operators are longest, its numbers  *)
(* whole, its literals closed; what it leaves out is white space and       *)
(* comments; and a token is on the line and column it says, but after      *)
(* newlines in literals and on the last line of a comment.                 *)
(***************************************************************************)
EXTENDS Lexer, SetsAndLists, SequenceTheorems

(* The latest of some places is one of them, and none is later.            *)
LEMMA LatestIs ==
    ASSUME NEW S \in SUBSET Int, NEW m \in S, \A k \in S : k <= m
    PROVE  Latest(S) = m
<1>1. \E j \in S : \A k \in S : k <= j
  OBVIOUS
<1>2. Latest(S) \in S /\ \A k \in S : k <= Latest(S)
  BY <1>1 DEF Latest
<1> PICK x \in S : x = Latest(S)
  BY <1>2
<1>3. x <= m /\ m <= x /\ x \in Int /\ m \in Int
  BY <1>2
<1> QED BY <1>3

LEMMA LatestHas ==
    ASSUME NEW a \in Nat, NEW b \in Nat, NEW S \in SUBSET (a .. b), S # {}
    PROVE  Latest(S) \in S /\ \A k \in S : k <= Latest(S)
<1> DEFINE T == {b - j : j \in S}
<1>1. \A j \in S : j \in Int /\ b - j \in Nat
  OBVIOUS
<1>2. T \in SUBSET Nat /\ T # {}
  BY <1>1
<1>3. PICK k \in T : \A j \in T : k <= j
  BY <1>2, HasSmallest
<1>4. PICK s \in S : k = b - s
  BY <1>3
<1>5. ASSUME NEW j \in S PROVE j <= s
  <2>1. b - j \in T
    OBVIOUS
  <2>2. b - s <= b - j
    BY <1>3, <1>4, <2>1
  <2>3. b \in Int /\ s \in Int /\ j \in Int
    BY <1>1
  <2> HIDE DEF T
  <2> QED BY <2>2, <2>3
<1>6. S \in SUBSET Int
  BY <1>1
<1> HIDE DEF T
<1>7. Latest(S) = s
  BY <1>5, <1>6, LatestIs
<1> QED BY <1>5, <1>7

(* What the lemmas need of the state.                                      *)
Sources == text \in Seq(STRING)

(* A search forward stops at the first place of S or at the end.            *)
LEMMA FirstInRange ==
    ASSUME Sources, NEW i \in 1 .. End, NEW S
    PROVE  /\ First(i, S) \in i .. End
           /\ First(i, S) = End \/ First(i, S) \in S
           /\ \A j \in i .. (First(i, S) - 1) : j \notin S
<1> DEFINE T == {k \in i .. End : k = End \/ k \in S}
<1>1. End \in Nat /\ i \in Nat /\ i <= End
  BY DEF Sources, End
<1>2. T \in SUBSET Nat /\ End \in T
  BY <1>1
<1>3. PICK k \in T : \A j \in T : k <= j
  BY <1>2, HasSmallest
<1>4. k \in i .. End /\ (k = End \/ k \in S)
  BY <1>3
<1>5. \A j \in i .. (k - 1) : j \notin S
  BY <1>1, <1>3, <1>4
<1> HIDE DEF T
<1> QED BY <1>4, <1>5 DEF First

(* A run ends in the buffer, and is not empty if its first character is in S.*)
LEMMA RunInRange ==
    ASSUME Sources, NEW i \in 1 .. End, NEW S
    PROVE  /\ Run(i, S) \in i .. End
           /\ i < End /\ text[i] \in S => Run(i, S) > i
<1>1. Run(i, S) \in i .. End
  BY FirstInRange DEF Run
<1>2. ASSUME i < End, text[i] \in S PROVE Run(i, S) # i
  <2>1. i \in DOMAIN text
    BY <1>2 DEF Sources, End
  <2>2. Run(i, S) = End \/ Run(i, S) \in {k \in DOMAIN text : text[k] \notin S}
    BY FirstInRange DEF Run
  <2> QED BY <1>2, <2>2
<1> QED BY <1>1, <1>2 DEF Sources, End

(* What is read is in the buffer.                                          *)
LEMMA PeekInside ==
    ASSUME Sources, NEW i \in Nat, peek(i) # "end"
    PROVE  i < End
BY DEF peek, Sources

(* The end of the buffer is a place, after at least no character.           *)
LEMMA EndIsPlace ==
    ASSUME Sources
    PROVE  End \in Nat \ {0}
BY DEF Sources, End

(* A literal ends in the buffer, closed or not.                             *)
LEMMA QuotedInside ==
    ASSUME Sources, NEW i \in 1 .. End, NEW quote, NEW kind, quote # "end"
    PROVE  /\ lex_quoted(i, quote, kind).end \in i .. End
           /\ lex_quoted(i, quote, kind).kind \in {kind, "other"}
<1> DEFINE S == {k \in i .. Len(text) : text[k] \in {quote, "\n"} /\ ~Escaped(i, k)}
           e == First(i, S)
<1>1. e \in i .. End
  BY FirstInRange
<1>2. peek(e) = quote => e < End
  BY DEF peek
<1>3. lex_quoted(i, quote, kind)
        = IF peek(e) = quote THEN Lexeme(kind, e + 1) ELSE Lexeme("other", e)
  BY DEF lex_quoted
<1> HIDE DEF e
<1> QED BY <1>1, <1>2, <1>3, EndIsPlace DEF Lexeme

(* The same of lex_string and lex_char.                                     *)
LEMMA LiteralInside ==
    ASSUME Sources, NEW i \in 1 .. End
    PROVE  /\ lex_string(i).end \in i .. End
           /\ lex_string(i).kind \in {"strlit", "other"}
           /\ lex_char(i).end \in i .. End
           /\ lex_char(i).kind \in {"charlit", "other"}
<1>1. "\"" # "end" /\ "'" # "end"
  BY Zenon
<1> QED BY <1>1, QuotedInside, Zenon DEF lex_string, lex_char

(* The suffixes of a number end in the buffer.                              *)
LEMMA SuffixedInside ==
    ASSUME Sources, NEW i \in 1 .. End, NEW is_float \in BOOLEAN
    PROVE  /\ Suffixed(is_float, i).end \in i .. End
           /\ Suffixed(is_float, i).kind \in {"intlit", "floatlit"}
BY RunInRange DEF Suffixed, Lexeme

(* The sign of an exponent is in the buffer, if there is one.               *)
LEMMA SignedInside ==
    ASSUME Sources, NEW i \in 1 .. End
    PROVE  Signed(i) \in i .. End
BY EndIsPlace DEF Signed, peek

(* A hexadecimal number ends in the buffer, with or without its exponent.   *)
LEMMA HexInside ==
    ASSUME Sources, NEW i \in 1 .. End
    PROVE  /\ HexNumber(i).end \in i .. End
           /\ HexNumber(i).kind \in {"intlit", "floatlit"}
<1> DEFINE whole == Run(i, HexDigits)
           point == peek(whole) = "."
           frac  == IF point THEN Run(whole + 1, HexDigits) ELSE whole
           exp   == peek(frac) \in {"p", "P"}
           last  == IF exp THEN Run(Signed(frac + 1), Digits) ELSE frac
<1>1. whole \in i .. End
  BY RunInRange
<1>2. point => whole + 1 \in i .. End
  BY <1>1, EndIsPlace DEF peek
<1>3. point => Run(whole + 1, HexDigits) \in i .. End
  <2> HIDE DEF whole
  <2> QED BY <1>1, <1>2, RunInRange, EndIsPlace
<1>4. frac \in i .. End
  BY <1>1, <1>3
<1> HIDE DEF frac
<1>5. exp => frac + 1 \in i .. End
  BY <1>4, EndIsPlace DEF peek
<1>6. exp => Signed(frac + 1) \in i .. End
  BY <1>4, <1>5, SignedInside, EndIsPlace
<1>7. exp => Run(Signed(frac + 1), Digits) \in i .. End
  BY <1>6, RunInRange, EndIsPlace
<1>8. last \in i .. End
  BY <1>4, <1>7
<1>9. HexNumber(i) = Suffixed(point \/ exp, last)
  BY DEF HexNumber, frac
<1> HIDE DEF last, exp, point
<1>10. (point \/ exp) \in BOOLEAN
  BY Zenon DEF point, exp
<1>11. last \in 1 .. End
  BY <1>8, EndIsPlace
<1>12. /\ Suffixed(point \/ exp, last).end \in last .. End
       /\ Suffixed(point \/ exp, last).kind \in {"intlit", "floatlit"}
  BY <1>10, <1>11, SuffixedInside
<1> QED BY <1>8, <1>9, <1>12, EndIsPlace

(* A decimal number ends in the buffer, and an exponent is passed only whole.*)
LEMMA DecInside ==
    ASSUME Sources, NEW i \in 1 .. End
    PROVE  /\ DecNumber(i).end \in i .. End
           /\ DecNumber(i).kind \in {"intlit", "floatlit"}
<1> DEFINE whole == Run(i, Digits)
           point == peek(whole) = "."
           frac  == IF point THEN Run(whole + 1, Digits) ELSE whole
           exp   == peek(frac) \in {"e", "E"} /\ peek(Signed(frac + 1)) \in Digits
           last  == IF exp THEN Run(Signed(frac + 1), Digits) ELSE frac
<1>1. whole \in i .. End
  BY RunInRange
<1>2. point => whole + 1 \in i .. End
  BY <1>1, EndIsPlace DEF peek
<1>3. point => Run(whole + 1, Digits) \in i .. End
  <2> HIDE DEF whole
  <2> QED BY <1>1, <1>2, RunInRange, EndIsPlace
<1>4. frac \in i .. End
  BY <1>1, <1>3
<1> HIDE DEF frac
<1>5. exp => frac + 1 \in i .. End
  BY <1>4, EndIsPlace DEF peek
<1>6. exp => Signed(frac + 1) \in i .. End
  BY <1>4, <1>5, SignedInside, EndIsPlace
<1>7. exp => Run(Signed(frac + 1), Digits) \in i .. End
  BY <1>6, RunInRange, EndIsPlace
<1>8. last \in i .. End
  BY <1>4, <1>7
<1>9. DecNumber(i) = Suffixed(point \/ exp, last)
  BY DEF DecNumber, frac
<1> HIDE DEF last, exp, point
<1>10. (point \/ exp) \in BOOLEAN
  BY Zenon DEF point, exp
<1>11. last \in 1 .. End
  BY <1>8, EndIsPlace
<1>12. /\ Suffixed(point \/ exp, last).end \in last .. End
       /\ Suffixed(point \/ exp, last).kind \in {"intlit", "floatlit"}
  BY <1>10, <1>11, SuffixedInside
<1> QED BY <1>8, <1>9, <1>12, EndIsPlace

(* lex_number takes at least one character.                                 *)
LEMMA NumberInside ==
    ASSUME Sources, NEW i \in 1 .. End, peek(i) \in Digits
    PROVE  /\ lex_number(i).end \in (i + 1) .. End
           /\ lex_number(i).kind \in {"intlit", "floatlit"}
<1>1. i + 1 \in 1 .. End
  BY EndIsPlace DEF peek, Digits
<1>2. CASE peek(i) = "0" /\ peek(i + 1) \in {"x", "X"}
  <2>1. i + 2 \in 1 .. End
    BY <1>1, <1>2, EndIsPlace DEF peek
  <2> QED BY <1>2, <2>1, HexInside, EndIsPlace DEF lex_number
<1>3. CASE ~(peek(i) = "0" /\ peek(i + 1) \in {"x", "X"})
  BY <1>1, <1>3, DecInside, EndIsPlace DEF lex_number
<1> QED BY <1>2, <1>3

(* lex_ident takes at least one character, also before a prefixed literal.  *)
LEMMA IdentInside ==
    ASSUME Sources, NEW i \in 1 .. End, peek(i) \in Letters
    PROVE  /\ lex_ident(i).end \in (i + 1) .. End
           /\ lex_ident(i).kind \in TokenKinds \ {"eof"}
<1> DEFINE e == Run(i, Letters \cup Digits)
           word == SubSeq(text, i, e - 1)
<1>1. i < End /\ text[i] \in Letters \cup Digits
  BY EndIsPlace DEF peek, Letters
<1>2. e \in (i + 1) .. End
  BY <1>1, RunInRange, EndIsPlace
<1>3. \/ lex_ident(i) \in {lex_string(e + 1), lex_char(e + 1)} /\ peek(e) # "end"
      \/ lex_ident(i) = Lexeme(IF word \in Keywords THEN "keyword" ELSE "ident", e)
  BY Zenon DEF lex_ident
<1> HIDE DEF e, word
<1>4. CASE lex_ident(i) \in {lex_string(e + 1), lex_char(e + 1)} /\ peek(e) # "end"
  <2>1. e + 1 \in (i + 1) .. End /\ e + 1 \in 1 .. End
    BY <1>2, <1>4, PeekInside, EndIsPlace
  <2> QED BY <1>4, <2>1, LiteralInside, EndIsPlace DEF TokenKinds
<1>5. CASE lex_ident(i) = Lexeme(IF word \in Keywords THEN "keyword" ELSE "ident", e)
  BY <1>2, <1>5 DEF Lexeme, TokenKinds
<1> QED BY <1>3, <1>4, <1>5

(* What may follow the first character of a punctuator is never the end    *)
(* of the source.                                                          *)
LEMMA FollowsRead ==
    ASSUME NEW c, NEW n \in DOMAIN Follow(c)
    PROVE  /\ Len(Follow(c)[n]) \in {1, 2}
           /\ Len(Follow(c)[n]) \in DOMAIN Follow(c)[n]
           /\ Follow(c)[n][Len(Follow(c)[n])] # "end"
<1> DEFINE Some == {<<".", ".">>, <<">">>, <<"-">>, <<"=">>, <<"#">>}
           Same == {<<c>>, <<c, "=">>}
<1>1. ASSUME NEW s \in Some
      PROVE  Len(s) \in {1, 2} /\ Len(s) \in DOMAIN s /\ s[Len(s)] # "end"
  OBVIOUS
<1>2. ASSUME NEW s \in Same, c # "end"
      PROVE  Len(s) \in {1, 2} /\ Len(s) \in DOMAIN s /\ s[Len(s)] # "end"
  BY <1>2
<1>3. CASE c = "."
  <2>1. Follow(c) = << <<".", ".">> >>
    BY <1>3, Zenon DEF Follow, Equal
  <2> QED BY <1>1, <2>1
<1>4. CASE c = "-"
  <2>1. Follow(c) = << <<">">>, <<"-">>, <<"=">> >>
    BY <1>4, Zenon DEF Follow, Equal
  <2>2. n \in {1, 2, 3}
    BY <2>1
  <2> QED BY <1>1, <2>1, <2>2
<1>5. CASE c \in {"+", "&", "|"}
  <2>1. Follow(c) = << <<c>>, <<"=">> >>
    BY <1>5, Zenon DEF Follow, Equal
  <2>2. n \in {1, 2}
    BY <2>1
  <2>3. c # "end"
    BY <1>5
  <2>4. Follow(c)[n] \in Some \cup Same
    BY <2>1, <2>2
  <2> HIDE DEF Some, Same
  <2> QED BY <1>1, <1>2, <2>3, <2>4
<1>6. CASE c \in {"<", ">"}
  <2>1. Follow(c) = << <<c, "=">>, <<c>>, <<"=">> >>
    BY <1>6, Zenon DEF Follow, Equal
  <2>2. n \in {1, 2, 3}
    BY <2>1
  <2>3. c # "end"
    BY <1>6
  <2>4. Follow(c)[n] \in Some \cup Same
    BY <2>1, <2>2
  <2> HIDE DEF Some, Same
  <2> QED BY <1>1, <1>2, <2>3, <2>4
<1>7. CASE c \in Equal
  <2>1. Follow(c) = << <<"=">> >>
    BY <1>7, Zenon DEF Follow, Equal
  <2> QED BY <1>1, <2>1
<1>8. CASE c = "#"
  <2>1. Follow(c) = << <<"#">> >>
    BY <1>8, Zenon DEF Follow, Equal
  <2> QED BY <1>1, <2>1
<1>9. CASE c \notin {".", "-", "+", "&", "|", "<", ">", "#"} \cup Equal
  <2>1. Follow(c) = << >>
    BY <1>9, Zenon DEF Follow, Equal
  <2> QED BY <2>1
<1> QED BY <1>3, <1>4, <1>5, <1>6, <1>7, <1>8, <1>9

(* lex_punct takes at least one character and none after the end.           *)
LEMMA PunctInside ==
    ASSUME Sources, NEW i \in 1 .. End, i < End
    PROVE  /\ lex_punct(i).end \in (i + 1) .. End
           /\ lex_punct(i).kind \in {"punct", "other"}
<1> DEFINE alts == Follow(peek(i))
           hits == {k \in DOMAIN alts : Reads(alts[k], i + 1)}
           best == CHOOSE k \in hits : \A j \in hits : k <= j
<1>1. \/ lex_punct(i) = Lexeme("other", i + 1)
      \/ lex_punct(i) = Lexeme("punct", i + 1)
      \/ hits # {} /\ lex_punct(i) = Lexeme("punct", i + 1 + Len(alts[best]))
  BY DEF lex_punct
<1>2. CASE lex_punct(i) \in {Lexeme("other", i + 1), Lexeme("punct", i + 1)}
  BY <1>2, EndIsPlace DEF Lexeme
<1>3. CASE hits # {} /\ lex_punct(i) = Lexeme("punct", i + 1 + Len(alts[best]))
  <2>1. DOMAIN alts \in SUBSET Nat
    BY DEF Follow
  <2>2. best \in hits
    <3>1. hits \in SUBSET Nat
      BY <2>1
    <3>2. PICK k \in hits : \A j \in hits : k <= j
      BY <1>3, <3>1, HasSmallest
    <3> HIDE DEF hits
    <3> QED BY <3>2
  <2> HIDE DEF best
  <2>3. best \in DOMAIN alts /\ Reads(alts[best], i + 1)
    BY <2>2
  <2> DEFINE s == alts[best]
  <2>4. Len(s) \in {1, 2} /\ Len(s) \in DOMAIN s /\ s[Len(s)] # "end"
    BY <2>3, FollowsRead
  <2>6. peek(i + 1 + Len(s) - 1) = s[Len(s)]
    BY <2>3, <2>4 DEF Reads
  <2> HIDE DEF s
  <2>7. i + 1 + Len(s) - 1 < End
    BY <2>4, <2>6, PeekInside, EndIsPlace
  <2>8. i + 1 + Len(s) \in (i + 1) .. End
    BY <2>4, <2>7, EndIsPlace
  <2>9. lex_punct(i) = Lexeme("punct", i + 1 + Len(s))
    BY <1>3 DEF s
  <2> QED BY <2>8, <2>9 DEF Lexeme
<1> QED BY <1>1, <1>2, <1>3

(* A token is not empty and ends in the buffer.                            *)
LEMMA TokenInside ==
    ASSUME Sources, NEW i \in 1 .. End, i < End
    PROVE  /\ lex(i).end \in (i + 1) .. End
           /\ lex(i).kind \in TokenKinds \ {"eof"}
<1>1. CASE peek(i) \in Letters
  <2>1. lex(i) = lex_ident(i)
    BY <1>1, Zenon DEF lex, Letters, Digits
  <2> QED BY <1>1, <2>1, IdentInside
<1>2. CASE peek(i) \in Digits
  <2>1. lex(i) = lex_number(i)
    BY <1>2, Zenon DEF lex, Letters, Digits
  <2> QED BY <1>2, <2>1, NumberInside DEF TokenKinds
<1>3. CASE peek(i) \in {"\"", "'"}
  <2>1. lex(i) \in {lex_string(i + 1), lex_char(i + 1)}
    BY <1>3, Zenon DEF lex, Letters, Digits
  <2>2. i + 1 \in 1 .. End
    BY EndIsPlace
  <2> QED BY <2>1, <2>2, LiteralInside DEF TokenKinds
<1>4. CASE peek(i) \notin Letters \cup Digits \cup {"\"", "'"}
  <2>1. lex(i) = lex_punct(i)
    BY <1>4, Zenon DEF lex
  <2> QED BY <2>1, PunctInside DEF TokenKinds
<1> QED BY <1>1, <1>2, <1>3, <1>4

-----------------------------------------------------------------------------
(* Where a token that has been made begins and ends.                        *)
LEMMA TokensTyped ==
    ASSUME TypeOK, NEW k \in DOMAIN toks
    PROVE  /\ toks[k] \in TokenType
           /\ toks[k].start \in Nat /\ toks[k].len \in Nat /\ EndOf(k) \in Nat
<1>1. toks[k] \in TokenType
  BY DEF TypeOK
<1>2. toks[k].start \in Nat /\ toks[k].len \in Nat
  BY <1>1 DEF TokenType
<1> QED BY <1>1, <1>2 DEF EndOf

(* The steps of skip_trivia make no token.                                 *)
LEMMA TriviaTyped ==
    ASSUME TypeOK, UNCHANGED <<text, toks>>,
           cur' \in cur .. End, line' \in Nat, line_start' \in 1 .. cur',
           had_error' \in BOOLEAN
    PROVE  TypeOK'
<1>1. cur \in 1 .. End /\ End \in Nat /\ End' = End
  BY EndIsPlace DEF TypeOK, Sources, End
<1>2. \A k \in DOMAIN toks : EndOf(k) \in Nat /\ EndOf(k)' = EndOf(k)
  BY TokensTyped DEF EndOf
<1>3. \A k \in DOMAIN toks : EndOf(k) <= cur'
  BY <1>1, <1>2 DEF TypeOK
<1>4. \A k \in DOMAIN toks : k > 1 => k - 1 \in DOMAIN toks
  BY DEF TypeOK
<1> QED BY <1>1, <1>2, <1>3, <1>4 DEF TypeOK, EndOf

(* A token that begins where the lexer is and ends where it will be.       *)
LEMMA TokenTyped ==
    ASSUME TypeOK, ~Ended, UNCHANGED <<text, line, line_start>>,
           NEW kind \in TokenKinds, NEW e \in cur .. End, cur' = e,
           kind = "eof" <=> e = cur,
           toks' = Append(toks, make_token(kind, cur, e)),
           had_error' \in BOOLEAN
    PROVE  TypeOK'
<1>0. PICK n \in Nat : n = Len(toks) + 1
  BY DEF TypeOK
<1>1. cur \in 1 .. End /\ End \in Nat /\ End' = End /\ e \in 1 .. End
  BY EndIsPlace DEF TypeOK, Sources, End
<1>2. PICK t : t = make_token(kind, cur, e)
  OBVIOUS
<1>3. /\ t.kind = kind /\ t.start = cur /\ t.len = e - cur
      /\ t.line = line /\ t.col = cur - line_start + 1
  BY <1>2 DEF make_token
<1>4. t \in TokenType
  <2>1. line \in Nat /\ line_start \in 1 .. cur
    BY DEF TypeOK
  <2>3. e - cur \in Nat /\ cur - line_start + 1 \in Nat /\ line \in Nat /\ cur \in Nat
    BY <1>1, <2>1
  <2> QED BY <1>2, <2>3 DEF make_token, TokenType
<1>5. t.start + t.len = e /\ (t.len = 0 <=> kind = "eof")
  <2>1. cur \in Int /\ e \in Int
    BY <1>1
  <2>2. cur + (e - cur) = e /\ (e - cur = 0 <=> e = cur)
    BY <2>1
  <2>3. kind = "eof" <=> e = cur
    OBVIOUS
  <2> QED BY <1>3, <2>2, <2>3
<1>6. /\ toks' \in Seq(TokenType)
      /\ DOMAIN toks = 1 .. (n - 1) /\ DOMAIN toks' = 1 .. n /\ Len(toks') = n
      /\ toks'[n] = t /\ \A k \in DOMAIN toks : toks'[k] = toks[k]
  BY <1>0, <1>2, <1>4 DEF TypeOK
<1>7. EndOf(n)' = e
  BY <1>5, <1>6 DEF EndOf
<1>8. \A k \in DOMAIN toks : EndOf(k)' = EndOf(k) /\ EndOf(k) \in Nat /\ EndOf(k) <= cur
  BY <1>6, TokensTyped DEF TypeOK, EndOf
<1>9. \A k \in DOMAIN toks : toks[k].kind # "eof"
  BY DEF Ended
<1>10. ASSUME NEW k \in DOMAIN toks'
       PROVE  /\ EndOf(k)' <= e
              /\ toks'[k].kind = "eof" <=> toks'[k].len = 0
              /\ toks'[k].kind = "eof" => k = Len(toks')
              /\ k > 1 => EndOf(k - 1)' <= toks'[k].start
  <2>1. CASE k = n
    <3>1. k > 1 => k - 1 \in DOMAIN toks
      BY <1>0, <1>6, <2>1
    <3>2. k > 1 => EndOf(k - 1)' <= cur
      BY <1>8, <3>1
    <3>3. EndOf(k)' <= e
      BY <1>1, <1>7, <2>1
    <3> QED BY <1>3, <1>5, <1>6, <2>1, <3>2, <3>3
  <2>2. CASE k \in DOMAIN toks
    <3>1. k > 1 => k - 1 \in DOMAIN toks
      BY <1>0, <1>6, <2>2
    <3>2. k > 1 => EndOf(k - 1)' <= toks'[k].start
      BY <1>6, <1>8, <2>2, <3>1 DEF TypeOK
    <3>3. EndOf(k)' <= e
      BY <1>1, <1>8, <2>2
    <3>4. toks'[k].kind = "eof" <=> toks'[k].len = 0
      BY <1>6, <2>2 DEF TypeOK
    <3>5. toks'[k].kind # "eof"
      BY <1>6, <1>9, <2>2
    <3> QED BY <3>2, <3>3, <3>4, <3>5
  <2> QED BY <1>0, <1>6, <2>1, <2>2
<1> QED BY <1>1, <1>6, <1>10 DEF TypeOK, EndOf

(* The lexer starts inside its buffer.                                      *)
LEMMA InitTyped == Init => TypeOK
<1> SUFFICES ASSUME Init PROVE TypeOK
  OBVIOUS
<1>1. text \in Seq(STRING)
  BY LexerAssumption DEF Init
<1>2. 1 \in 1 .. End
  BY <1>1, EndIsPlace DEF Sources
<1>3. toks = <<>> /\ toks \in Seq(TokenType) /\ DOMAIN toks = {}
  BY DEF Init
<1>4. /\ cur = 1 /\ line \in Nat /\ line_start = 1 /\ had_error \in BOOLEAN
  BY DEF Init
<1> QED BY <1>1, <1>2, <1>3, <1>4 DEF TypeOK

(* And each of its steps leaves it there.                                   *)
LEMMA NextTyped == TypeOK /\ [Next]_vars => TypeOK'
<1> SUFFICES ASSUME TypeOK, [Next]_vars PROVE TypeOK'
  OBVIOUS
<1>0. /\ Sources /\ cur \in 1 .. End /\ End \in Nat /\ line \in Nat
      /\ line_start \in 1 .. cur /\ had_error \in BOOLEAN
  BY EndIsPlace DEF TypeOK, Sources
<1>1. ASSUME Blank PROVE TypeOK'
  <2>1. peek(cur) # "end"
    BY <1>1, Zenon DEF Blank, Blanks
  <2>2. cur < End
    BY <1>0, <2>1, PeekInside
  <2> QED BY <1>0, <1>1, <2>2, TriviaTyped DEF Blank
<1>2. ASSUME Newline PROVE TypeOK'
  <2>1. peek(cur) # "end"
    BY <1>2, Zenon DEF Newline
  <2>2. cur < End
    BY <1>0, <2>1, PeekInside
  <2> QED BY <1>0, <1>2, <2>2, TriviaTyped DEF Newline, newline
<1>3. ASSUME Splice PROVE TypeOK'
  <2>1. \/ SpliceEnd(cur) = cur + 2 /\ peek(cur + 1) # "end"
        \/ SpliceEnd(cur) = cur + 3 /\ peek(cur + 2) # "end"
        \/ SpliceEnd(cur) = cur
    BY Zenon DEF SpliceEnd
  <2>2. SpliceEnd(cur) \in (cur + 1) .. End
    BY <1>0, <1>3, <2>1, PeekInside DEF Splice
  <2> QED BY <1>0, <1>3, <2>2, TriviaTyped DEF Splice, newline
<1>4. ASSUME LineComment PROVE TypeOK'
  <2>1. peek(cur + 1) # "end"
    BY <1>4, Zenon DEF LineComment
  <2>2. cur + 2 \in 1 .. End
    BY <1>0, <2>1, PeekInside
  <2>3. cur' \in (cur + 2) .. End
    BY <1>4, <1>0, <2>2, FirstInRange DEF LineComment
  <2> QED BY <1>0, <1>4, <2>3, TriviaTyped DEF LineComment
<1>5. ASSUME BlockComment PROVE TypeOK'
  <2> DEFINE close == First(cur + 2, Closings)
             nls == Newlines(cur + 2, close)
  <2>1. peek(cur + 1) # "end"
    BY <1>5, Zenon DEF BlockComment
  <2>2. cur + 2 \in 1 .. End
    BY <1>0, <2>1, PeekInside
  <2>3. close \in (cur + 2) .. End /\ (close = End \/ close \in Closings)
    BY <1>0, <2>2, FirstInRange
  <2>4. close \in Closings => peek(close + 1) # "end"
    BY Zenon DEF Closings
  <2> HIDE DEF close
  <2>5. close < End => close + 2 <= End
    BY <1>0, <2>3, <2>4, PeekInside
  <2>6. nls \in SUBSET ((cur + 2) .. (close - 1))
    BY DEF Newlines
  <2>7. Cardinality(nls) \in Nat
    <3>1. IsFiniteSet((cur + 2) .. (close - 1))
      BY <1>0, <2>3, FS_Interval
    <3> QED BY <2>6, <3>1, FS_Subset, FS_CardinalityType
  <2>8. nls # {} => Latest(nls) \in (cur + 2) .. (close - 1)
    <3> HIDE DEF nls
    <3>1. cur + 2 \in Nat /\ close - 1 \in Nat
      BY <1>0, <2>3
    <3> QED BY <2>6, <3>1, LatestHas
  <2>9. /\ cur' = IF close < End THEN close + 2 ELSE End
        /\ had_error' = (close = End)
        /\ line' = line + Cardinality(nls)
        /\ line_start' = IF nls = {} THEN line_start ELSE Latest(nls)
        /\ UNCHANGED <<text, toks>>
    BY <1>5 DEF BlockComment, close
  <2> HIDE DEF nls
  <2>10. cur' \in cur .. End /\ close <= cur'
    BY <1>0, <2>3, <2>5, <2>9
  <2>11. line' \in Nat /\ line_start' \in 1 .. cur'
    BY <1>0, <2>3, <2>7, <2>8, <2>9, <2>10
  <2>12. had_error' \in BOOLEAN
    BY <2>9
  <2> QED BY <2>9, <2>10, <2>11, <2>12, TriviaTyped
<1>6. ASSUME Token PROVE TypeOK'
  <2>1. lex(cur).end \in (cur + 1) .. End /\ lex(cur).kind \in TokenKinds \ {"eof"}
    BY <1>0, <1>6, TokenInside DEF Token
  <2>2. /\ ~Ended /\ UNCHANGED <<text, line, line_start>> /\ cur' = lex(cur).end
        /\ toks' = Append(toks, make_token(lex(cur).kind, cur, lex(cur).end))
        /\ had_error' = (lex(cur).kind = "other")
    BY <1>6 DEF Token, Going
  <2>3. had_error' \in BOOLEAN
    BY <2>2
  <2> QED BY <1>0, <2>1, <2>2, <2>3, TokenTyped
<1>7. ASSUME Eof PROVE TypeOK'
  <2>1. "eof" \in TokenKinds
    BY DEF TokenKinds
  <2> QED BY <1>0, <1>7, <2>1, TokenTyped DEF Eof
<1>8. ASSUME UNCHANGED vars PROVE TypeOK'
  BY <1>0, <1>8, TriviaTyped DEF vars
<1> QED BY <1>1, <1>2, <1>3, <1>4, <1>5, <1>6, <1>7, <1>8 DEF Next

(* Whatever the source, cur stays between the first character and the end  *)
(* of the buffer, and the tokens follow one another in it, none of them    *)
(* empty but an EOF, which is the last: no lex_* function (Lexer.c:344-579)*)
(* passes the terminator of the buffer that peek stops at.                 *)
THEOREM LexerStaysInBuffer == Spec => []TypeOK
<1> QED BY InitTyped, NextTyped, PTL DEF Spec


-----------------------------------------------------------------------------
(* Tokens are only ever added, and one at a time: what is said of each     *)
(* token can be shown where it is made.                                    *)
Fresh(k) ==
    /\ k = Len(toks) + 1 /\ toks'[k].start = cur
    /\ \/ toks'[k].kind = "eof" /\ EndOf(k)' = cur
       \/ /\ cur < End /\ toks'[k].kind = lex(cur).kind /\ EndOf(k)' = lex(cur).end

LEMMA MadeAt ==
    ASSUME TypeOK, NEW kind, NEW e \in Nat, NEW n, n = Len(toks) + 1,
           toks' = Append(toks, make_token(kind, cur, e))
    PROVE  /\ DOMAIN toks' = DOMAIN toks \cup {n}
           /\ \A k \in DOMAIN toks : toks'[k] = toks[k]
           /\ toks'[n].start = cur /\ toks'[n].kind = kind
           /\ EndOf(n)' = e
<1>1. PICK t : t = make_token(kind, cur, e)
  OBVIOUS
<1>2. t.start = cur /\ t.len = e - cur /\ t.kind = kind
  BY <1>1 DEF make_token
<1>3. cur \in Nat
  BY EndIsPlace DEF TypeOK, Sources
<1>4. cur + (e - cur) = e
  BY <1>3
<1>5. toks' = Append(toks, t) /\ toks \in Seq(TokenType)
  BY <1>1 DEF TypeOK
<1>6. /\ DOMAIN toks' = DOMAIN toks \cup {n}
      /\ \A k \in DOMAIN toks : toks'[k] = toks[k]
      /\ toks'[n] = t
  BY <1>5
<1> QED BY <1>2, <1>4, <1>6 DEF EndOf

LEMMA TokensGrow ==
    ASSUME TypeOK, [Next]_vars
    PROVE  /\ text' = text
           /\ \A k \in DOMAIN toks :
                 k \in DOMAIN toks' /\ toks'[k] = toks[k] /\ EndOf(k)' = EndOf(k)
           /\ \A k \in DOMAIN toks' \ DOMAIN toks : Fresh(k)
<1>0. Sources /\ cur \in 1 .. End /\ End \in Nat
  BY EndIsPlace DEF TypeOK, Sources
<1>1. CASE UNCHANGED <<text, toks>>
  BY <1>1 DEF EndOf
<1>2. CASE Token
  <2>1. lex(cur).end \in (cur + 1) .. End
    BY <1>0, <1>2, TokenInside DEF Token
  <2>2. lex(cur).end \in Nat
    BY <1>0, <2>1
  <2>3. toks' = Append(toks, make_token(lex(cur).kind, cur, lex(cur).end)) /\ text' = text
    BY <1>2 DEF Token
  <2>4. PICK n : n = Len(toks) + 1
    OBVIOUS
  <2>5. /\ DOMAIN toks' = DOMAIN toks \cup {n}
        /\ \A k \in DOMAIN toks : toks'[k] = toks[k]
        /\ toks'[n].start = cur /\ toks'[n].kind = lex(cur).kind
        /\ EndOf(n)' = lex(cur).end
    BY <2>2, <2>3, <2>4, MadeAt
  <2>6. cur < End
    BY <1>2 DEF Token
  <2> QED BY <2>3, <2>4, <2>5, <2>6 DEF Fresh, EndOf
<1>3. CASE Eof
  <2>1. toks' = Append(toks, make_token("eof", cur, cur)) /\ text' = text
    BY <1>3 DEF Eof
  <2>2. cur \in Nat
    BY <1>0
  <2>4. PICK n : n = Len(toks) + 1
    OBVIOUS
  <2>5. /\ DOMAIN toks' = DOMAIN toks \cup {n}
        /\ \A k \in DOMAIN toks : toks'[k] = toks[k]
        /\ toks'[n].start = cur /\ toks'[n].kind = "eof" /\ EndOf(n)' = cur
    BY <2>1, <2>2, <2>4, MadeAt
  <2> QED BY <2>1, <2>4, <2>5 DEF Fresh, EndOf
<1> QED BY <1>1, <1>2, <1>3
    DEF Next, vars, Blank, Newline, Splice, LineComment, BlockComment

(* Only lex_punct makes punctuators, and only lex_number numbers.           *)
LEMMA KindOfMaker ==
    ASSUME Sources, NEW i \in 1 .. End, i < End
    PROVE  /\ lex(i).kind = "punct" => lex(i) = lex_punct(i)
           /\ lex(i).kind \in {"intlit", "floatlit"}
                 => lex(i) = lex_number(i) /\ peek(i) \in Digits
           /\ lex(i).kind \in {"strlit", "charlit"}
                 => \/ peek(i) \in Letters /\ lex(i) = lex_ident(i)
                    \/ peek(i) = "\"" /\ lex(i) = lex_string(i + 1)
                    \/ peek(i) = "'" /\ lex(i) = lex_char(i + 1)
<1>0. i + 1 \in 1 .. End
  BY EndIsPlace
<1>1. CASE peek(i) \in Letters
  <2>1. lex(i) = lex_ident(i)
    BY <1>1, Zenon DEF lex, Letters, Digits
  <2> DEFINE e == Run(i, Letters \cup Digits)
             word == SubSeq(text, i, e - 1)
  <2>2. \/ lex_ident(i) \in {lex_string(e + 1), lex_char(e + 1)} /\ peek(e) # "end"
        \/ lex_ident(i) = Lexeme(IF word \in Keywords THEN "keyword" ELSE "ident", e)
    BY Zenon DEF lex_ident
  <2>3. e \in i .. End
    BY RunInRange
  <2> HIDE DEF e, word
  <2>4. peek(e) # "end" => e + 1 \in 1 .. End
    BY <2>3, PeekInside, EndIsPlace
  <2>5. lex_ident(i).kind \in {"keyword", "ident", "strlit", "charlit", "other"}
    BY <2>2, <2>4, LiteralInside DEF Lexeme
  <2> QED BY <1>1, <2>1, <2>5
<1>2. CASE peek(i) \in Digits
  <2>1. lex(i) = lex_number(i)
    BY <1>2, Zenon DEF lex, Letters, Digits
  <2> QED BY <1>2, <2>1, NumberInside
<1>3. CASE peek(i) \in {"\"", "'"}
  <2>1. \/ peek(i) = "\"" /\ lex(i) = lex_string(i + 1)
        \/ peek(i) = "'" /\ lex(i) = lex_char(i + 1)
    BY <1>3, Zenon DEF lex, Letters, Digits
  <2>2. lex(i).kind \in {"strlit", "charlit", "other"}
    BY <1>0, <2>1, LiteralInside
  <2> QED BY <2>1, <2>2
<1>4. CASE peek(i) \notin Letters \cup Digits \cup {"\"", "'"}
  <2>1. lex(i) = lex_punct(i)
    BY <1>4, Zenon DEF lex
  <2> QED BY <2>1, PunctInside
<1> QED BY <1>1, <1>2, <1>3, <1>4

-----------------------------------------------------------------------------
(* Punctuators.                                                            *)

(* s is the character c and then f.                                        *)
Spells(s, c, f) ==
    /\ Len(s) = Len(f) + 1 /\ s[1] = c
    /\ \A j \in DOMAIN f : s[j + 1] = f[j]

(* What follows a first character is tried longest first.                  *)
LEMMA FollowLongestFirst ==
    ASSUME NEW c, NEW k \in DOMAIN Follow(c), NEW j \in DOMAIN Follow(c), k <= j
    PROVE  Len(Follow(c)[j]) <= Len(Follow(c)[k])
<1>1. CASE c = "."
  <2>1. Follow(c) = << <<".", ".">> >>
    BY <1>1, Zenon DEF Follow, Equal
  <2> QED BY <2>1
<1>2. CASE c = "-"
  <2>1. Follow(c) = << <<">">>, <<"-">>, <<"=">> >>
    BY <1>2, Zenon DEF Follow, Equal
  <2>2. j \in {1, 2, 3} /\ k \in {1, 2, 3}
    BY <2>1
  <2>3. Len(Follow(c)[j]) = 1 /\ Len(Follow(c)[k]) = 1
    BY <2>1, <2>2
  <2> QED BY <2>3
<1>3. CASE c \in {"+", "&", "|"}
  <2>1. Follow(c) = << <<c>>, <<"=">> >>
    BY <1>3, Zenon DEF Follow, Equal
  <2>2. j \in {1, 2} /\ k \in {1, 2}
    BY <2>1
  <2>3. Len(Follow(c)[j]) = 1 /\ Len(Follow(c)[k]) = 1
    BY <2>1, <2>2
  <2> QED BY <2>3
<1>4. CASE c \in {"<", ">"}
  <2>1. Follow(c) = << <<c, "=">>, <<c>>, <<"=">> >>
    BY <1>4, Zenon DEF Follow, Equal
  <2>2. j \in {1, 2, 3} /\ k \in {1, 2, 3}
    BY <2>1
  <2>3. /\ Len(Follow(c)[1]) = 2 /\ Len(Follow(c)[2]) = 1 /\ Len(Follow(c)[3]) = 1
    BY <2>1
  <2>4. Len(Follow(c)[k]) \in {1, 2} /\ (k = 1 => Len(Follow(c)[k]) = 2)
    BY <2>2, <2>3
  <2>5. Len(Follow(c)[j]) \in {1, 2} /\ (j # 1 => Len(Follow(c)[j]) = 1)
    BY <2>2, <2>3
  <2>6. j = 1 => k = 1
    BY <2>2
  <2>7. PICK x \in {1, 2} : x = Len(Follow(c)[k]) /\ (k = 1 => x = 2)
    BY <2>4
  <2>8. PICK y \in {1, 2} : y = Len(Follow(c)[j]) /\ (j # 1 => y = 1)
    BY <2>5
  <2>9. y <= x
    BY <2>6, <2>7, <2>8
  <2> QED BY <2>7, <2>8, <2>9
<1>5. CASE c \in Equal
  <2>1. Follow(c) = << <<"=">> >>
    BY <1>5, Zenon DEF Follow, Equal
  <2> QED BY <2>1
<1>6. CASE c = "#"
  <2>1. Follow(c) = << <<"#">> >>
    BY <1>6, Zenon DEF Follow, Equal
  <2> QED BY <2>1
<1>7. CASE c \notin {".", "-", "+", "&", "|", "<", ">", "#"} \cup Equal
  <2>1. Follow(c) = << >>
    BY <1>7, Zenon DEF Follow, Equal
  <2> QED BY <2>1
<1> QED BY <1>1, <1>2, <1>3, <1>4, <1>5, <1>6, <1>7

(* The spellings are the punctuators alone and with each of what is tried   *)
(* after them.                                                             *)
LEMMA SpellingsFollow ==
    ASSUME NEW s \in Spellings
    PROVE  \/ Len(s) = 1
           \/ \E k \in DOMAIN Follow(s[1]) : Spells(s, s[1], Follow(s[1])[k])
<1>1. CASE \E c \in Punctuators : s = <<c>>
  BY <1>1
<1>2. CASE \E c \in Equal \cup {"+", "-", "&", "|", "<", ">"} : s = <<c, "=">>
  <2>1. PICK c \in Equal \cup {"+", "-", "&", "|", "<", ">"} : s = <<c, "=">>
    BY <1>2
  <2>2. s[1] = c /\ Spells(s, c, <<"=">>)
    BY <2>1 DEF Spells, Equal
  <2>3. \E k \in DOMAIN Follow(c) : Follow(c)[k] = <<"=">>
    <3>1. CASE c = "-"
      <4>1. Follow(c) = << <<">">>, <<"-">>, <<"=">> >>
        BY <3>1, Zenon DEF Follow, Equal
      <4> QED BY <4>1
    <3>2. CASE c \in {"+", "&", "|"}
      <4>1. Follow(c) = << <<c>>, <<"=">> >>
        BY <3>2, Zenon DEF Follow, Equal
      <4> QED BY <4>1
    <3>3. CASE c \in {"<", ">"}
      <4>1. Follow(c) = << <<c, "=">>, <<c>>, <<"=">> >>
        BY <3>3, Zenon DEF Follow, Equal
      <4> QED BY <4>1
    <3>4. CASE c \in Equal
      <4>1. Follow(c) = << <<"=">> >>
        BY <3>4, Zenon DEF Follow, Equal
      <4> QED BY <4>1
    <3> QED BY <3>1, <3>2, <3>3, <3>4
  <2> QED BY <2>2, <2>3
<1>3. CASE \E c \in {"+", "-", "&", "|", "<", ">", "#"} : s = <<c, c>>
  <2>1. PICK c \in {"+", "-", "&", "|", "<", ">", "#"} : s = <<c, c>>
    BY <1>3
  <2>2. s[1] = c /\ Spells(s, c, <<c>>)
    BY <2>1 DEF Spells
  <2>3. \E k \in DOMAIN Follow(c) : Follow(c)[k] = <<c>>
    <3>1. CASE c = "-"
      <4>1. Follow(c) = << <<">">>, <<"-">>, <<"=">> >>
        BY <3>1, Zenon DEF Follow, Equal
      <4> QED BY <3>1, <4>1
    <3>2. CASE c \in {"+", "&", "|"}
      <4>1. Follow(c) = << <<c>>, <<"=">> >>
        BY <3>2, Zenon DEF Follow, Equal
      <4> QED BY <4>1
    <3>3. CASE c \in {"<", ">"}
      <4>1. Follow(c) = << <<c, "=">>, <<c>>, <<"=">> >>
        BY <3>3, Zenon DEF Follow, Equal
      <4> QED BY <4>1
    <3>4. CASE c = "#"
      <4>1. Follow(c) = << <<"#">> >>
        BY <3>4, Zenon DEF Follow, Equal
      <4> QED BY <3>4, <4>1
    <3> QED BY <2>1, <3>1, <3>2, <3>3, <3>4
  <2> QED BY <2>2, <2>3
<1>4. CASE s \in {<<"<", "<", "=">>, <<">", ">", "=">>}
  <2>1. PICK c \in {"<", ">"} : s = <<c, c, "=">>
    BY <1>4
  <2>2. s[1] = c /\ Spells(s, c, <<c, "=">>)
    BY <2>1 DEF Spells
  <2>3. Follow(c) = << <<c, "=">>, <<c>>, <<"=">> >>
    BY <2>1, Zenon DEF Follow, Equal
  <2> QED BY <2>2, <2>3
<1>5. CASE s = <<"-", ">">>
  <2>1. Follow("-") = << <<">">>, <<"-">>, <<"=">> >>
    BY Zenon DEF Follow, Equal
  <2>2. s[1] = "-" /\ Spells(s, "-", <<">">>)
    BY <1>5 DEF Spells
  <2> QED BY <2>1, <2>2
<1>6. CASE s = <<".", ".", ".">>
  <2>1. Follow(".") = << <<".", ".">> >>
    BY Zenon DEF Follow, Equal
  <2>2. s[1] = "." /\ Spells(s, ".", <<".", ".">>)
    BY <1>6 DEF Spells
  <2> QED BY <2>1, <2>2
<1> QED BY <1>1, <1>2, <1>3, <1>4, <1>5, <1>6 DEF Spellings

(* And each of these is a spelling.                                        *)
LEMMA FollowedSpelling ==
    ASSUME NEW c \in Punctuators, NEW k \in DOMAIN Follow(c)
    PROVE  LET f == Follow(c)[k]
           IN \/ Len(f) = 1 /\ <<c, f[1]>> \in Spellings
              \/ Len(f) = 2 /\ <<c, f[1], f[2]>> \in Spellings
<1>1. CASE c = "."
  <2>1. Follow(c) = << <<".", ".">> >>
    BY <1>1, Zenon DEF Follow, Equal
  <2> QED BY <1>1, <2>1 DEF Spellings
<1>2. CASE c = "-"
  <2>1. Follow(c) = << <<">">>, <<"-">>, <<"=">> >>
    BY <1>2, Zenon DEF Follow, Equal
  <2>2. <<"-", ">">> \in Spellings /\ <<"-", "-">> \in Spellings /\ <<"-", "=">> \in Spellings
    BY DEF Spellings
  <2>3. k \in {1, 2, 3}
    BY <2>1
  <2> QED BY <1>2, <2>1, <2>2, <2>3
<1>3. CASE c \in {"+", "&", "|"}
  <2>1. Follow(c) = << <<c>>, <<"=">> >>
    BY <1>3, Zenon DEF Follow, Equal
  <2>2. <<c, c>> \in Spellings /\ <<c, "=">> \in Spellings
    BY <1>3 DEF Spellings
  <2>3. k \in {1, 2}
    BY <2>1
  <2> QED BY <2>1, <2>2, <2>3
<1>4. CASE c \in {"<", ">"}
  <2>1. Follow(c) = << <<c, "=">>, <<c>>, <<"=">> >>
    BY <1>4, Zenon DEF Follow, Equal
  <2>2. <<c, c>> \in Spellings /\ <<c, "=">> \in Spellings /\ <<c, c, "=">> \in Spellings
    BY <1>4 DEF Spellings
  <2>3. k \in {1, 2, 3}
    BY <2>1
  <2> QED BY <2>1, <2>2, <2>3
<1>5. CASE c \in Equal
  <2>1. Follow(c) = << <<"=">> >>
    BY <1>5, Zenon DEF Follow, Equal
  <2>2. <<c, "=">> \in Spellings
    BY <1>5 DEF Spellings
  <2> QED BY <2>1, <2>2
<1>6. CASE c = "#"
  <2>1. Follow(c) = << <<"#">> >>
    BY <1>6, Zenon DEF Follow, Equal
  <2> QED BY <1>6, <2>1 DEF Spellings
<1>7. CASE c \notin {".", "-", "+", "&", "|", "<", ">", "#"} \cup Equal
  <2>1. Follow(c) = << >>
    BY <1>7, Zenon DEF Follow, Equal
  <2> QED BY <2>1
<1> QED BY <1>1, <1>2, <1>3, <1>4, <1>5, <1>6, <1>7

(* Short sequences, element by element.                                    *)
LEMMA ShortTuples ==
    ASSUME NEW S, NEW f \in Seq(S)
    PROVE  /\ Len(f) = 1 => f = <<f[1]>>
           /\ Len(f) = 2 => f = <<f[1], f[2]>>
           /\ Len(f) = 3 => f = <<f[1], f[2], f[3]>>
<1>1. Len(f) = 1 => f = <<f[1]>>
  OBVIOUS
<1>2. Len(f) = 2 => f = <<f[1], f[2]>>
  OBVIOUS
<1>3. Len(f) = 3 => f = <<f[1], f[2], f[3]>>
  OBVIOUS
<1> QED BY <1>1, <1>2, <1>3

(* A piece of a sequence, by the places it is taken from.                  *)
LEMMA PieceOf ==
    ASSUME NEW S, NEW s \in Seq(S), NEW i \in Nat \ {0}, NEW j \in Nat, i + j <= Len(s)
    PROVE  /\ SubSeq(s, i, i + j) \in Seq(S) /\ Len(SubSeq(s, i, i + j)) = j + 1
           /\ \A n \in 1 .. (j + 1) : SubSeq(s, i, i + j)[n] = s[i + n - 1]
OBVIOUS

LEMMA Pieces ==
    ASSUME Sources, NEW i \in 1 .. End
    PROVE  /\ i < End => SubSeq(text, i, i) = <<peek(i)>>
           /\ i + 1 < End => SubSeq(text, i, i + 1) = <<peek(i), peek(i + 1)>>
           /\ i + 2 < End => SubSeq(text, i, i + 2) = <<peek(i), peek(i + 1), peek(i + 2)>>
<1>0. Len(text) \in Nat /\ i \in Nat \ {0} /\ End = Len(text) + 1
  BY DEF Sources, End
<1>1. ASSUME NEW j \in {0, 1, 2}, i + j < End
      PROVE  /\ SubSeq(text, i, i + j) \in Seq(STRING)
             /\ Len(SubSeq(text, i, i + j)) = j + 1
             /\ \A n \in 1 .. (j + 1) : SubSeq(text, i, i + j)[n] = peek(i + n - 1)
  <2>1. j \in Nat /\ i + j <= Len(text)
    BY <1>0, <1>1
  <2>2. \A n \in 1 .. (j + 1) : text[i + n - 1] = peek(i + n - 1)
    BY <1>0, <2>1 DEF peek
  <2>3. /\ SubSeq(text, i, i + j) \in Seq(STRING) /\ Len(SubSeq(text, i, i + j)) = j + 1
        /\ \A n \in 1 .. (j + 1) : SubSeq(text, i, i + j)[n] = text[i + n - 1]
    <3>1. text \in Seq(STRING)
      BY DEF Sources
    <3> QED BY <1>0, <2>1, <3>1, PieceOf
  <2> QED BY <2>2, <2>3
<1>2. ASSUME i < End PROVE SubSeq(text, i, i) = <<peek(i)>>
  <2>1. i + 0 = i /\ i + 1 - 1 = i /\ 0 + 1 = 1
    BY <1>0
  <2>2. SubSeq(text, i, i) \in Seq(STRING) /\ Len(SubSeq(text, i, i)) = 1
    BY <1>1, <1>2, <2>1
  <2>3. SubSeq(text, i, i)[1] = peek(i)
    BY <1>1, <1>2, <2>1
  <2> QED BY <2>2, <2>3, ShortTuples
<1>3. ASSUME i + 1 < End PROVE SubSeq(text, i, i + 1) = <<peek(i), peek(i + 1)>>
  <2>1. i + 1 - 1 = i /\ i + 2 - 1 = i + 1 /\ 1 + 1 = 2
    BY <1>0
  <2>2. SubSeq(text, i, i + 1) \in Seq(STRING) /\ Len(SubSeq(text, i, i + 1)) = 2
    BY <1>1, <1>3, <2>1
  <2>3. SubSeq(text, i, i + 1)[1] = peek(i) /\ SubSeq(text, i, i + 1)[2] = peek(i + 1)
    BY <1>1, <1>3, <2>1
  <2> QED BY <2>2, <2>3, ShortTuples
<1>4. ASSUME i + 2 < End PROVE SubSeq(text, i, i + 2) = <<peek(i), peek(i + 1), peek(i + 2)>>
  <2>1. i + 1 - 1 = i /\ i + 2 - 1 = i + 1 /\ i + 3 - 1 = i + 2 /\ 2 + 1 = 3
    BY <1>0
  <2>2. SubSeq(text, i, i + 2) \in Seq(STRING) /\ Len(SubSeq(text, i, i + 2)) = 3
    BY <1>1, <1>4, <2>1
  <2>3. /\ SubSeq(text, i, i + 2)[1] = peek(i) /\ SubSeq(text, i, i + 2)[2] = peek(i + 1)
        /\ SubSeq(text, i, i + 2)[3] = peek(i + 2)
    BY <1>1, <1>4, <2>1
  <2> QED BY <2>2, <2>3, ShortTuples
<1> QED BY <1>2, <1>3, <1>4

(* What is said of a punctuator, of its place in the source t.              *)
CharAt(t, i) == IF i < Len(t) + 1 THEN t[i] ELSE "end"

Longest(t, start, end) ==
    /\ SubSeq(t, start, end - 1) \in Spellings
    /\ \A s \in Spellings :
          (\A j \in DOMAIN s : CharAt(t, start + j - 1) = s[j]) => Len(s) <= end - start

LEMMA LongestHere ==
    ASSUME NEW i, NEW e
    PROVE  Longest(text, i, e)
             <=> /\ SubSeq(text, i, e - 1) \in Spellings
                 /\ \A s \in Spellings : Read(i, s) => Len(s) <= e - i
BY DEF Longest, Read, CharAt, peek, End

(* A punctuator that can be read where c is, is c or one that is tried.     *)
LEMMA ReadIsHit ==
    ASSUME Sources, NEW i \in 1 .. End, NEW c, c = peek(i),
           NEW s \in Spellings, Read(i, s)
    PROVE  \/ Len(s) = 1
           \/ \E k \in DOMAIN Follow(c) :
                 Reads(Follow(c)[k], i + 1) /\ Len(s) = Len(Follow(c)[k]) + 1
<1>0. i \in Nat
  BY EndIsPlace
<1>1. s[1] = c
  <2>1. 1 \in DOMAIN s
    BY DEF Spellings
  <2>2. peek(i + 1 - 1) = s[1] /\ i + 1 - 1 = i
    BY <1>0, <2>1 DEF Read
  <2> QED BY <2>2
<1>2. ASSUME NEW k \in DOMAIN Follow(c), Spells(s, c, Follow(c)[k])
      PROVE  Reads(Follow(c)[k], i + 1)
  <2> DEFINE f == Follow(c)[k]
  <2>1. DOMAIN f = 1 .. Len(f) /\ DOMAIN s = 1 .. Len(s) /\ Len(f) \in {1, 2}
    BY FollowsRead DEF Spellings
  <2>2. ASSUME NEW n \in DOMAIN f PROVE peek(i + 1 + n - 1) = f[n]
    <3>1. n \in Nat /\ n + 1 \in DOMAIN s /\ s[n + 1] = f[n]
      BY <1>2, <2>1 DEF Spells
    <3>2. i + (n + 1) - 1 = i + 1 + n - 1
      BY <1>0, <3>1
    <3>3. peek(i + (n + 1) - 1) = s[n + 1]
      BY <3>1 DEF Read
    <3> QED BY <3>1, <3>2, <3>3
  <2> QED BY <2>2 DEF Reads
<1>3. \/ Len(s) = 1 \/ \E k \in DOMAIN Follow(c) : Spells(s, c, Follow(c)[k])
  BY <1>1, SpellingsFollow
<1> QED BY <1>2, <1>3 DEF Spells

LEMMA Past ==
    ASSUME NEW i \in Nat, NEW n \in Nat
    PROVE  (i + 1 + n) - 1 = i + n /\ (i + 1 + n) - i = 1 + n
OBVIOUS

(* lex_punct takes the longest punctuator there is.                        *)
LEMMA PunctLongest ==
    ASSUME Sources, NEW i \in 1 .. End, i < End, lex_punct(i).kind = "punct"
    PROVE  Longest(text, i, lex_punct(i).end)
<1> DEFINE hits == {k \in DOMAIN Follow(peek(i)) : Reads(Follow(peek(i))[k], i + 1)}
           best == CHOOSE k \in hits : \A j \in hits : k <= j
<1>0. i \in Nat /\ End \in Nat
  BY EndIsPlace
<1> PICK c : c = peek(i)
  OBVIOUS
<1>1. \/ lex_punct(i) = Lexeme("other", i + 1)
      \/ hits = {} /\ lex_punct(i) = Lexeme("punct", i + 1)
      \/ hits # {} /\ lex_punct(i) = Lexeme("punct", i + 1 + Len(Follow(peek(i))[best]))
  BY Zenon DEF lex_punct
<1>2. c \in Punctuators
  BY Zenon DEF lex_punct, Lexeme
<1>3. \A s \in Spellings : Read(i, s) =>
         Len(s) = 1 \/ \E k \in hits : Len(s) = Len(Follow(c)[k]) + 1
  BY ReadIsHit
<1>4. CASE hits = {} /\ lex_punct(i) = Lexeme("punct", i + 1)
  <2>1. lex_punct(i).end = i + 1 /\ i + 1 - 1 = i /\ i + 1 - i = 1
    BY <1>0, <1>4 DEF Lexeme
  <2>2. SubSeq(text, i, i) = <<c>> /\ <<c>> \in Spellings
    BY <1>2, Pieces DEF Spellings
  <2>3. ASSUME NEW s \in Spellings, Read(i, s) PROVE Len(s) = 1
    <3> HIDE DEF hits
    <3> QED BY <1>3, <1>4, <2>3
  <2>4. \A s \in Spellings : Read(i, s) => Len(s) <= 1
    <3>1. 1 <= 1
      OBVIOUS
    <3> HIDE DEF hits
    <3> QED BY <2>3, <3>1
  <2> PICK e : e = lex_punct(i).end
    OBVIOUS
  <2>5. e - 1 = i /\ e - i = 1
    BY <1>0, <2>1
  <2> QED BY <2>2, <2>4, <2>5, LongestHere
<1>5. CASE hits # {} /\ lex_punct(i) = Lexeme("punct", i + 1 + Len(Follow(peek(i))[best]))
  <2>1. DOMAIN Follow(c) \in SUBSET Nat
    BY DEF Follow
  <2>2. best \in hits /\ \A j \in hits : best <= j
    <3>1. hits \in SUBSET Nat
      BY <2>1
    <3>2. PICK k \in hits : \A j \in hits : k <= j
      BY <1>5, <3>1, HasSmallest
    <3> HIDE DEF hits
    <3> QED BY <3>2
  <2> HIDE DEF best
  <2> PICK b : b = best
    OBVIOUS
  <2>3. b \in DOMAIN Follow(c) /\ Reads(Follow(c)[b], i + 1)
    BY <2>2
  <2> PICK f : f = Follow(c)[b]
    OBVIOUS
  <2>4. Len(f) \in {1, 2} /\ Len(f) \in DOMAIN f /\ f[Len(f)] # "end"
    BY <2>3, FollowsRead
  <2>5. lex_punct(i).end = i + 1 + Len(f)
    BY <1>5 DEF Lexeme
  <2>6. ASSUME NEW s \in Spellings, Read(i, s) PROVE Len(s) <= 1 + Len(f)
    <3>1. CASE Len(s) = 1
      BY <2>4, <3>1
    <3>2. CASE \E k \in hits : Len(s) = Len(Follow(c)[k]) + 1
      <4>1. PICK k \in hits : Len(s) = Len(Follow(c)[k]) + 1
        BY <3>2
      <4>2. k \in DOMAIN Follow(c) /\ b <= k
        BY <2>2, <4>1
      <4>3. Len(Follow(c)[k]) <= Len(f) /\ Len(Follow(c)[k]) \in {1, 2}
        BY <2>3, <4>2, FollowLongestFirst, FollowsRead
      <4> QED BY <2>4, <4>1, <4>3
    <3> QED BY <1>3, <2>6, <3>1, <3>2
  <2>7. SubSeq(text, i, i + Len(f)) \in Spellings
    <3>1. \A n \in DOMAIN f : peek(i + 1 + n - 1) = f[n]
      BY <2>3 DEF Reads
    <3>2. \/ Len(f) = 1 /\ <<c, f[1]>> \in Spellings
          \/ Len(f) = 2 /\ <<c, f[1], f[2]>> \in Spellings
      BY <1>2, <2>3, FollowedSpelling
    <3>3. i + 1 + 1 - 1 = i + 1 /\ i + 1 + 2 - 1 = i + 2
      BY <1>0
    <3>4. CASE Len(f) = 1
      <4>1. peek(i + 1) = f[1] /\ f[1] # "end"
        BY <2>4, <3>1, <3>3, <3>4
      <4>2. i + 1 < End
        BY <1>0, <4>1, PeekInside
      <4> QED BY <3>2, <3>4, <4>1, <4>2, Pieces
    <3>5. CASE Len(f) = 2
      <4>1. peek(i + 2) = f[2] /\ f[2] # "end"
        BY <2>4, <3>1, <3>3, <3>5
      <4>2. i + 2 < End
        BY <1>0, <4>1, PeekInside
      <4>3. 1 \in DOMAIN f
        BY <2>3, <3>5
      <4>4. peek(i + 1) = f[1]
        BY <3>1, <3>3, <4>3
      <4> QED BY <3>2, <3>5, <4>1, <4>2, <4>4, Pieces
    <3> QED BY <2>4, <3>4, <3>5
  <2>8. /\ lex_punct(i).end - 1 = i + Len(f)
        /\ lex_punct(i).end - i = 1 + Len(f)
    <3>1. Len(f) \in Nat
      BY <2>4
    <3>2. (i + 1 + Len(f)) - 1 = i + Len(f) /\ (i + 1 + Len(f)) - i = 1 + Len(f)
      BY <1>0, <3>1, Past
    <3> QED BY <2>5, <3>2, Zenon
  <2> QED BY <2>6, <2>7, <2>8, LongestHere
<1> HIDE DEF hits, best
<1>6. lex_punct(i) # Lexeme("other", i + 1)
  BY DEF Lexeme
<1> QED BY <1>1, <1>4, <1>5, <1>6

Munched ==
    \A k \in DOMAIN toks : toks[k].kind = "punct" => Longest(text, toks[k].start, EndOf(k))

LEMMA MunchedMeans == TypeOK => (Munched <=> LongestPunctuator)
<1> SUFFICES ASSUME TypeOK PROVE Munched <=> LongestPunctuator
  OBVIOUS
<1>1. ASSUME NEW k \in DOMAIN toks
      PROVE  Longest(text, toks[k].start, EndOf(k))
               <=> /\ SubSeq(text, toks[k].start, EndOf(k) - 1) \in Spellings
                   /\ \A s \in Spellings : Read(toks[k].start, s) => Len(s) <= toks[k].len
  <2> PICK i \in Nat : i = toks[k].start
    BY TokensTyped
  <2> PICK n \in Nat : n = toks[k].len
    BY TokensTyped
  <2>1. EndOf(k) - i = n
    BY DEF EndOf
  <2> QED BY <2>1, LongestHere
<1> QED BY <1>1 DEF Munched, LongestPunctuator

(* The punctuators there are stay, and a new one is longest.                *)
LEMMA PunctuatorsStep == TypeOK /\ Munched /\ [Next]_vars => Munched'
<1> SUFFICES ASSUME TypeOK, Munched, [Next]_vars PROVE Munched'
  OBVIOUS
<1>0. Sources /\ cur \in 1 .. End /\ text' = text
  BY TokensGrow DEF TypeOK, Sources
<1>1. ASSUME NEW k \in DOMAIN toks', toks'[k].kind = "punct"
      PROVE  Longest(text', toks'[k].start, EndOf(k)')
  <2>1. CASE k \in DOMAIN toks
    <3>1. toks'[k] = toks[k] /\ EndOf(k)' = EndOf(k)
      BY <2>1, TokensGrow
    <3> QED BY <1>0, <1>1, <2>1, <3>1 DEF Munched
  <2>2. CASE k \notin DOMAIN toks
    <3>1. /\ toks'[k].start = cur /\ cur < End
          /\ lex(cur).kind = "punct" /\ EndOf(k)' = lex(cur).end
      BY <1>1, <2>2, TokensGrow DEF Fresh
    <3>2. lex(cur) = lex_punct(cur)
      BY <1>0, <3>1, KindOfMaker
    <3> QED BY <1>0, <3>1, <3>2, PunctLongest
  <2> QED BY <2>1, <2>2
<1> QED BY <1>1 DEF Munched

(* Whatever the source, maximal munch: an operator is never cut short nor  *)
(* put together from characters that spell none (lex_punct, Lexer.c:374).  *)
THEOREM OperatorsAreLongest == Spec => []LongestPunctuator
<1>1. Init => Munched
  BY DEF Init, Munched
<1> QED BY <1>1, InitTyped, NextTyped, PunctuatorsStep, MunchedMeans, PTL DEF Spec

-----------------------------------------------------------------------------
(* Numbers.                                                                *)

(* A run is of characters of S, and stops at one that is not.               *)
LEMMA RunOf ==
    ASSUME Sources, NEW i \in 1 .. End, NEW S, "end" \notin S
    PROVE  /\ \A j \in i .. (Run(i, S) - 1) : text[j] \in S
           /\ peek(Run(i, S)) \notin S
<1> DEFINE T == {k \in DOMAIN text : text[k] \notin S}
<1>0. DOMAIN text = 1 .. (End - 1) /\ End \in Nat /\ i \in Nat /\ i >= 1
  BY DEF Sources, End
<1>1. /\ Run(i, S) \in i .. End
      /\ Run(i, S) = End \/ Run(i, S) \in T
      /\ \A j \in i .. (Run(i, S) - 1) : j \notin T
  BY FirstInRange DEF Run
<1> PICK r \in i .. End : r = Run(i, S)
  BY <1>1, RunInRange
<1>2. \A j \in i .. (r - 1) : j \in DOMAIN text
  BY <1>0
<1>3. \A j \in i .. (r - 1) : text[j] \in S
  BY <1>1, <1>2
<1>4. r = End \/ text[r] \notin S
  BY <1>1
<1> QED BY <1>3, <1>4 DEF peek

LEMMA CharClasses ==
    /\ "end" \notin Digits /\ "end" \notin HexDigits
    /\ Digits \cap {".", "e", "E", "+", "-", "x", "X", "p", "P", "u", "U", "l", "L", "f", "F"} = {}
    /\ HexDigits \cap {".", "+", "-", "x", "X", "p", "P"} = {}
    /\ Digits \subseteq HexDigits
BY DEF Digits, HexDigits

SuffixLetters(float) == {"u", "U", "l", "L"} \cup (IF float THEN {"f", "F"} ELSE {})

(* A stretch of characters of S does not go past one that is not.           *)
LEMMA StopsAt ==
    ASSUME Sources, NEW i \in 1 .. End, NEW k \in i .. End, NEW m \in i .. End, NEW S,
           AllOf(i, k, S), peek(m) \notin S
    PROVE  k <= m
<1> SUFFICES ASSUME k > m PROVE FALSE
  BY EndIsPlace
<1>1. m \in i .. (k - 1) /\ m < End
  BY EndIsPlace
<1>2. text[m] \in S
  BY <1>1 DEF AllOf
<1> QED BY <1>1, <1>2 DEF peek

LEMMA RunAll ==
    ASSUME Sources, NEW i \in 1 .. End, NEW S, "end" \notin S
    PROVE  Run(i, S) \in i .. End /\ AllOf(i, Run(i, S), S) /\ peek(Run(i, S)) \notin S
BY RunOf, RunInRange DEF AllOf

LEMMA EmptyAll ==
    ASSUME Sources, NEW i \in 1 .. End, NEW S
    PROVE  AllOf(i, i, S)
BY EndIsPlace DEF AllOf

(* An exponent after the letter at i: where its digits begin and end.      *)
LEMMA ExponentEnds ==
    ASSUME Sources, NEW i \in 1 .. End, i < End,
           NEW d, d = Signed(i + 1), NEW last, last = Run(d, Digits)
    PROVE  /\ d \in {i + 1, i + 2} /\ d \in 1 .. End /\ i < last
           /\ d = i + 2 <=> peek(i + 1) \in {"+", "-"}
           /\ last \in d .. End /\ AllOf(d, last, Digits) /\ peek(last) \notin Digits
           /\ peek(d) \in Digits => d < last
<1>1. i + 1 \in 1 .. End /\ i \in Nat /\ End \in Nat
  BY EndIsPlace
<1>2. d \in (i + 1) .. End
  BY <1>1, SignedInside
<1>3. /\ d \in {i + 1, i + 2}
      /\ d = i + 2 <=> peek(i + 1) \in {"+", "-"}
  BY <1>1 DEF Signed
<1>4. d \in 1 .. End
  BY <1>1, <1>2
<1>5. last \in d .. End /\ AllOf(d, last, Digits) /\ peek(last) \notin Digits
  BY <1>4, RunAll, CharClasses
<1>6. peek(d) \in Digits => d # last
  BY <1>5
<1> QED BY <1>1, <1>2, <1>3, <1>4, <1>5, <1>6

(* What HexNumber and DecNumber pass from i on, up to the suffixes: digits *)
(* of S with or without a point up to frac, an exponent up to last if      *)
(* there is one, of at least so many digits.                               *)
Taken(i, S, exponents, least, whole, point, frac, exp, last) ==
    /\ whole \in i .. End /\ AllOf(i, whole, S) /\ peek(whole) \notin S
    /\ point \in BOOLEAN
    /\ point <=> peek(whole) = "."
    /\ frac \in whole .. End /\ peek(frac) \notin S
    /\ IF point THEN frac > whole /\ AllOf(whole + 1, frac, S) ELSE frac = whole
    /\ exp \in BOOLEAN
    /\ exp <=> /\ peek(frac) \in exponents
               /\ least = 1 => peek(Signed(frac + 1)) \in Digits
    /\ last = IF exp THEN Run(Signed(frac + 1), Digits) ELSE frac

LEMMA LastPlace ==
    ASSUME Sources, NEW i \in 1 .. End, NEW S, NEW exponents, "end" \notin exponents, NEW least,
           NEW whole, NEW point, NEW frac, NEW exp, NEW last,
           Taken(i, S, exponents, least, whole, point, frac, exp, last)
    PROVE  /\ whole \in 1 .. End /\ frac \in 1 .. End /\ last \in frac .. End /\ last \in 1 .. End
           /\ exp => frac < End /\ frac < last
           /\ ~exp => last = frac
<1>1. whole \in i .. End /\ frac \in whole .. End /\ i \in Nat /\ i >= 1 /\ End \in Nat
  BY EndIsPlace DEF Taken
<1>2. whole \in 1 .. End /\ frac \in 1 .. End
  BY <1>1
<1>3. CASE exp
  <2>1. frac < End
    BY <1>2, <1>3, PeekInside DEF Taken
  <2>2. last = Run(Signed(frac + 1), Digits)
    BY <1>3 DEF Taken
  <2>3. last \in Signed(frac + 1) .. End /\ Signed(frac + 1) \in 1 .. End /\ frac < last
    BY <1>2, <2>1, <2>2, ExponentEnds
  <2>4. last \in frac .. End /\ last \in 1 .. End
    BY <1>1, <1>2, <2>3
  <2> QED BY <1>2, <1>3, <2>1, <2>3, <2>4
<1>4. CASE ~exp
  <2>1. last = frac
    BY <1>4 DEF Taken
  <2> QED BY <1>1, <1>2, <1>4, <2>1
<1> QED BY <1>3, <1>4

(* What is taken is a number, ...                                          *)
LEMMA TakenIsNumeral ==
    ASSUME Sources, NEW i \in 1 .. End, NEW S, NEW exponents, "end" \notin exponents,
           NEW least \in {0, 1}, NEW whole, NEW point, NEW frac, NEW exp, NEW last,
           Taken(i, S, exponents, least, whole, point, frac, exp, last),
           NEW float, float = (point \/ exp), NEW e, e = Run(last, SuffixLetters(float))
    PROVE  Numeral(i, e, S, exponents, least, float) /\ e \in last .. End
<1>1. /\ whole \in 1 .. End /\ frac \in 1 .. End /\ last \in frac .. End /\ last \in 1 .. End
      /\ exp => frac < End /\ frac < last
      /\ ~exp => last = frac
  BY LastPlace
<1>2. "end" \notin SuffixLetters(float)
  BY DEF SuffixLetters
<1>3. e \in last .. End /\ AllOf(last, e, SuffixLetters(float))
  BY <1>1, <1>2, RunAll
<1>4. /\ i <= whole /\ whole <= frac /\ frac <= last /\ last <= e /\ AllOf(i, whole, S)
      /\ point => frac > whole
      /\ ~point => frac = whole
      /\ frac = whole \/ (peek(whole) = "." /\ AllOf(whole + 1, frac, S))
  BY <1>1, <1>3, EndIsPlace DEF Taken
<1>5. whole \in i .. e /\ frac \in i .. e /\ last \in i .. e
  BY <1>1, <1>3, <1>4, EndIsPlace
<1>6. last = frac \/ /\ peek(frac) \in exponents
                     /\ \E d \in {frac + 1, frac + 2} :
                           /\ d = frac + 2 => peek(frac + 1) \in {"+", "-"}
                           /\ d + least <= last /\ AllOf(d, last, Digits)
  <2> SUFFICES ASSUME exp
               PROVE  /\ peek(frac) \in exponents
                      /\ \E d \in {frac + 1, frac + 2} :
                            /\ d = frac + 2 => peek(frac + 1) \in {"+", "-"}
                            /\ d + least <= last /\ AllOf(d, last, Digits)
    BY <1>1
  <2> PICK d : d = Signed(frac + 1)
    OBVIOUS
  <2>1. /\ peek(frac) \in exponents /\ last = Run(d, Digits)
        /\ least = 1 => peek(d) \in Digits
    BY DEF Taken
  <2>2. /\ d \in {frac + 1, frac + 2} /\ d \in 1 .. End
        /\ d = frac + 2 <=> peek(frac + 1) \in {"+", "-"}
        /\ last \in d .. End /\ AllOf(d, last, Digits)
        /\ peek(d) \in Digits => d < last
    BY <1>1, <2>1, ExponentEnds
  <2>3. d + least <= last
    BY <2>1, <2>2, EndIsPlace
  <2> QED BY <2>1, <2>2, <2>3
<1>7. float <=> last > whole
  BY <1>1, <1>4, EndIsPlace DEF Taken
<1> QED BY <1>3, <1>4, <1>5, <1>6, <1>7 DEF Numeral, SuffixLetters

(* ... and the longest there.                                              *)
LEMMA TakenIsLongest ==
    ASSUME Sources, NEW i \in 1 .. End, NEW S, "." \notin S, NEW exponents, "end" \notin exponents,
           "." \notin exponents, S \cap exponents = {},
           NEW least \in {0, 1}, NEW whole, NEW point, NEW frac, NEW exp, NEW last,
           Taken(i, S, exponents, least, whole, point, frac, exp, last),
           NEW k \in 1 .. End, NEW fl, Numeral(i, k, S, exponents, least, fl)
    PROVE  k <= Run(last, SuffixLetters(point \/ exp))
<1>0. i \in Nat /\ i >= 1 /\ End \in Nat /\ k \in Nat /\ k <= End
  BY EndIsPlace
<1>1. /\ whole \in 1 .. End /\ frac \in 1 .. End /\ last \in frac .. End /\ last \in 1 .. End
      /\ exp => frac < End /\ frac < last
      /\ ~exp => last = frac
  BY LastPlace
<1>2. /\ whole \in i .. End /\ AllOf(i, whole, S) /\ peek(whole) \notin S
      /\ point \in BOOLEAN /\ (point <=> peek(whole) = ".")
      /\ frac \in whole .. End /\ peek(frac) \notin S
      /\ point => frac > whole /\ AllOf(whole + 1, frac, S)
      /\ ~point => frac = whole
  BY DEF Taken
<1>3. PICK a, b, c \in i .. k :
         /\ a <= b /\ b <= c /\ AllOf(i, a, S)
         /\ b = a \/ (peek(a) = "." /\ AllOf(a + 1, b, S))
         /\ c = b \/ /\ peek(b) \in exponents
                     /\ \E d \in {b + 1, b + 2} :
                           /\ d = b + 2 => peek(b + 1) \in {"+", "-"}
                           /\ d + least <= c /\ AllOf(d, c, Digits)
         /\ fl <=> c > a
         /\ AllOf(c, k, SuffixLetters(fl))
  BY DEF Numeral, SuffixLetters
<1>4. /\ a \in i .. End /\ b \in a .. End /\ c \in b .. End
      /\ a \in 1 .. End /\ b \in 1 .. End /\ c \in 1 .. End
  BY <1>0, <1>3
<1>5. a <= whole
  BY <1>2, <1>3, <1>4, StopsAt
<1>6. ASSUME b # a PROVE a = whole /\ point /\ b <= frac
  <2>1. peek(a) = "." /\ AllOf(a + 1, b, S)
    BY <1>3, <1>6
  <2>2. a = whole
    <3> SUFFICES ASSUME a # whole PROVE FALSE
      OBVIOUS
    <3>1. a \in i .. (whole - 1) /\ a < End
      BY <1>0, <1>2, <1>4, <1>5
    <3>2. text[a] \in S
      BY <1>2, <3>1 DEF AllOf
    <3> QED BY <2>1, <3>1, <3>2 DEF peek
  <2>3. point /\ frac > whole
    BY <1>2, <2>1, <2>2
  <2>4. a + 1 \in 1 .. End /\ b \in (a + 1) .. End /\ frac \in (a + 1) .. End
    BY <1>0, <1>1, <1>4, <1>6, <2>2, <2>3
  <2>5. b <= frac
    BY <1>2, <2>1, <2>4, StopsAt
  <2> QED BY <2>2, <2>3, <2>5
<1>7. b <= frac
  BY <1>0, <1>1, <1>2, <1>4, <1>5, <1>6
<1>8. ASSUME c # b PROVE exp /\ c <= last
  <2>1. PICK d \in {b + 1, b + 2} :
           /\ peek(b) \in exponents
           /\ d = b + 2 => peek(b + 1) \in {"+", "-"}
           /\ d + least <= c /\ AllOf(d, c, Digits)
    BY <1>3, <1>8
  <2>2. b = frac
    <3> SUFFICES ASSUME b < frac PROVE FALSE
      BY <1>0, <1>1, <1>4, <1>7
    <3>0. b < End /\ text[b] \in exponents
      BY <1>0, <1>1, <2>1 DEF peek
    <3>1. CASE b < whole
      <4>1. b \in i .. (whole - 1)
        BY <1>0, <1>2, <1>4, <3>1
      <4> QED BY <1>2, <3>0, <4>1 DEF AllOf
    <3>2. CASE b = whole
      <4>1. point
        BY <1>2, <3>2
      <4> QED BY <1>2, <2>1, <3>2, <4>1
    <3>3. CASE b > whole
      <4>1. point
        BY <1>0, <1>2, <3>3
      <4>2. b \in (whole + 1) .. (frac - 1)
        BY <1>0, <1>2, <1>4, <3>3
      <4> QED BY <1>2, <3>0, <4>1, <4>2 DEF AllOf
    <3> QED BY <1>0, <1>2, <1>4, <3>1, <3>2, <3>3
  <2> PICK g : g = Signed(frac + 1)
    OBVIOUS
  <2> PICK r : r = Run(g, Digits)
    OBVIOUS
  <2>3. frac < End
    BY <1>1, <2>1, <2>2, PeekInside
  <2>4. /\ g \in {frac + 1, frac + 2} /\ g \in 1 .. End /\ frac < r
        /\ g = frac + 2 <=> peek(frac + 1) \in {"+", "-"}
        /\ r \in g .. End /\ AllOf(g, r, Digits) /\ peek(r) \notin Digits
    BY <1>1, <2>3, ExponentEnds
  <2>5. d \in 1 .. End /\ c \in d .. End
    BY <1>0, <1>1, <1>4, <2>1, <2>2, <2>3
  <2>6. CASE d = g
    <3>1. c \in g .. End
      BY <2>5, <2>6
    <3>2. c <= r
      BY <2>1, <2>4, <2>6, <3>1, StopsAt
    <3>3. ASSUME least = 1 PROVE peek(g) \in Digits
      <4>1. g \in d .. (c - 1) /\ g < End
        BY <1>0, <2>1, <2>5, <2>6, <3>3
      <4>2. text[g] \in Digits
        BY <2>1, <4>1 DEF AllOf
      <4> QED BY <4>1, <4>2 DEF peek
    <3>4. exp
      BY <2>1, <2>2, <3>3 DEF Taken
    <3> QED BY <3>2, <3>4 DEF Taken
  <2>7. CASE d # g
    <3>1. d = b + 1 /\ g = frac + 2 /\ peek(b + 1) \in {"+", "-"}
      BY <1>0, <1>1, <2>1, <2>2, <2>4, <2>7
    <3>2. peek(d) \notin Digits
      BY <3>1, CharClasses
    <3>3. d \in d .. End
      BY <2>5
    <3>4. c <= d
      BY <2>1, <2>5, <3>2, <3>3, StopsAt
    <3>5. least = 0
      BY <2>1, <2>5, <3>4
    <3>6. exp
      BY <2>1, <2>2, <3>5 DEF Taken
    <3>7. last = r
      BY <3>6 DEF Taken
    <3> QED BY <1>0, <1>1, <2>2, <2>4, <2>5, <3>1, <3>4, <3>6, <3>7
  <2> QED BY <2>6, <2>7
<1>9. c <= last
  BY <1>0, <1>1, <1>4, <1>7, <1>8
<1>10. fl => point \/ exp
  BY <1>3, <1>4, <1>6, <1>8
<1> PICK S2 : S2 = SuffixLetters(point \/ exp)
  OBVIOUS
<1>11. "end" \notin S2 /\ SuffixLetters(fl) \subseteq S2
  BY <1>10 DEF SuffixLetters
<1> PICK e : e = Run(last, S2)
  OBVIOUS
<1>12. e \in last .. End /\ peek(e) \notin S2
  BY <1>1, <1>11, RunAll
<1>13. k \in c .. End /\ e \in c .. End
  BY <1>0, <1>1, <1>3, <1>4, <1>9, <1>12
<1>14. peek(e) \notin SuffixLetters(fl)
  BY <1>11, <1>12
<1>15. k <= e
  BY <1>3, <1>4, <1>13, <1>14, StopsAt
<1> QED BY <1>15

(* What HexNumber and DecNumber do, up to the suffixes.                     *)
LEMMA WholeParts ==
    ASSUME Sources, NEW i \in 1 .. End, NEW S, "end" \notin S,
           NEW whole, whole = Run(i, S),
           NEW point, point = (peek(whole) = "."),
           NEW frac, frac = IF point THEN Run(whole + 1, S) ELSE whole
    PROVE  /\ whole \in i .. End /\ AllOf(i, whole, S) /\ peek(whole) \notin S
           /\ frac \in whole .. End /\ peek(frac) \notin S
           /\ IF point THEN frac > whole /\ AllOf(whole + 1, frac, S) ELSE frac = whole
<1>1. whole \in i .. End /\ AllOf(i, whole, S) /\ peek(whole) \notin S
  BY RunAll
<1>2. CASE point
  <2>1. whole < End
    BY <1>1, <1>2 DEF peek
  <2>2. whole + 1 \in 1 .. End
    BY <1>1, <2>1, EndIsPlace
  <2>3. frac \in (whole + 1) .. End /\ AllOf(whole + 1, frac, S) /\ peek(frac) \notin S
    BY <1>2, <2>2, RunAll
  <2>4. frac \in whole .. End /\ frac > whole
    BY <1>1, <2>3, EndIsPlace
  <2> QED BY <1>1, <1>2, <2>3, <2>4
<1>3. CASE ~point
  <2>1. frac = whole /\ frac \in whole .. End
    BY <1>1, <1>3, EndIsPlace
  <2> QED BY <1>1, <1>3, <2>1
<1> QED BY <1>2, <1>3

LEMMA HexTaken ==
    ASSUME Sources, NEW i \in 1 .. End
    PROVE  \E whole, point, frac, exp, last :
              /\ Taken(i, HexDigits, {"p", "P"}, 0, whole, point, frac, exp, last)
              /\ HexNumber(i).end = Run(last, SuffixLetters(point \/ exp))
              /\ HexNumber(i).kind = IF point \/ exp THEN "floatlit" ELSE "intlit"
<1> PICK whole : whole = Run(i, HexDigits)
  OBVIOUS
<1> PICK point : point = (peek(whole) = ".")
  OBVIOUS
<1> PICK frac : frac = IF point THEN Run(whole + 1, HexDigits) ELSE whole
  OBVIOUS
<1> PICK exp : exp = (peek(frac) \in {"p", "P"})
  OBVIOUS
<1> PICK last : last = IF exp THEN Run(Signed(frac + 1), Digits) ELSE frac
  OBVIOUS
<1>0. point \in BOOLEAN /\ exp \in BOOLEAN /\ "end" \notin HexDigits
  BY CharClasses
<1>1. Taken(i, HexDigits, {"p", "P"}, 0, whole, point, frac, exp, last)
  <2>1. /\ whole \in i .. End /\ AllOf(i, whole, HexDigits) /\ peek(whole) \notin HexDigits
        /\ frac \in whole .. End /\ peek(frac) \notin HexDigits
        /\ IF point THEN frac > whole /\ AllOf(whole + 1, frac, HexDigits) ELSE frac = whole
    BY <1>0, WholeParts
  <2>0. 0 # 1
    OBVIOUS
  <2>2. exp <=> /\ peek(frac) \in {"p", "P"}
                /\ 0 = 1 => peek(Signed(frac + 1)) \in Digits
    BY <2>0, Zenon
  <2>3. point <=> peek(whole) = "."
    OBVIOUS
  <2> QED BY <1>0, <2>1, <2>2, <2>3 DEF Taken
<1>2. HexNumber(i) = Suffixed(point \/ exp, last)
  BY DEF HexNumber
<1>3. /\ HexNumber(i).end = Run(last, SuffixLetters(point \/ exp))
      /\ HexNumber(i).kind = IF point \/ exp THEN "floatlit" ELSE "intlit"
  BY <1>2 DEF Suffixed, Lexeme, SuffixLetters
<1> QED BY <1>1, <1>3

(* An exponent of a decimal number has digits.                             *)
LEMMA DecTaken ==
    ASSUME Sources, NEW i \in 1 .. End
    PROVE  \E whole, point, frac, exp, last :
              /\ Taken(i, Digits, {"e", "E"}, 1, whole, point, frac, exp, last)
              /\ DecNumber(i).end = Run(last, SuffixLetters(point \/ exp))
              /\ DecNumber(i).kind = IF point \/ exp THEN "floatlit" ELSE "intlit"
<1> PICK whole : whole = Run(i, Digits)
  OBVIOUS
<1> PICK point : point = (peek(whole) = ".")
  OBVIOUS
<1> PICK frac : frac = IF point THEN Run(whole + 1, Digits) ELSE whole
  OBVIOUS
<1> PICK exp : exp = (peek(frac) \in {"e", "E"} /\ peek(Signed(frac + 1)) \in Digits)
  OBVIOUS
<1> PICK last : last = IF exp THEN Run(Signed(frac + 1), Digits) ELSE frac
  OBVIOUS
<1>0. point \in BOOLEAN /\ exp \in BOOLEAN /\ "end" \notin Digits
  BY CharClasses
<1>1. Taken(i, Digits, {"e", "E"}, 1, whole, point, frac, exp, last)
  <2>1. /\ whole \in i .. End /\ AllOf(i, whole, Digits) /\ peek(whole) \notin Digits
        /\ frac \in whole .. End /\ peek(frac) \notin Digits
        /\ IF point THEN frac > whole /\ AllOf(whole + 1, frac, Digits) ELSE frac = whole
    BY <1>0, WholeParts
  <2> QED BY <1>0, <2>1 DEF Taken
<1>2. DecNumber(i) = Suffixed(point \/ exp, last)
  BY DEF DecNumber
<1>3. /\ DecNumber(i).end = Run(last, SuffixLetters(point \/ exp))
      /\ DecNumber(i).kind = IF point \/ exp THEN "floatlit" ELSE "intlit"
  BY <1>2 DEF Suffixed, Lexeme, SuffixLetters
<1> QED BY <1>1, <1>3

(* After 0x no decimal number goes on.                                     *)
LEMMA NoDecimal ==
    ASSUME Sources, NEW i \in 1 .. End, peek(i) \in {"x", "X"}, NEW k \in 1 .. End, NEW fl,
           Numeral(i, k, Digits, {"e", "E"}, 1, fl)
    PROVE  k <= i
<1>0. i \in Nat /\ i >= 1 /\ End \in Nat /\ k \in Nat /\ k <= End
  BY EndIsPlace
<1>1. PICK a, b, c \in i .. k :
         /\ a <= b /\ b <= c /\ AllOf(i, a, Digits)
         /\ b = a \/ peek(a) = "."
         /\ c = b \/ peek(b) \in {"e", "E"}
         /\ AllOf(c, k, SuffixLetters(fl))
  BY DEF Numeral, SuffixLetters
<1>2. a \in i .. End /\ i \in i .. End /\ k \in i .. End
  BY <1>0, <1>1
<1>3. peek(i) \notin Digits /\ peek(i) \notin {".", "e", "E"} /\ peek(i) \notin SuffixLetters(fl)
  BY CharClasses DEF SuffixLetters
<1>4. a <= i
  BY <1>1, <1>2, <1>3, StopsAt
<1>5. a = i
  BY <1>0, <1>2, <1>4
<1>6. b = i /\ c = i
  BY <1>1, <1>3, <1>5
<1>7. AllOf(i, k, SuffixLetters(fl))
  BY <1>1, <1>6
<1> QED BY <1>2, <1>3, <1>7, StopsAt

(* What is said of a number of the source.                                 *)
LongestNumber(s, e, kind) ==
    /\ Number(s, e, kind = "floatlit")
    /\ \A k \in (e + 1) .. End : \A float \in BOOLEAN : ~Number(s, k, float)

LEMMA NumberLongest ==
    ASSUME Sources, NEW i \in 1 .. End, i < End, peek(i) \in Digits
    PROVE  LongestNumber(i, lex_number(i).end, lex_number(i).kind)
<1> PICK e : e = lex_number(i).end
  OBVIOUS
<1>0. i + 1 \in 1 .. End /\ i \in Nat /\ End \in Nat /\ e \in (i + 1) .. End
  BY EndIsPlace, NumberInside
<1>1. \A k \in (e + 1) .. End : k \in 1 .. End /\ ~(k <= e)
  BY <1>0
<1>2. CASE peek(i) = "0" /\ peek(i + 1) \in {"x", "X"}
  <2>0. i + 2 \in 1 .. End
    BY <1>0, <1>2, EndIsPlace DEF peek
  <2>1. PICK whole, point, frac, exp, last :
           /\ Taken(i + 2, HexDigits, {"p", "P"}, 0, whole, point, frac, exp, last)
           /\ HexNumber(i + 2).end = Run(last, SuffixLetters(point \/ exp))
           /\ HexNumber(i + 2).kind = IF point \/ exp THEN "floatlit" ELSE "intlit"
    BY <2>0, HexTaken
  <2>2. /\ e = Run(last, SuffixLetters(point \/ exp))
        /\ (lex_number(i).kind = "floatlit") = (point \/ exp)
    BY <1>2, <2>1 DEF lex_number, Taken
  <2>3. Numeral(i + 2, e, HexDigits, {"p", "P"}, 0, lex_number(i).kind = "floatlit")
    BY <2>0, <2>1, <2>2, TakenIsNumeral
  <2>4. Number(i, e, lex_number(i).kind = "floatlit")
    BY <1>2, <2>3 DEF Number
  <2>5. ASSUME NEW k \in (e + 1) .. End, NEW float \in BOOLEAN, Number(i, k, float) PROVE FALSE
    <3>1. CASE Numeral(i + 2, k, HexDigits, {"p", "P"}, 0, float)
      <4>1. k <= e
        BY <1>1, <2>0, <2>1, <2>2, <3>1, CharClasses, TakenIsLongest
      <4> QED BY <1>1, <4>1
    <3>2. CASE Numeral(i + 1, k, Digits, {"e", "E"}, 1, float)
      <4>1. k <= i + 1
        BY <1>0, <1>1, <1>2, <3>2, NoDecimal
      <4> QED BY <1>0, <4>1
    <3> QED BY <2>5, <3>1, <3>2 DEF Number
  <2> QED BY <2>4, <2>5 DEF LongestNumber
<1>3. CASE ~(peek(i) = "0" /\ peek(i + 1) \in {"x", "X"})
  <2>1. PICK whole, point, frac, exp, last :
           /\ Taken(i + 1, Digits, {"e", "E"}, 1, whole, point, frac, exp, last)
           /\ DecNumber(i + 1).end = Run(last, SuffixLetters(point \/ exp))
           /\ DecNumber(i + 1).kind = IF point \/ exp THEN "floatlit" ELSE "intlit"
    BY <1>0, DecTaken
  <2>2. /\ e = Run(last, SuffixLetters(point \/ exp))
        /\ (lex_number(i).kind = "floatlit") = (point \/ exp)
    BY <1>3, <2>1 DEF lex_number, Taken
  <2>3. Numeral(i + 1, e, Digits, {"e", "E"}, 1, lex_number(i).kind = "floatlit")
    BY <1>0, <2>1, <2>2, TakenIsNumeral
  <2>4. Number(i, e, lex_number(i).kind = "floatlit")
    BY <2>3 DEF Number
  <2>5. ASSUME NEW k \in (e + 1) .. End, NEW float \in BOOLEAN, Number(i, k, float) PROVE FALSE
    <3>1. Numeral(i + 1, k, Digits, {"e", "E"}, 1, float)
      BY <1>3, <2>5 DEF Number
    <3>2. k <= e
      BY <1>0, <1>1, <2>1, <2>2, <3>1, CharClasses, TakenIsLongest
    <3> QED BY <1>1, <3>2
  <2> QED BY <2>4, <2>5 DEF LongestNumber
<1> QED BY <1>2, <1>3

LongestNumbers ==
    \A k \in DOMAIN toks : \A s, e, kind :
        s = toks[k].start /\ e = EndOf(k) /\ kind = toks[k].kind /\ kind # "eof" =>
            /\ kind \in {"intlit", "floatlit"} <=> peek(s) \in Digits
            /\ peek(s) \in Digits => LongestNumber(s, e, kind)

LEMMA LongestNumbersMeans == LongestNumbers => NumbersWhole
<1>1. "." \notin Digits
  BY Zenon DEF Digits
<1>2. \A i : BeginsNumber(i) /\ ~PointFirst(i) <=> peek(i) \in Digits
  BY <1>1 DEF BeginsNumber, PointFirst
<1> QED BY <1>2 DEF LongestNumbers, LongestNumber, NumbersWhole

(* It depends on the source alone.                                         *)
LEMMA LongestStays ==
    ASSUME UNCHANGED text
    PROVE  /\ \A i : peek(i)' = peek(i)
           /\ \A s, e, kind : LongestNumber(s, e, kind)' <=> LongestNumber(s, e, kind)
<1>1. End' = End
  BY DEF End
<1>2. \A i : peek(i)' = peek(i)
  BY <1>1 DEF peek
<1>3. ASSUME NEW i, NEW k, NEW S PROVE AllOf(i, k, S)' <=> AllOf(i, k, S)
  BY DEF AllOf
<1>4. ASSUME NEW i, NEW e, NEW S, NEW exponents, NEW least, NEW float
      PROVE  Numeral(i, e, S, exponents, least, float)' <=> Numeral(i, e, S, exponents, least, float)
  BY DEF Numeral, AllOf, peek, End
<1>5. ASSUME NEW s, NEW e, NEW float PROVE Number(s, e, float)' <=> Number(s, e, float)
  BY <1>2, <1>4 DEF Number
<1> QED BY <1>1, <1>2, <1>5 DEF LongestNumber

LEMMA NumbersStep == TypeOK /\ LongestNumbers /\ [Next]_vars => LongestNumbers'
<1> SUFFICES ASSUME TypeOK, LongestNumbers, [Next]_vars PROVE LongestNumbers'
  OBVIOUS
<1>0. Sources /\ cur \in 1 .. End /\ text' = text
  BY TokensGrow DEF TypeOK, Sources
<1>1. /\ \A i : peek(i)' = peek(i)
      /\ \A s, e, kind : LongestNumber(s, e, kind)' <=> LongestNumber(s, e, kind)
  BY <1>0, LongestStays
<1>2. ASSUME NEW k \in DOMAIN toks', NEW s, NEW e, NEW kind, s = toks'[k].start, e = EndOf(k)',
             kind = toks'[k].kind, kind # "eof"
      PROVE  /\ kind \in {"intlit", "floatlit"} <=> peek(s) \in Digits
             /\ peek(s) \in Digits => LongestNumber(s, e, kind)
  <2>1. CASE k \in DOMAIN toks
    <3>1. toks'[k] = toks[k] /\ EndOf(k)' = EndOf(k)
      BY <2>1, TokensGrow
    <3>2. s = toks[k].start /\ e = EndOf(k) /\ kind = toks[k].kind
      BY <1>2, <3>1
    <3> QED BY <1>2, <2>1, <3>2 DEF LongestNumbers
  <2>2. CASE k \notin DOMAIN toks
    <3>1. s = cur /\ cur < End /\ kind = lex(cur).kind /\ e = lex(cur).end
      BY <1>2, <2>2, TokensGrow DEF Fresh
    <3>2. lex(cur).kind \in {"intlit", "floatlit"} => peek(cur) \in Digits
      BY <1>0, <3>1, KindOfMaker
    <3>3. ASSUME peek(cur) \in Digits
          PROVE  lex(cur) = lex_number(cur) /\ lex(cur).kind \in {"intlit", "floatlit"}
      <4>1. lex(cur) = lex_number(cur)
        BY <3>3, Zenon DEF lex, Letters, Digits
      <4> QED BY <1>0, <3>3, <4>1, NumberInside
    <3>4. peek(cur) \in Digits => LongestNumber(cur, lex(cur).end, lex(cur).kind)
      BY <1>0, <3>1, <3>3, NumberLongest
    <3> QED BY <3>1, <3>2, <3>3, <3>4
  <2> QED BY <2>1, <2>2
<1>3. ASSUME NEW k \in DOMAIN toks', NEW s, NEW e, NEW kind, s = toks'[k].start, e = EndOf(k)',
             kind = toks'[k].kind, kind # "eof"
      PROVE  /\ kind \in {"intlit", "floatlit"} <=> peek(s)' \in Digits
             /\ peek(s)' \in Digits => LongestNumber(s, e, kind)'
  BY <1>1, <1>2, <1>3
<1> QED BY <1>3 DEF LongestNumbers

(* Whatever the source, what begins with a digit is a number, for what it  *)
(* is, floating exactly with a point or an exponent, and no longer number  *)
(* can be read there: of the digits, the exponent and the suffixes nothing *)
(* is left behind (lex_number, Lexer.c:464).  A number that begins with a  *)
(* point is no number of the lexer (Lexer.c:388).                          *)
THEOREM NumbersAreWhole == Spec => []NumbersWhole
<1>1. Init => LongestNumbers
  BY DEF Init, LongestNumbers
<1> QED BY <1>1, InitTyped, NextTyped, NumbersStep, LongestNumbersMeans, PTL DEF Spec

-----------------------------------------------------------------------------
(* What lies between tokens.                                               *)

(* TriviaAt, of a source t.                                                *)
TriviaIn(t, i, k) ==
    LET read(at, s) == \A j \in DOMAIN s : CharAt(t, at + j - 1) = s[j]
    IN \/ k = i + 1 /\ t[i] \in Blanks \cup {"\n"}
       \/ k = i + 2 /\ read(i, <<"\\", "\n">>)
       \/ k = i + 3 /\ read(i, <<"\\", "\r", "\n">>)
       \/ /\ k >= i + 2 /\ read(i, <<"/", "/">>)
          /\ {j \in i .. (k - 1) : t[j] = "\n"} = {} /\ CharAt(t, k) \in {"\n", "end"}
       \/ /\ read(i, <<"/", "*">>)
          /\ LET closed == {j \in (i + 4) .. k : read(j - 2, <<"*", "/">>)}
             IN closed = {k} \/ (closed = {} /\ k = Len(t) + 1)

Gap(t, i, k) ==
    \E way \in SUBSET (i .. k) :
        {i, k} \subseteq way /\ \A p \in way \ {k} : \E q \in way : TriviaIn(t, p, q)

LEMMA TriviaHere ==
    ASSUME NEW i, NEW k
    PROVE  TriviaAt(i, k) <=> TriviaIn(text, i, k)
BY DEF TriviaAt, TriviaIn, Read, Newlines, CharAt, peek, End

LEMMA GapHere ==
    ASSUME NEW i, NEW k
    PROVE  AllTrivia(i, k) <=> Gap(text, i, k)
BY TriviaHere DEF AllTrivia, Gap

LEMMA NoGap ==
    ASSUME NEW t, NEW i \in Nat
    PROVE  Gap(t, i, i)
<1>1. {i} \in SUBSET (i .. i) /\ {i, i} \subseteq {i} /\ {i} \ {i} = {}
  OBVIOUS
<1> QED BY <1>1, Zenon DEF Gap

LEMMA GapGrows ==
    ASSUME NEW t, NEW i \in Nat, NEW k \in Nat, NEW m \in Nat, i <= k, k <= m,
           Gap(t, i, k), TriviaIn(t, k, m)
    PROVE  Gap(t, i, m)
<1>1. PICK way \in SUBSET (i .. k) :
         {i, k} \subseteq way /\ \A p \in way \ {k} : \E q \in way : TriviaIn(t, p, q)
  BY DEF Gap
<1>2. PICK w : w = way \cup {m}
  OBVIOUS
<1>3. w \in SUBSET (i .. m) /\ {i, m} \subseteq w
  BY <1>1, <1>2
<1>4. ASSUME NEW p \in w \ {m} PROVE \E q \in w : TriviaIn(t, p, q)
  <2>1. CASE p = k
    BY <1>2, <2>1
  <2>2. CASE p # k
    <3>1. p \in way \ {k}
      BY <1>2, <2>2
    <3>2. PICK q \in way : TriviaIn(t, p, q)
      BY <1>1, <3>1
    <3> QED BY <1>2, <3>2
  <2> QED BY <2>1, <2>2
<1> QED BY <1>3, <1>4, Zenon DEF Gap

(* What two or three characters are read as.                               *)
LEMMA ReadShort ==
    ASSUME NEW i \in Nat, NEW x, NEW y, NEW z
    PROVE  /\ Read(i, <<x, y>>) <=> peek(i) = x /\ peek(i + 1) = y
           /\ Read(i, <<x, y, z>>) <=> peek(i) = x /\ peek(i + 1) = y /\ peek(i + 2) = z
<1>1. i + 1 - 1 = i /\ i + 2 - 1 = i + 1 /\ i + 3 - 1 = i + 2
  OBVIOUS
<1>2. Read(i, <<x, y>>) <=> peek(i) = x /\ peek(i + 1) = y
  <2>1. DOMAIN <<x, y>> = {1, 2} /\ <<x, y>>[1] = x /\ <<x, y>>[2] = y
    OBVIOUS
  <2> QED BY <1>1, <2>1 DEF Read
<1>3. Read(i, <<x, y, z>>) <=> peek(i) = x /\ peek(i + 1) = y /\ peek(i + 2) = z
  <2>1. /\ DOMAIN <<x, y, z>> = {1, 2, 3}
        /\ <<x, y, z>>[1] = x /\ <<x, y, z>>[2] = y /\ <<x, y, z>>[3] = z
    OBVIOUS
  <2> QED BY <1>1, <2>1 DEF Read
<1> QED BY <1>2, <1>3

(* A comment that closes is a piece of trivia, and so is one that does not. *)
LEMMA CommentIsTrivia ==
    ASSUME Sources, NEW i \in 1 .. End, peek(i) = "/", peek(i + 1) = "*",
           NEW close, close = First(i + 2, Closings)
    PROVE  /\ i + 2 \in 1 .. End /\ close \in (i + 2) .. End
           /\ close < End => close + 2 \in 1 .. End /\ TriviaAt(i, close + 2)
           /\ close = End => TriviaAt(i, End)
           /\ \A j \in (i + 2) .. (close - 1) : j \notin Closings
           /\ close < End => text[close] = "*" /\ text[close + 1] = "/"
<1>0. i \in Nat /\ End \in Nat /\ i >= 1
  BY EndIsPlace
<1>1. i + 2 \in 1 .. End
  BY <1>0, PeekInside
<1>2. /\ close \in (i + 2) .. End /\ (close = End \/ close \in Closings)
      /\ \A j \in (i + 2) .. (close - 1) : j \notin Closings
  BY <1>1, FirstInRange
<1>3. close < End => text[close] = "*" /\ peek(close) = "*" /\ peek(close + 1) = "/"
  BY <1>2 DEF Closings, peek
<1>4. close < End => close + 1 < End /\ close + 2 \in 1 .. End
  BY <1>0, <1>2, <1>3, PeekInside
<1>5. close < End => text[close + 1] = "/"
  BY <1>3, <1>4 DEF peek
<1>6. Read(i, <<"/", "*">>)
  BY <1>0, ReadShort
<1>7. \A j \in (i + 4) .. End : Read(j - 2, <<"*", "/">>) => j - 2 \in Closings
  <2>1. ASSUME NEW j \in (i + 4) .. End, Read(j - 2, <<"*", "/">>) PROVE j - 2 \in Closings
    <3>1. j - 2 \in Nat /\ j - 2 >= 1 /\ j - 2 < End
      BY <1>0
    <3>2. peek(j - 2) = "*" /\ peek(j - 2 + 1) = "/"
      BY <2>1, <3>1, ReadShort
    <3>3. j - 2 \in DOMAIN text
      BY <3>1 DEF Sources, End
    <3> QED BY <3>1, <3>2, <3>3 DEF Closings, peek
  <2> QED BY <2>1
<1>8. ASSUME close < End PROVE TriviaAt(i, close + 2)
  <2> DEFINE closed == {j \in (i + 4) .. (close + 2) : Read(j - 2, <<"*", "/">>)}
  <2>1. close + 2 \in closed
    <3>1. close + 2 \in (i + 4) .. (close + 2) /\ (close + 2) - 2 = close /\ close \in Nat
      BY <1>0, <1>2
    <3>2. Read(close, <<"*", "/">>)
      BY <1>3, <1>8, <3>1, ReadShort
    <3> QED BY <3>1, <3>2
  <2>2. ASSUME NEW j \in closed PROVE j = close + 2
    <3>1. j \in (i + 4) .. End /\ j <= close + 2
      BY <1>0, <1>2, <1>4, <1>8
    <3>2. j - 2 \in Closings /\ j - 2 \in (i + 2) .. close
      BY <1>0, <1>2, <1>7, <3>1
    <3>3. j - 2 \notin (i + 2) .. (close - 1)
      BY <1>2, <3>2
    <3> QED BY <1>0, <1>2, <3>1, <3>2, <3>3
  <2>3. closed = {close + 2}
    BY <2>1, <2>2
  <2> QED BY <1>6, <2>3 DEF TriviaAt
<1>9. ASSUME close = End PROVE TriviaAt(i, End)
  <2> DEFINE closed == {j \in (i + 4) .. End : Read(j - 2, <<"*", "/">>)}
  <2>1. ASSUME NEW j \in closed PROVE FALSE
    <3>1. j - 2 \in Closings
      BY <1>7
    <3>2. j - 2 \in (i + 2) .. (close - 1)
      BY <1>0, <1>9
    <3> QED BY <1>2, <3>1, <3>2
  <2>2. closed = {}
    BY <2>1
  <2> QED BY <1>6, <2>2 DEF TriviaAt
<1> QED BY <1>1, <1>2, <1>3, <1>4, <1>5, <1>8, <1>9

(* Every step of skip_trivia passes a piece of trivia.                      *)
LEMMA TriviaPassed ==
    ASSUME TypeOK, Blank \/ Newline \/ Splice \/ LineComment \/ BlockComment
    PROVE  text' = text /\ toks' = toks /\ cur' \in Nat /\ cur <= cur' /\ TriviaAt(cur, cur')
<1>0. /\ Sources /\ cur \in 1 .. End /\ End \in Nat /\ cur \in Nat /\ cur >= 1
  BY EndIsPlace DEF TypeOK, Sources
<1>1. CASE Blank
  <2>1. text[cur] \in Blanks
    BY <1>1, Zenon DEF Blank, Blanks, peek
  <2>2. TriviaAt(cur, cur + 1)
    BY <2>1, Zenon DEF TriviaAt
  <2> QED BY <1>0, <1>1, <2>2 DEF Blank
<1>2. CASE Newline
  <2>1. text[cur] = "\n"
    BY <1>2, Zenon DEF Newline, peek
  <2>2. TriviaAt(cur, cur + 1)
    BY <2>1 DEF TriviaAt
  <2> QED BY <1>0, <1>2, <2>2 DEF Newline
<1>3. CASE Splice
  <2>1. \/ /\ SpliceEnd(cur) = cur + 2 /\ peek(cur) = "\\" /\ peek(cur + 1) = "\n"
        \/ /\ SpliceEnd(cur) = cur + 3 /\ peek(cur) = "\\" /\ peek(cur + 1) = "\r"
           /\ peek(cur + 2) = "\n"
        \/ SpliceEnd(cur) = cur
    BY Zenon DEF SpliceEnd
  <2>2. SpliceEnd(cur) # cur
    BY <1>0, <1>3 DEF Splice
  <2>3. TriviaAt(cur, SpliceEnd(cur)) /\ SpliceEnd(cur) \in {cur + 2, cur + 3}
    BY <1>0, <2>1, <2>2, ReadShort DEF TriviaAt
  <2> QED BY <1>0, <1>3, <2>3 DEF Splice
<1>4. CASE LineComment
  <2> DEFINE nls == {k \in DOMAIN text : text[k] = "\n"}
  <2>1. cur' = First(cur + 2, nls) /\ peek(cur) = "/" /\ peek(cur + 1) = "/"
    BY <1>4 DEF LineComment
  <2>2. cur + 1 < End /\ cur + 2 \in 1 .. End
    BY <1>0, <2>1, PeekInside
  <2>3. /\ First(cur + 2, nls) \in (cur + 2) .. End
        /\ First(cur + 2, nls) = End \/ First(cur + 2, nls) \in nls
        /\ \A j \in (cur + 2) .. (First(cur + 2, nls) - 1) : j \notin nls
    BY <1>0, <2>2, FirstInRange
  <2> PICK k \in (cur + 2) .. End : k = First(cur + 2, nls)
    BY <2>3
  <2>4. text[cur] = "/" /\ text[cur + 1] = "/"
    BY <1>0, <2>1, <2>2 DEF peek
  <2>5. Newlines(cur, k) = {}
    <3>1. ASSUME NEW j \in cur .. (k - 1), text[j] = "\n" PROVE FALSE
      <4>1. j \in {cur, cur + 1} \/ j \in (cur + 2) .. (k - 1)
        BY <1>0
      <4>2. j \in DOMAIN text
        BY <1>0 DEF Sources, End
      <4> QED BY <2>3, <2>4, <3>1, <4>1, <4>2
    <3> QED BY <3>1 DEF Newlines
  <2>6. peek(k) \in {"\n", "end"}
    BY <2>3 DEF peek
  <2>7. TriviaAt(cur, k)
    <3>1. Read(cur, <<"/", "/">>)
      BY <1>0, <2>1, ReadShort
    <3>2. k >= cur + 2
      BY <1>0
    <3> QED BY <2>5, <2>6, <3>1, <3>2, Zenon DEF TriviaAt
  <2>8. cur' = k
    BY <2>1
  <2>9. k \in Nat /\ cur <= k
    BY <1>0
  <2> QED BY <1>4, <2>7, <2>8, <2>9 DEF LineComment
<1>5. CASE BlockComment
  <2> PICK close : close = First(cur + 2, Closings)
    OBVIOUS
  <2>1. /\ peek(cur) = "/" /\ peek(cur + 1) = "*"
        /\ cur' = IF close < End THEN close + 2 ELSE End
        /\ text' = text /\ toks' = toks
    BY <1>5 DEF BlockComment
  <2>2. /\ close \in (cur + 2) .. End
        /\ close < End => TriviaAt(cur, close + 2)
        /\ close = End => TriviaAt(cur, End)
    BY <1>0, <2>1, CommentIsTrivia
  <2>3. CASE close < End
    BY <1>0, <2>1, <2>2, <2>3
  <2>4. CASE close = End
    BY <1>0, <2>1, <2>2, <2>4
  <2> QED BY <1>0, <2>2, <2>3, <2>4
<1> QED BY <1>1, <1>2, <1>3, <1>4, <1>5

LastEnd == IF toks = <<>> THEN 1 ELSE EndOf(Len(toks))

Covered ==
    /\ \A k \in DOMAIN toks :
          Gap(text, IF k = 1 THEN 1 ELSE EndOf(k - 1), toks[k].start)
    /\ Gap(text, LastEnd, cur)

LEMMA CoveredMeans == TypeOK /\ Covered => OnlyTriviaDropped
<1> SUFFICES ASSUME TypeOK, Covered, NEW k \in 0 .. Len(toks)
             PROVE  AllTrivia(IF k = 0 THEN 1 ELSE EndOf(k),
                              IF k = Len(toks) THEN cur ELSE toks[k + 1].start)
  BY DEF OnlyTriviaDropped
<1>0. toks \in Seq(TokenType) /\ Len(toks) \in Nat /\ DOMAIN toks = 1 .. Len(toks)
  BY DEF TypeOK
<1>1. CASE k = Len(toks)
  <2>1. toks = <<>> <=> k = 0
    BY <1>0, <1>1
  <2>2. LastEnd = IF k = 0 THEN 1 ELSE EndOf(k)
    BY <1>1, <2>1 DEF LastEnd
  <2> QED BY <1>1, <2>2, GapHere DEF Covered
<1>2. CASE k # Len(toks)
  <2>1. k + 1 \in DOMAIN toks /\ (k + 1 = 1 <=> k = 0) /\ (k + 1) - 1 = k
    <3> PICK n \in Nat : n = Len(toks)
      BY <1>0
    <3> QED BY <1>0, <1>2
  <2>2. Gap(text, IF k = 0 THEN 1 ELSE EndOf(k), toks[k + 1].start)
    BY <2>1 DEF Covered
  <2> QED BY <1>2, <2>2, GapHere
<1> QED BY <1>1, <1>2

LEMMA LastEndTyped == TypeOK => LastEnd \in Nat /\ LastEnd <= cur
<1> SUFFICES ASSUME TypeOK PROVE LastEnd \in Nat /\ LastEnd <= cur
  OBVIOUS
<1>0. toks \in Seq(TokenType) /\ cur \in Nat /\ cur >= 1
  BY EndIsPlace DEF TypeOK, Sources
<1>1. CASE toks = <<>>
  BY <1>0, <1>1 DEF LastEnd
<1>2. CASE toks # <<>>
  <2>1. Len(toks) \in DOMAIN toks
    BY <1>0, <1>2
  <2>2. EndOf(Len(toks)) \in Nat /\ EndOf(Len(toks)) <= cur
    BY <2>1, TokensTyped DEF TypeOK
  <2> QED BY <1>2, <2>2 DEF LastEnd
<1> QED BY <1>1, <1>2

LEMMA CoveredStep == TypeOK /\ Covered /\ [Next]_vars => Covered'
<1> SUFFICES ASSUME TypeOK, Covered, [Next]_vars PROVE Covered'
  OBVIOUS
<1>0. /\ Sources /\ cur \in 1 .. End /\ cur \in Nat /\ toks \in Seq(TokenType)
      /\ text' = text
      /\ LastEnd \in Nat /\ LastEnd <= cur
  BY TokensGrow, EndIsPlace, LastEndTyped DEF TypeOK, Sources
<1>1. CASE Blank \/ Newline \/ Splice \/ LineComment \/ BlockComment
  <2>1. toks' = toks /\ cur' \in Nat /\ cur <= cur' /\ TriviaIn(text, cur, cur')
    BY <1>1, TriviaPassed, TriviaHere
  <2>2. LastEnd' = LastEnd
    BY <2>1 DEF LastEnd, EndOf
  <2>3. Gap(text, LastEnd, cur')
    <3> PICK m \in Nat : m = cur'
      BY <2>1
    <3> PICK i \in Nat : i = LastEnd
      BY <1>0
    <3>1. Gap(text, i, cur)
      BY DEF Covered
    <3> QED BY <1>0, <2>1, <3>1, GapGrows
  <2>4. \A k \in DOMAIN toks : Gap(text, IF k = 1 THEN 1 ELSE EndOf(k - 1)', toks[k].start)
    BY <2>1 DEF Covered, EndOf
  <2> QED BY <1>0, <2>1, <2>2, <2>3, <2>4 DEF Covered
<1>2. ASSUME NEW kind, NEW e \in Nat, cur' = e,
             toks' = Append(toks, make_token(kind, cur, e))
      PROVE  Covered'
  <2> PICK n \in Nat : n = Len(toks) + 1
    BY <1>0
  <2>1. /\ DOMAIN toks' = DOMAIN toks \cup {n}
        /\ \A k \in DOMAIN toks : toks'[k] = toks[k]
        /\ toks'[n].start = cur /\ EndOf(n)' = e
    BY <1>2, MadeAt
  <2>2. Len(toks') = n /\ toks' # <<>> /\ DOMAIN toks = 1 .. (n - 1)
    BY <1>0, <1>2
  <2>3. LastEnd' = e
    <3>1. LastEnd' = EndOf(Len(toks))'
      BY <2>2 DEF LastEnd
    <3>2. EndOf(Len(toks))' = EndOf(n)'
      BY <2>2 DEF EndOf
    <3> QED BY <2>1, <3>1, <3>2
  <2>4. \A k \in DOMAIN toks : EndOf(k)' = EndOf(k)
    BY <2>1 DEF EndOf
  <2>5. ASSUME NEW k \in DOMAIN toks'
        PROVE  Gap(text, IF k = 1 THEN 1 ELSE EndOf(k - 1)', toks'[k].start)
    <3>1. CASE k = n
      <4>1. n = 1 <=> toks = <<>>
        BY <1>0
      <4>2. n # 1 => n - 1 \in DOMAIN toks /\ n - 1 = Len(toks)
        BY <1>0, <2>2
      <4>3. (IF n = 1 THEN 1 ELSE EndOf(n - 1)') = LastEnd
        BY <2>4, <4>1, <4>2 DEF LastEnd
      <4> QED BY <2>1, <3>1, <4>3 DEF Covered
    <3>2. CASE k \in DOMAIN toks
      <4>1. k # 1 => k - 1 \in DOMAIN toks
        BY <2>2, <3>2
      <4>2. Gap(text, IF k = 1 THEN 1 ELSE EndOf(k - 1), toks[k].start)
        BY <3>2 DEF Covered
      <4> QED BY <2>1, <2>4, <3>2, <4>1, <4>2
    <3> QED BY <2>1, <3>1, <3>2
  <2>6. Gap(text, e, e)
    BY NoGap
  <2> QED BY <1>0, <1>2, <2>3, <2>5, <2>6 DEF Covered
<1>3. CASE Token
  <2>1. /\ cur' = lex(cur).end
        /\ toks' = Append(toks, make_token(lex(cur).kind, cur, lex(cur).end))
    BY <1>3 DEF Token
  <2>2. lex(cur).end \in Nat
    BY <1>0, <1>3, TokenInside, EndIsPlace DEF Token
  <2> QED BY <1>2, <2>1, <2>2
<1>4. CASE Eof
  <2>1. cur' = cur /\ toks' = Append(toks, make_token("eof", cur, cur))
    BY <1>4 DEF Eof
  <2> QED BY <1>0, <1>2, <2>1
<1>5. CASE UNCHANGED vars
  BY <1>5 DEF vars, Covered, LastEnd, EndOf
<1> QED BY <1>1, <1>3, <1>4, <1>5 DEF Next

(* Whatever the source, nothing of it is lost: the tokens, and white space, *)
(* spliced lines and comments as C has them, cover what the lexer has      *)
(* passed (skip_trivia and next_token, Lexer.c:187-277).                    *)
THEOREM NothingIsLost == Spec => []OnlyTriviaDropped
<1>1. Init => Covered
  <2> SUFFICES ASSUME Init PROVE Covered
    OBVIOUS
  <2>1. toks = <<>> /\ DOMAIN toks = {} /\ cur = 1 /\ LastEnd = 1
    BY DEF Init, LastEnd
  <2>2. Gap(text, 1, 1)
    BY NoGap
  <2> QED BY <2>1, <2>2 DEF Covered
<1> QED BY <1>1, InitTyped, NextTyped, CoveredStep, CoveredMeans, PTL DEF Spec

-----------------------------------------------------------------------------
(* Lines and columns.                                                      *)

(* The newlines of t before p that are in none of the first n tokens of ts. *)
Lines(t, ts, n, p) ==
    {j \in 1 .. (p - 1) :
        t[j] = "\n" /\ \A l \in 1 .. n : j \notin ts[l].start .. (ts[l].start + ts[l].len - 1)}

LastOf(S) == IF S = {} THEN 0 ELSE Latest(S)

(* A comment of more than one line, the last of S, was closed before p, or  *)
(* was not closed.                                                         *)
Behind(t, S, p, err) ==
    \/ \E j \in (LastOf(S) + 1) .. (p - 2) :
          j \in {k \in DOMAIN t : t[k] = "*" /\ CharAt(t, k + 1) = "/"}
    \/ err

(* The line and where it starts are right at p after n tokens.              *)
Counts(t, ts, n, p, ln, start, err) ==
    LET S == Lines(t, ts, n, p)
    IN /\ ln = 1 + Cardinality(S)
       /\ start = LastOf(S) + 1 \/ (start = LastOf(S) /\ Behind(t, S, p, err))

(* The k-th token is where it says.                                        *)
Placed(t, ts, k, err) ==
    LET S == Lines(t, ts, k - 1, ts[k].start)
    IN /\ ts[k].line = 1 + Cardinality(S)
       /\ \/ ts[k].col = ts[k].start - LastOf(S)
          \/ /\ ts[k].col = ts[k].start - LastOf(S) + 1
             /\ Behind(t, S, ts[k].start, ts[k].kind = "eof" /\ err)

LEMMA LinesFinite ==
    ASSUME NEW t, NEW ts, NEW n, NEW p \in Nat
    PROVE  /\ Lines(t, ts, n, p) \in SUBSET (1 .. (p - 1))
           /\ IsFiniteSet(Lines(t, ts, n, p)) /\ Cardinality(Lines(t, ts, n, p)) \in Nat
<1>1. Lines(t, ts, n, p) \in SUBSET (1 .. (p - 1))
  BY DEF Lines
<1>2. IsFiniteSet(1 .. (p - 1))
  BY FS_Interval
<1> QED BY <1>1, <1>2, FS_Subset, FS_CardinalityType

Feeds(t, p, q) == {j \in p .. (q - 1) : t[j] = "\n"}

LEMMA LastTyped ==
    ASSUME NEW p \in Nat, NEW S \in SUBSET (1 .. (p - 1))
    PROVE  LastOf(S) \in Nat
<1>1. S \in SUBSET (1 .. p) /\ 1 \in Nat /\ S \subseteq Nat
  OBVIOUS
<1>2. S # {} => Latest(S) \in S
  BY <1>1, LatestHas
<1> QED BY <1>1, <1>2 DEF LastOf

(* The first n tokens end at or before p.                                  *)
EndBy(ts, n, p) ==
    \A l \in 1 .. n : /\ ts[l].start \in Nat /\ ts[l].len \in Nat
                      /\ ts[l].start + ts[l].len <= p

(* Behind a place no token reaches past, the newlines are those up to there *)
(* and those after.                                                        *)
LEMMA LinesGrow ==
    ASSUME NEW t, NEW ts, NEW n \in Nat, NEW p \in Nat \ {0}, NEW q \in Nat, p <= q,
           EndBy(ts, n, p)
    PROVE  Lines(t, ts, n, q) = Lines(t, ts, n, p) \cup Feeds(t, p, q)
<1>1. ASSUME NEW l \in 1 .. n, NEW j \in p .. (q - 1)
      PROVE  j \notin ts[l].start .. (ts[l].start + ts[l].len - 1)
  <2> PICK a \in Nat : a = ts[l].start
    BY DEF EndBy
  <2> PICK b \in Nat : b = ts[l].len
    BY DEF EndBy
  <2>1. a + b <= p
    BY DEF EndBy
  <2>2. j \notin a .. (a + b - 1)
    BY <2>1
  <2> QED BY <2>2
<1>2. \A j \in 1 .. (q - 1) : j \in 1 .. (p - 1) \/ j \in p .. (q - 1)
  OBVIOUS
<1>3. \A j : (j \in 1 .. (p - 1) \/ j \in p .. (q - 1)) => j \in 1 .. (q - 1)
  OBVIOUS
<1>4. ASSUME NEW j \in Lines(t, ts, n, q)
      PROVE  j \in Lines(t, ts, n, p) \cup Feeds(t, p, q)
  BY <1>2 DEF Lines, Feeds
<1>5. ASSUME NEW j \in Lines(t, ts, n, p) PROVE j \in Lines(t, ts, n, q)
  BY <1>3 DEF Lines
<1>6. ASSUME NEW j \in Feeds(t, p, q) PROVE j \in Lines(t, ts, n, q)
  BY <1>1, <1>3 DEF Lines, Feeds
<1> QED BY <1>4, <1>5, <1>6

(* A piece without newlines of its own changes nothing.                    *)
LEMMA NoLines ==
    ASSUME NEW t, NEW ts, NEW n, NEW p \in Nat, NEW ts2, NEW n2, NEW q \in Nat, p <= q,
           Lines(t, ts2, n2, q) = Lines(t, ts, n, p),
           NEW ln, NEW start, NEW err, NEW err2, err => err2,
           Counts(t, ts, n, p, ln, start, err)
    PROVE  Counts(t, ts2, n2, q, ln, start, err2)
<1> PICK S : S = Lines(t, ts, n, p)
  OBVIOUS
<1> PICK m : m = LastOf(S)
  OBVIOUS
<1>1. /\ ln = 1 + Cardinality(S)
      /\ start = m + 1 \/ (start = m /\ Behind(t, S, p, err))
  BY DEF Counts
<1>2. Behind(t, S, p, err) => Behind(t, S, q, err2)
  <2>1. m \in Nat
    BY LinesFinite, LastTyped
  <2>2. \A j \in (m + 1) .. (p - 2) : j \in (m + 1) .. (q - 2)
    BY <2>1
  <2> QED BY <2>2 DEF Behind
<1> QED BY <1>1, <1>2 DEF Counts

(* A piece that ends in its only newline begins a line.                     *)
LEMMA OneLine ==
    ASSUME NEW t, NEW ts, NEW n, NEW p \in Nat, NEW q \in Nat, NEW m \in Nat,
           p <= m, m + 1 = q, m > 0,
           Lines(t, ts, n, q) = Lines(t, ts, n, p) \cup {m},
           NEW ln, NEW start, NEW err, NEW err2, Counts(t, ts, n, p, ln, start, err)
    PROVE  Counts(t, ts, n, q, ln + 1, q, err2)
<1> PICK S : S = Lines(t, ts, n, p)
  OBVIOUS
<1>1. /\ S \in SUBSET (1 .. (p - 1)) /\ IsFiniteSet(S) /\ Cardinality(S) \in Nat
      /\ ln = 1 + Cardinality(S)
  BY LinesFinite DEF Counts
<1>2. m \notin S /\ S \cup {m} \in SUBSET Int /\ \A k \in S \cup {m} : k <= m
  BY <1>1
<1>3. Cardinality(S \cup {m}) = Cardinality(S) + 1
  BY <1>1, <1>2, FS_AddElement
<1>4. Latest(S \cup {m}) = m
  BY <1>2, LatestIs
<1>5. ln + 1 = 1 + Cardinality(S \cup {m})
  BY <1>1, <1>3
<1>6. LastOf(S \cup {m}) = m
  BY <1>4 DEF LastOf
<1> QED BY <1>5, <1>6 DEF Counts

(* A comment of several lines counts them all, but takes its last newline   *)
(* for the beginning of the line.                                          *)
LEMMA ManyLines ==
    ASSUME NEW t, NEW ts, NEW n, NEW p \in Nat, NEW q \in Nat, p <= q,
           NEW N \in SUBSET (p .. (q - 1)), N # {},
           Lines(t, ts, n, q) = Lines(t, ts, n, p) \cup N,
           NEW ln, NEW start, NEW err, NEW err2, Counts(t, ts, n, p, ln, start, err),
           \/ \E j \in (Latest(N) + 1) .. (q - 2) :
                 j \in {k \in DOMAIN t : t[k] = "*" /\ CharAt(t, k + 1) = "/"}
           \/ err2
    PROVE  Counts(t, ts, n, q, ln + Cardinality(N), Latest(N), err2)
<1> PICK S : S = Lines(t, ts, n, p)
  OBVIOUS
<1>1. /\ S \in SUBSET (1 .. (p - 1)) /\ IsFiniteSet(S) /\ Cardinality(S) \in Nat
      /\ ln = 1 + Cardinality(S)
  BY LinesFinite DEF Counts
<1>2. IsFiniteSet(N) /\ Cardinality(N) \in Nat
  <2>1. IsFiniteSet(p .. (q - 1))
    BY FS_Interval
  <2> QED BY <2>1, FS_Subset, FS_CardinalityType
<1>3. S \cap N = {}
  BY <1>1
<1>4. Cardinality(S \cup N) = Cardinality(S) + Cardinality(N)
  BY <1>1, <1>2, <1>3, FS_Union, FS_EmptySet
<1>5. Latest(N) \in N /\ \A k \in N : k <= Latest(N)
  <2>1. N \in SUBSET (p .. q)
    OBVIOUS
  <2> QED BY <2>1, LatestHas
<1> PICK m \in N : m = Latest(N)
  BY <1>5
<1>6. \A k \in S \cup N : k <= m
  BY <1>1, <1>5
<1>7. S \cup N \in SUBSET Int /\ m \in S \cup N
  <2>1. (1 .. (p - 1)) \subseteq Int /\ (p .. (q - 1)) \subseteq Int
    OBVIOUS
  <2>2. S \subseteq Int /\ N \subseteq Int
    BY <1>1, <2>1, Zenon
  <2> QED BY <2>2
<1>8. Latest(S \cup N) = m
  BY <1>6, <1>7, LatestIs
<1>9. LastOf(S \cup N) = m
  BY <1>7, <1>8 DEF LastOf
<1>10. ln + Cardinality(N) = 1 + Cardinality(S \cup N)
  BY <1>1, <1>2, <1>4
<1>11. Behind(t, S \cup N, q, err2)
  BY <1>9 DEF Behind
<1> QED BY <1>9, <1>10, <1>11 DEF Counts

Counted == Counts(text, toks, Len(toks), cur, line, line_start, had_error)

LEMMA LinesHere ==
    ASSUME TypeOK, NEW q \in Nat, cur <= q
    PROVE  Lines(text, toks, Len(toks), q)
             = Lines(text, toks, Len(toks), cur) \cup Feeds(text, cur, q)
<1>1. cur \in Nat \ {0}
  BY EndIsPlace DEF TypeOK, Sources
<1> PICK n \in Nat : n = Len(toks)
  BY DEF TypeOK
<1>2. DOMAIN toks = 1 .. n
  BY DEF TypeOK
<1> PICK p \in Nat \ {0} : p = cur
  BY <1>1
<1> PICK ts : ts = toks
  OBVIOUS
<1>3. EndBy(ts, n, p)
  BY <1>2, TokensTyped DEF TypeOK, EndOf, EndBy
<1>4. n \in Nat /\ p <= q
  BY DEF TypeOK
<1>5. Lines(text, ts, n, q) = Lines(text, ts, n, p) \cup Feeds(text, p, q)
  BY <1>3, <1>4, LinesGrow
<1> QED BY <1>5

LEMMA SplitRange ==
    ASSUME NEW c \in Nat \ {0}, NEW d \in Nat, NEW e \in Nat, d <= e, NEW j \in c .. (d - 1)
    PROVE  (j \in {c, c + 1} \/ j \in (c + 2) .. (d - 1)) /\ j \in 1 .. (e - 1)
  OBVIOUS

LEMMA TriviaCounts ==
    ASSUME TypeOK, Counted, Blank \/ Newline \/ Splice \/ LineComment \/ BlockComment
    PROVE  Counts(text, toks, Len(toks), cur', line', line_start', had_error')
<1> DEFINE new == Feeds(text, cur, cur')
<1> PICK ts : ts = toks
  OBVIOUS
<1> PICK n : n = Len(toks)
  OBVIOUS
<1>0. /\ Sources /\ cur \in 1 .. End /\ End \in Nat /\ cur \in Nat /\ cur >= 1
      /\ cur' \in Nat /\ cur <= cur'
  BY TriviaPassed, EndIsPlace DEF TypeOK, Sources
<1> USE DEF Feeds
<1>1. Lines(text, ts, n, cur') = Lines(text, ts, n, cur) \cup new
  BY <1>0, LinesHere
<1>2. Counts(text, ts, n, cur, line, line_start, had_error)
  BY DEF Counted
<1>3. ASSUME new = {}, line' = line, line_start' = line_start, had_error => had_error'
      PROVE  Counts(text, ts, n, cur', line', line_start', had_error')
  <2>1. Lines(text, ts, n, cur') = Lines(text, ts, n, cur)
    BY <1>1, <1>3
  <2> QED BY <1>0, <1>2, <1>3, <2>1, NoLines
<1>4. ASSUME NEW m \in Nat, cur <= m, cur' = m + 1, new = {m},
             line' = line + 1, line_start' = cur'
      PROVE  Counts(text, ts, n, cur', line', line_start', had_error')
  <2>1. Lines(text, ts, n, m + 1) = Lines(text, ts, n, cur) \cup {m}
    BY <1>1, <1>4
  <2>2. m > 0 /\ m + 1 \in Nat
    BY <1>0, <1>4
  <2>3. Counts(text, ts, n, m + 1, line + 1, m + 1, had_error')
    BY <1>0, <1>2, <1>4, <2>1, <2>2, OneLine
  <2> QED BY <1>4, <2>3
<1>5. CASE Blank
  <2>1. text[cur] \in Blanks /\ cur' = cur + 1
    BY <1>5, Zenon DEF Blank, Blanks, peek
  <2>2. text[cur] # "\n"
    BY <2>1 DEF Blanks
  <2>3. \A j \in cur .. (cur' - 1) : j = cur
    BY <1>0, <2>1
  <2>4. new = {}
    BY <2>2, <2>3
  <2> HIDE DEF new
  <2> QED BY <1>3, <1>5, <2>4 DEF Blank
<1>6. CASE Newline
  <2>1. text[cur] = "\n" /\ cur' = cur + 1
    BY <1>6, Zenon DEF Newline, peek
  <2>2. \A j : j \in cur .. (cur' - 1) <=> j = cur
    BY <1>0, <2>1
  <2>3. new = {cur}
    BY <2>1, <2>2
  <2>4. line' = line + 1 /\ line_start' = cur'
    BY <1>6 DEF Newline, newline
  <2> HIDE DEF new
  <2> QED BY <1>0, <1>4, <2>1, <2>3, <2>4
<1>7. CASE Splice
  <2>1. \/ /\ SpliceEnd(cur) = cur + 2 /\ peek(cur) = "\\" /\ peek(cur + 1) = "\n"
        \/ /\ SpliceEnd(cur) = cur + 3 /\ peek(cur) = "\\" /\ peek(cur + 1) = "\r"
           /\ peek(cur + 2) = "\n"
        \/ SpliceEnd(cur) = cur
    BY Zenon DEF SpliceEnd
  <2>2. SpliceEnd(cur) # cur /\ cur' = SpliceEnd(cur) /\ line' = line + 1 /\ line_start' = cur'
    BY <1>0, <1>7 DEF Splice, newline
  <2>3. \A i : peek(i) # "end" => text[i] = peek(i)
    BY DEF peek
  <2>4. CASE cur' = cur + 2 /\ text[cur] = "\\" /\ text[cur + 1] = "\n"
    <3>1. \A j : j \in cur .. (cur' - 1) <=> j = cur \/ j = cur + 1
      BY <1>0, <2>4
    <3>2. new = {cur + 1}
      BY <2>4, <3>1
    <3>3. cur + 1 \in Nat /\ cur <= cur + 1 /\ cur' = (cur + 1) + 1
      BY <1>0, <2>4
    <3> HIDE DEF new
    <3> QED BY <1>4, <2>2, <3>2, <3>3
  <2>5. CASE /\ cur' = cur + 3 /\ text[cur] = "\\" /\ text[cur + 1] = "\r"
             /\ text[cur + 2] = "\n"
    <3>1. \A j : j \in cur .. (cur' - 1) <=> j = cur \/ j = cur + 1 \/ j = cur + 2
      BY <1>0, <2>5
    <3>2. new = {cur + 2}
      BY <2>5, <3>1
    <3>3. cur + 2 \in Nat /\ cur <= cur + 2 /\ cur' = (cur + 2) + 1
      BY <1>0, <2>5
    <3> HIDE DEF new
    <3> QED BY <1>4, <2>2, <3>2, <3>3
  <2> QED BY <2>1, <2>2, <2>3, <2>4, <2>5
<1>8. CASE LineComment
  <2> DEFINE nls == {k \in DOMAIN text : text[k] = "\n"}
  <2>1. cur' = First(cur + 2, nls) /\ peek(cur) = "/" /\ peek(cur + 1) = "/"
    BY <1>8 DEF LineComment
  <2>2. cur + 1 < End /\ cur + 2 \in 1 .. End
    BY <1>0, <2>1, PeekInside
  <2>3. /\ cur' \in (cur + 2) .. End
        /\ \A j \in (cur + 2) .. (cur' - 1) : j \notin nls
    BY <1>0, <2>1, <2>2, FirstInRange
  <2>4. text[cur] = "/" /\ text[cur + 1] = "/"
    BY <1>0, <2>1, <2>2 DEF peek
  <2>5. ASSUME NEW j \in new PROVE FALSE
    <3>0. j \in cur .. (cur' - 1) /\ text[j] = "\n"
      OBVIOUS
    <3> HIDE DEF new
    <3> PICK c \in Nat \ {0}, d \in Nat, e \in Nat : c = cur /\ d = cur' /\ e = End /\ d <= e
      BY <1>0, <2>3
    <3>1. j \in c .. (d - 1)
      BY <3>0
    <3>2. (j \in {c, c + 1} \/ j \in (c + 2) .. (d - 1)) /\ j \in 1 .. (e - 1)
      BY <3>1, SplitRange
    <3>3. j \in DOMAIN text
      BY <1>0, <3>2 DEF Sources, End
    <3>4. text[j] = "\n"
      BY <3>0
    <3> QED BY <2>3, <2>4, <3>2, <3>3, <3>4
  <2>6. new = {}
    BY <2>5
  <2> HIDE DEF new
  <2> QED BY <1>3, <1>8, <2>6 DEF LineComment
<1>9. CASE BlockComment
  <2> PICK close : close = First(cur + 2, Closings)
    OBVIOUS
  <2> PICK N : N = Newlines(cur + 2, close)
    OBVIOUS
  <2>1. /\ peek(cur) = "/" /\ peek(cur + 1) = "*"
        /\ cur' = IF close < End THEN close + 2 ELSE End
        /\ had_error' = (close = End)
        /\ line' = line + Cardinality(N)
        /\ line_start' = IF N = {} THEN line_start ELSE Latest(N)
        /\ ~had_error
    BY <1>9 DEF BlockComment, Going
  <2>2. /\ close \in (cur + 2) .. End
        /\ close < End => text[close] = "*" /\ text[close + 1] = "/"
    BY <1>0, <2>1, CommentIsTrivia
  <2>3. text[cur] = "/" /\ text[cur + 1] = "*" /\ cur + 1 < End
    BY <1>0, <2>1, PeekInside DEF peek
  <2>4. N \in SUBSET ((cur + 2) .. (close - 1))
    BY DEF Newlines
  <2>5. new = N
    <3>1. ASSUME NEW j \in new PROVE j \in N
      <4>1. \/ j \in {cur, cur + 1}
            \/ j \in (cur + 2) .. (close - 1)
            \/ close < End /\ j \in {close, close + 1}
        BY SMTT(30), <1>0, <2>1, <2>2
      <4> QED BY <2>2, <2>3, <4>1 DEF Newlines
    <3>2. ASSUME NEW j \in N PROVE j \in new
      <4>1. text[j] = "\n" /\ j \in (cur + 2) .. (close - 1)
        BY DEF Newlines
      <4>2. j \in cur .. (cur' - 1)
        BY SMTT(30), <1>0, <2>1, <2>2, <4>1
      <4> QED BY <4>1, <4>2
    <3> QED BY <3>1, <3>2
  <2> HIDE DEF new
  <2>6. CASE N = {}
    <3>1. Cardinality(N) = 0
      BY <2>6, FS_EmptySet
    <3>2. line \in Nat
      BY DEF TypeOK
    <3>3. line' = line /\ line_start' = line_start
      BY <2>1, <2>6, <3>1, <3>2
    <3> QED BY <1>3, <2>1, <2>5, <2>6, <3>3
  <2>7. CASE N # {}
    <3>1. N \in SUBSET (cur .. (cur' - 1))
      <4>1. \A j \in (cur + 2) .. (close - 1) : j \in cur .. (cur' - 1)
        BY SMTT(30), <1>0, <2>1, <2>2
      <4> QED BY <2>4, <4>1
    <3>2. Latest(N) \in N
      <4>1. N \in SUBSET (0 .. End)
        BY <1>0, <2>2, <2>4
      <4> QED BY <1>0, <2>7, <4>1, LatestHas
    <3>3. \/ \E j \in (Latest(N) + 1) .. (cur' - 2) :
                j \in {k \in DOMAIN text : text[k] = "*" /\ CharAt(text, k + 1) = "/"}
          \/ had_error'
      <4>1. CASE close = End
        BY <2>1, <4>1
      <4>2. CASE close < End
        <5> PICK m \in (cur + 2) .. (close - 1) : m = Latest(N)
          BY <2>4, <3>2
        <5>1. close \in (m + 1) .. (cur' - 2)
          BY SMTT(30), <1>0, <2>1, <2>2, <4>2
        <5>2. close \in DOMAIN text /\ close + 1 < End
          <6>1. close \in Nat /\ close >= 1
            BY <1>0, <2>2
          <6>2. close + 2 <= End
            BY <1>0, <2>1, <2>2, <4>2, CommentIsTrivia
          <6> QED BY <1>0, <4>2, <6>1, <6>2 DEF Sources, End
        <5>3. CharAt(text, close + 1) = "/"
          BY <2>2, <4>2, <5>2 DEF CharAt, End
        <5> QED BY <2>2, <4>2, <5>1, <5>2, <5>3
      <4>3. close = End \/ close < End
        BY <1>0, <2>2
      <4> QED BY <4>1, <4>2, <4>3
    <3>4. Lines(text, ts, n, cur') = Lines(text, ts, n, cur) \cup N
      BY <1>1, <2>5
    <3>5. Counts(text, ts, n, cur', line + Cardinality(N), Latest(N), had_error')
      <4> PICK q \in Nat : q = cur'
        BY <1>0
      <4>1. N \in SUBSET (cur .. (q - 1)) /\ cur <= q
        BY <1>0, <3>1
      <4> QED BY <1>0, <1>2, <2>7, <3>3, <3>4, <4>1, ManyLines
    <3> QED BY <2>1, <2>7, <3>5
  <2> QED BY <2>6, <2>7
<1> QED BY <1>5, <1>6, <1>7, <1>8, <1>9

(* A token takes the newlines in it out of the count.                      *)
LEMMA LinesToken ==
    ASSUME NEW t, NEW ts, NEW ts2, NEW n \in Nat, NEW p \in Nat \ {0}, NEW q \in Nat, p <= q,
           \A l \in 1 .. n : ts2[l] = ts[l],
           EndBy(ts, n, p),
           ts2[n + 1].start = p, ts2[n + 1].len = q - p
    PROVE  Lines(t, ts2, n + 1, q) = Lines(t, ts, n, p)
<1>1. Lines(t, ts, n, q) = Lines(t, ts, n, p) \cup Feeds(t, p, q)
  BY LinesGrow
<1>2. 1 .. (n + 1) = (1 .. n) \cup {n + 1}
  OBVIOUS
<1>3. p + (q - p - 1) = q - 1
  OBVIOUS
<1>4. Lines(t, ts2, n + 1, q) = Lines(t, ts, n, q) \ (p .. (q - 1))
  <2>1. ts2[n + 1].start .. (ts2[n + 1].start + ts2[n + 1].len - 1) = p .. (q - 1)
    BY <1>3
  <2> PICK own : own = p .. (q - 1)
    OBVIOUS
  <2>2. \A j : (\A l \in 1 .. (n + 1) :
                  j \notin ts2[l].start .. (ts2[l].start + ts2[l].len - 1))
            <=> /\ \A l \in 1 .. n : j \notin ts[l].start .. (ts[l].start + ts[l].len - 1)
                /\ j \notin own
    BY <1>2, <2>1
  <2> QED BY <2>2 DEF Lines
<1>5. ASSUME NEW j \in Lines(t, ts, n, p) PROVE j \notin p .. (q - 1)
  <2>1. j \in 1 .. (p - 1)
    BY DEF Lines
  <2> QED BY <2>1
<1>6. Feeds(t, p, q) \subseteq p .. (q - 1)
  BY DEF Feeds
<1> QED BY <1>1, <1>4, <1>5, <1>6

(* Only the tokens before it matter to a place.                            *)
LEMMA PlacedStays ==
    ASSUME NEW t, NEW ts, NEW ts2, NEW k \in Nat, \A l \in 1 .. k : ts2[l] = ts[l],
           k > 0, NEW err \in BOOLEAN, NEW err2 \in BOOLEAN, err => err2,
           Placed(t, ts, k, err)
    PROVE  Placed(t, ts2, k, err2)
<1>1. ts2[k] = ts[k]
  OBVIOUS
<1>2. \A l \in 1 .. (k - 1) : ts2[l] = ts[l]
  OBVIOUS
<1> PICK p : p = ts[k].start
  OBVIOUS
<1> PICK n : n = k - 1
  OBVIOUS
<1>3. Lines(t, ts2, n, p) = Lines(t, ts, n, p)
  BY <1>2 DEF Lines
<1> QED BY <1>1, <1>3 DEF Placed, Behind

(* What a token adds to those before it.                                   *)
Made(ts, ts2, n, p, e, ln, start, err) ==
    /\ p <= e
    /\ \A l \in 1 .. n : ts2[l] = ts[l]
    /\ EndBy(ts, n, p)
    /\ ts2[n + 1].start = p /\ ts2[n + 1].len = e - p
    /\ ts2[n + 1].line = ln /\ ts2[n + 1].col = p - start + 1
    /\ err => ts2[n + 1].kind = "eof"

(* A token that begins at p is where the count at p says.                  *)
LEMMA PlacedAt ==
    ASSUME NEW t, NEW ts, NEW ts2, NEW n \in Nat, NEW n2, n2 = n + 1,
           NEW p \in Nat \ {0}, NEW e \in Nat, NEW ln \in Nat, NEW start \in Nat,
           NEW err \in BOOLEAN, NEW err2 \in BOOLEAN, err => err2,
           Made(ts, ts2, n, p, e, ln, start, err), Counts(t, ts, n, p, ln, start, err)
    PROVE  Counts(t, ts2, n2, e, ln, start, err2) /\ Placed(t, ts2, n2, err2)
<1> USE DEF Made
<1>1. Lines(t, ts2, n + 1, e) = Lines(t, ts, n, p)
  <2>1. ts2[n + 1].start = p /\ ts2[n + 1].len = e - p
    OBVIOUS
  <2> QED BY <2>1, LinesToken
<1>2. Counts(t, ts2, n2, e, ln, start, err2)
  BY <1>1, NoLines
<1> PICK S : S = Lines(t, ts, n, p)
  OBVIOUS
<1> PICK m : m = LastOf(S)
  OBVIOUS
<1>3. Lines(t, ts2, n, p) = S
  BY DEF Lines
<1>4. /\ ln = 1 + Cardinality(S)
      /\ start = m + 1 \/ (start = m /\ Behind(t, S, p, err))
  BY DEF Counts
<1>5. Behind(t, S, p, err) => Behind(t, S, p, ts2[n2].kind = "eof" /\ err2)
  BY DEF Behind
<1>6. m \in Nat
  BY LinesFinite, LastTyped
<1>7. start = m + 1 => p - start + 1 = p - m
  BY <1>6
<1>8. n2 - 1 = n
  OBVIOUS
<1>9. Placed(t, ts2, n2, err2)
  BY <1>3, <1>4, <1>5, <1>7, <1>8 DEF Placed
<1> QED BY <1>2, <1>9

LEMMA AllPlaced ==
    ASSUME NEW t, NEW ts, NEW ts2, NEW n \in Nat, NEW n2, n2 = n + 1,
           NEW err \in BOOLEAN, NEW err2 \in BOOLEAN,
           err => err2, \A l \in 1 .. n : ts2[l] = ts[l],
           \A k \in 1 .. n : Placed(t, ts, k, err), Placed(t, ts2, n2, err2)
    PROVE  \A k \in 1 .. n2 : Placed(t, ts2, k, err2)
<1>1. ASSUME NEW k \in 1 .. n PROVE Placed(t, ts2, k, err2)
  <2>1. k \in Nat /\ k > 0 /\ \A l \in 1 .. k : ts2[l] = ts[l]
    OBVIOUS
  <2> QED BY <2>1, PlacedStays
<1>2. 1 .. n2 = (1 .. n) \cup {n2}
  OBVIOUS
<1> QED BY <1>1, <1>2

Positioned == Counted /\ \A k \in DOMAIN toks : Placed(text, toks, k, had_error)

LEMMA MadePlaced ==
    ASSUME NEW kind, NEW e \in Nat
    PROVE  /\ TypeOK /\ Positioned /\ text' = text /\ line' = line /\ line_start' = line_start
           /\ cur <= e /\ cur' = e /\ toks' = Append(toks, make_token(kind, cur, e))
           /\ had_error' \in BOOLEAN /\ (had_error => kind = "eof" /\ had_error')
           => Positioned'
<1>0. SUFFICES ASSUME TypeOK, Positioned, text' = text, line' = line, line_start' = line_start,
                      cur <= e, cur' = e, toks' = Append(toks, make_token(kind, cur, e)),
                      had_error' \in BOOLEAN, had_error => kind = "eof" /\ had_error'
               PROVE  Positioned'
  OBVIOUS
<1>a. PICK n \in Nat : n = Len(toks)
  BY <1>0 DEF TypeOK
<1>b. PICK p \in Nat \ {0} : p = cur
  BY <1>0, EndIsPlace DEF TypeOK, Sources
<1>c. PICK n2 : n2 = n + 1
  OBVIOUS
<1>d. PICK ts2, ts, t : ts2 = toks' /\ ts = toks /\ t = text
  OBVIOUS
<1>e. PICK err \in BOOLEAN, err2 \in BOOLEAN : err = had_error /\ err2 = had_error'
  BY <1>0 DEF TypeOK
<1>f. PICK ln \in Nat, start \in Nat : ln = line /\ start = line_start
  BY <1>0, EndIsPlace DEF TypeOK, Sources
<1>1. /\ Len(toks') = n2
      /\ DOMAIN toks = 1 .. n /\ DOMAIN toks' = 1 .. n2
      /\ \A l \in 1 .. n : ts2[l] = ts[l]
      /\ ts2[n2] = make_token(kind, cur, e)
  BY <1>0, <1>a, <1>c, <1>d DEF TypeOK
<1>2. EndBy(ts, n, p)
  BY <1>0, <1>1, <1>b, <1>d, TokensTyped DEF TypeOK, EndOf, EndBy
<1>3. /\ ts2[n2].start = p /\ ts2[n2].len = e - p
      /\ ts2[n2].kind = kind /\ ts2[n2].line = ln
      /\ ts2[n2].col = p - start + 1
  BY <1>1, <1>b, <1>f DEF make_token
<1>4. Counts(t, ts, n, p, ln, start, err)
  BY <1>0, <1>a, <1>b, <1>d, <1>e, <1>f DEF Positioned, Counted
<1>5. p <= e /\ (err => err2) /\ (err => ts2[n2].kind = "eof")
  BY <1>0, <1>b, <1>e, <1>3
<1>6. \A l \in 1 .. n : ts2[l] = ts[l]
  BY <1>1
<1>7. Made(ts, ts2, n, p, e, ln, start, err)
  BY <1>c, <1>2, <1>3, <1>5, <1>6 DEF Made
<1>8. Counts(t, ts2, n2, e, ln, start, err2) /\ Placed(t, ts2, n2, err2)
  <2>1. p <= e /\ (err => err2) /\ n2 = n + 1
    BY <1>c, <1>5
  <2> QED BY ONLY <1>4, <1>7, <2>1, PlacedAt
<1>9. \A k \in 1 .. n : Placed(t, ts, k, err)
  BY <1>0, <1>1, <1>d, <1>e DEF Positioned
<1>10. \A k \in 1 .. n2 : Placed(t, ts2, k, err2)
  BY <1>c, <1>5, <1>6, <1>8, <1>9, AllPlaced
<1> QED BY <1>0, <1>d, <1>e, <1>f, <1>1, <1>8, <1>10 DEF Positioned, Counted

LEMMA PositionedStep == TypeOK /\ Positioned /\ [Next]_vars => Positioned'
<1> SUFFICES ASSUME TypeOK, Positioned, [Next]_vars PROVE Positioned'
  OBVIOUS
<1>0. cur \in Nat /\ End \in Nat /\ Sources /\ cur \in 1 .. End
  BY EndIsPlace DEF TypeOK, Sources
<1>1. CASE Blank \/ Newline \/ Splice \/ LineComment \/ BlockComment
  <2>1. toks' = toks /\ text' = text /\ ~had_error
    BY <1>1 DEF Blank, Newline, Splice, LineComment, BlockComment, Going
  <2>2. Counts(text, toks, Len(toks), cur', line', line_start', had_error')
    BY <1>1, TriviaCounts DEF Positioned
  <2>3. ASSUME NEW k \in DOMAIN toks PROVE Placed(text, toks, k, had_error')
    <3>1. k \in Nat /\ k > 0 /\ had_error \in BOOLEAN /\ had_error' \in BOOLEAN
      BY NextTyped DEF TypeOK
    <3> QED BY <2>1, <2>3, <3>1, PlacedStays DEF Positioned
  <2> QED BY <2>1, <2>2, <2>3 DEF Positioned, Counted
<1>2. CASE Token
  <2>1. /\ cur' = lex(cur).end /\ text' = text /\ ~had_error
        /\ toks' = Append(toks, make_token(lex(cur).kind, cur, lex(cur).end))
        /\ line' = line /\ line_start' = line_start
    BY <1>2 DEF Token, Going
  <2>2. lex(cur).end \in Nat /\ cur <= lex(cur).end
    BY <1>0, <1>2, TokenInside, EndIsPlace DEF Token
  <2>3. had_error' \in BOOLEAN
    BY NextTyped DEF TypeOK
  <2> QED BY <2>1, <2>2, <2>3, MadePlaced
<1>3. CASE Eof
  <2>1. /\ cur' = cur /\ text' = text /\ had_error' = had_error
        /\ toks' = Append(toks, make_token("eof", cur, cur))
        /\ line' = line /\ line_start' = line_start
    BY <1>3 DEF Eof
  <2>2. had_error' \in BOOLEAN
    BY NextTyped DEF TypeOK
  <2> QED BY <1>0, <2>1, <2>2, MadePlaced
<1>4. CASE UNCHANGED vars
  BY <1>4 DEF vars, Positioned, Counted
<1> QED BY <1>1, <1>2, <1>3, <1>4 DEF Next

LEMMA PositionedMeans == TypeOK /\ Positioned => PositionsRight
<1> SUFFICES ASSUME TypeOK, Positioned, NEW k \in DOMAIN toks
             PROVE  LET t == toks[k]
                        counted == {j \in Newlines(1, t.start) :
                            \A l \in 1 .. (k - 1) : j \notin toks[l].start .. (EndOf(l) - 1)}
                        last == IF counted = {} THEN 0 ELSE Latest(counted)
                    IN /\ t.line = 1 + Cardinality(counted)
                       /\ \/ t.col = t.start - last
                          \/ /\ t.col = t.start - last + 1
                             /\ \/ \E j \in (last + 1) .. (t.start - 2) : j \in Closings
                                \/ t.kind = "eof" /\ had_error
  BY DEF PositionsRight
<1> PICK p : p = toks[k].start
  OBVIOUS
<1> DEFINE counted == {j \in Newlines(1, p) :
               \A l \in 1 .. (k - 1) : j \notin toks[l].start .. (EndOf(l) - 1)}
<1>1. ASSUME NEW l \in 1 .. (k - 1)
      PROVE  EndOf(l) - 1 = toks[l].start + (toks[l].len - 1)
  <2>1. l \in DOMAIN toks
    BY DEF TypeOK
  <2> PICK a \in Nat, b \in Nat : a = toks[l].start /\ b = toks[l].len
    BY <2>1, TokensTyped
  <2>2. EndOf(l) = a + b
    BY DEF EndOf
  <2>3. (a + b) - 1 = a + (b - 1)
    OBVIOUS
  <2> QED BY <2>2, <2>3
<1>2. counted = Lines(text, toks, k - 1, p)
  BY <1>1 DEF Lines, Newlines
<1>3. \A S : (IF S = {} THEN 0 ELSE Latest(S)) = LastOf(S)
  BY DEF LastOf
<1>4. Closings = {j \in DOMAIN text : text[j] = "*" /\ CharAt(text, j + 1) = "/"}
  BY DEF Closings, peek, CharAt, End
<1>5. Placed(text, toks, k, had_error)
  BY DEF Positioned
<1> HIDE DEF counted
<1>6. /\ toks[k].line = 1 + Cardinality(counted)
      /\ \/ toks[k].col = p - LastOf(counted)
         \/ /\ toks[k].col = p - LastOf(counted) + 1
            /\ \/ \E j \in (LastOf(counted) + 1) .. (p - 2) : j \in Closings
               \/ toks[k].kind = "eof" /\ had_error
  BY <1>2, <1>4, <1>5 DEF Placed, Behind
<1> QED BY <1>3, <1>6 DEF counted

(* Whatever the source, a token is where it says, but for two things that  *)
(* the code gets wrong: its line counts the newlines before it, except     *)
(* those in literals (after a backslash), and its column the characters    *)
(* since the last one counted, or one more on the last line of a comment   *)
(* of several lines (newline and make_token, Lexer.c:150-232).             *)
THEOREM PositionsCount == Spec => []PositionsRight
<1>1. Init => Positioned
  <2> SUFFICES ASSUME Init PROVE Positioned
    OBVIOUS
  <2>1. /\ toks = <<>> /\ DOMAIN toks = {} /\ cur = 1 /\ line = 1 /\ line_start = 1
    BY DEF Init
  <2>2. Lines(text, toks, Len(toks), 1) = {}
    BY DEF Lines
  <2>3. Counts(text, toks, Len(toks), 1, 1, 1, had_error)
    BY <2>2, FS_EmptySet DEF Counts, LastOf
  <2> QED BY <2>1, <2>3 DEF Positioned, Counted
<1> QED BY <1>1, InitTyped, NextTyped, PositionedStep, PositionedMeans, PTL DEF Spec

-----------------------------------------------------------------------------
(* Literals.                                                               *)

Slashes(t) == {p \in Nat : t[p] = "\\"}

LEMMA EscapedIsOdd ==
    ASSUME NEW i \in Nat, NEW k \in Nat, i <= k
    PROVE  Escaped(i, k) <=> OddRun(Slashes(text), i, k)
<1> DEFINE begins(j) == /\ \A l \in j .. (k - 1) : text[l] = "\\"
                        /\ j = i \/ text[j - 1] # "\\"
           first == CHOOSE j \in i .. k : begins(j)
<1>1. ASSUME NEW j \in i .. k PROVE begins(j) <=> RunFrom(Slashes(text), i, k, j)
  <2>1. \A l \in j .. (k - 1) : l \in Slashes(text) <=> text[l] = "\\"
    BY DEF Slashes
  <2>2. j # i => (j - 1 \in Slashes(text) <=> text[j - 1] = "\\")
    BY DEF Slashes
  <2> QED BY <2>1, <2>2 DEF RunFrom
<1>2. \E j \in i .. k : begins(j)
  BY <1>1, RunBegins
<1>3. first \in i .. k /\ begins(first)
  <2> HIDE DEF begins
  <2> QED BY <1>2
<1>4. RunFrom(Slashes(text), i, k, first)
  <2> HIDE DEF first
  <2> QED BY <1>1, <1>3
<1>5. Escaped(i, k) <=> (k - first) % 2 = 1
  BY DEF Escaped
<1> HIDE DEF first
<1> QED BY <1>4, <1>5, OddFrom

Double == "\""
Single == "'"
Quote(kind) == IF kind = "strlit" THEN Double ELSE Single

(* The first quote of a literal, and no later one that is not escaped but  *)
(* its last character.                                                     *)
ClosesFrom(t, end, quote, open) ==
    /\ t[open] = quote /\ t[end - 1] = quote
    /\ {j \in (open + 1) .. (end - 1) : t[j] \in {quote, "\n"} /\ ~OddRun(Slashes(t), open + 1, j)}
         = {end - 1}

Closes(t, start, end, quote) ==
    \E open \in start .. (end - 2) :
        /\ start > 0
        /\ \A j \in start .. (open - 1) : t[j] # quote
        /\ ClosesFrom(t, end, quote, open)

LEMMA QuotedCloses ==
    ASSUME Sources, NEW open \in 1 .. End, open < End, NEW quote \in {Double, Single},
           text[open] = quote, NEW kind, kind # "other",
           lex_quoted(open + 1, quote, kind).kind = kind
    PROVE  /\ lex_quoted(open + 1, quote, kind).end - 2 >= open
           /\ ClosesFrom(text, lex_quoted(open + 1, quote, kind).end, quote, open)
<1> DEFINE S == {k \in (open + 1) .. Len(text) :
                    text[k] \in {quote, "\n"} /\ ~Escaped(open + 1, k)}
<1> PICK e : e = First(open + 1, S)
  OBVIOUS
<1>0. open \in Nat /\ End \in Nat /\ open + 1 \in 1 .. End /\ Len(text) = End - 1
  BY EndIsPlace DEF End, Sources
<1>1. /\ e \in (open + 1) .. End
      /\ e = End \/ e \in S
      /\ \A j \in (open + 1) .. (e - 1) : j \notin S
  <2> HIDE DEF S
  <2> PICK i \in 1 .. End : i = open + 1
    BY <1>0
  <2> QED BY FirstInRange
<1>2. lex_quoted(open + 1, quote, kind)
        = IF peek(e) = quote THEN Lexeme(kind, e + 1) ELSE Lexeme("other", e)
  BY DEF lex_quoted
<1>3. peek(e) = quote
  BY <1>2 DEF Lexeme
<1>4. e < End /\ text[e] = quote
  <2>1. quote # "end"
    BY Zenon DEF Double, Single
  <2> QED BY <1>0, <1>1, <1>3, <2>1 DEF peek
<1>5. lex_quoted(open + 1, quote, kind).end = e + 1
  <2>1. lex_quoted(open + 1, quote, kind) = Lexeme(kind, e + 1)
    BY <1>2, <1>3
  <2>2. \A x, y : Lexeme(x, y).end = y
    BY DEF Lexeme
  <2> QED BY <2>1, <2>2
<1>6. e \in S
  BY <1>0, <1>1, <1>4
<1>7. ASSUME NEW k \in (open + 1) .. e
      PROVE  /\ Escaped(open + 1, k) <=> OddRun(Slashes(text), open + 1, k)
             /\ k \in (open + 1) .. Len(text)
  <2>1. k \in Nat /\ open + 1 \in Nat /\ open + 1 <= k
    BY <1>0, <1>1
  <2> QED BY <1>0, <1>1, <1>4, <2>1, EscapedIsOdd
<1> DEFINE C == {j \in (open + 1) .. e :
                    text[j] \in {quote, "\n"} /\ ~OddRun(Slashes(text), open + 1, j)}
<1>8. \A j \in (open + 1) .. e : j \in C <=> j \in S
  BY <1>7
<1>9. \A j \in (open + 1) .. e : j = e \/ j \in (open + 1) .. (e - 1)
  BY <1>0, <1>1
<1>10. C = {e}
  <2>1. \A j \in C : j \in (open + 1) .. e
    OBVIOUS
  <2>2. e \in (open + 1) .. e
    BY <1>0, <1>1
  <2> HIDE DEF C, S
  <2> QED BY <1>1, <1>6, <1>8, <1>9, <2>1, <2>2
<1>11. (e + 1) - 1 = e /\ (e + 1) - 2 >= open
  BY <1>0, <1>1
<1> QED BY <1>4, <1>5, <1>10, <1>11 DEF ClosesFrom

LEMMA LiteralCloses ==
    ASSUME Sources, NEW i \in 1 .. End, i < End, lex(i).kind \in {"strlit", "charlit"}
    PROVE  Closes(text, i, lex(i).end, Quote(lex(i).kind))
<1>0. i \in Nat /\ End \in Nat /\ \A j \in 1 .. End : j \in Nat
  BY EndIsPlace
<1>1. ASSUME NEW open \in i .. End, open < End, NEW quote \in {Double, Single}, NEW kind,
             text[open] = quote, kind \in {"strlit", "charlit"}, quote = Quote(kind),
             lex(i) = lex_quoted(open + 1, quote, kind), lex(i).kind = kind,
             \A j \in i .. (open - 1) : text[j] # quote
      PROVE  Closes(text, i, lex(i).end, Quote(lex(i).kind))
  <2>1. /\ lex(i).end - 2 >= open
        /\ ClosesFrom(text, lex(i).end, quote, open)
    BY <1>0, <1>1, QuotedCloses
  <2>2. lex(i).end \in Int /\ open \in Int
    BY <1>0, TokenInside
  <2>3. open \in i .. (lex(i).end - 2)
    BY <1>0, <2>1, <2>2
  <2>4. i > 0
    BY <1>0
  <2> QED BY <1>1, <2>1, <2>3, <2>4 DEF Closes
<1>2. \A e \in 1 .. End : peek(e) # "end" => e < End /\ text[e] = peek(e)
  BY DEF peek
<1>3. ASSUME NEW open \in i .. End, peek(open) = Double,
             lex(i) = lex_string(open + 1), \A j \in i .. (open - 1) : text[j] # Double
      PROVE  Closes(text, i, lex(i).end, Quote(lex(i).kind))
  <2>1. open < End /\ text[open] = Double
    <3>1. peek(open) # "end"
      BY <1>3, Zenon DEF Double
    <3> QED BY <1>0, <1>2, <1>3, <3>1
  <2>2. open + 1 \in 1 .. End
    BY <1>0, <2>1
  <2>3. lex(i).kind = "strlit"
    BY <1>3, <2>2, LiteralInside
  <2>4. lex_string(open + 1) = lex_quoted(open + 1, Double, "strlit")
    BY Zenon DEF lex_string, Double
  <2> QED BY <1>1, <1>3, <2>1, <2>3, <2>4 DEF Quote
<1>4. ASSUME NEW open \in i .. End, peek(open) = Single,
             lex(i) = lex_char(open + 1), \A j \in i .. (open - 1) : text[j] # Single
      PROVE  Closes(text, i, lex(i).end, Quote(lex(i).kind))
  <2>1. open < End /\ text[open] = Single
    <3>1. peek(open) # "end"
      BY <1>4, Zenon DEF Single
    <3> QED BY <1>0, <1>2, <1>4, <3>1
  <2>2. open + 1 \in 1 .. End
    BY <1>0, <2>1
  <2>3. lex(i).kind = "charlit"
    BY <1>4, <2>2, LiteralInside
  <2>4. lex_char(open + 1) = lex_quoted(open + 1, Single, "charlit")
    BY Zenon DEF lex_char, Single
  <2> QED BY <1>1, <1>4, <2>1, <2>3, <2>4 DEF Quote
<1>5. i \in i .. End /\ i .. (i - 1) = {}
  BY <1>0
<1>6. CASE peek(i) \in Letters /\ lex(i) = lex_ident(i)
  <2> DEFINE e == Run(i, Letters \cup Digits)
             word == SubSeq(text, i, e - 1)
  <2>1. \/ lex_ident(i) = lex_string(e + 1) /\ peek(e) = Double
        \/ lex_ident(i) = lex_char(e + 1) /\ peek(e) = Single
        \/ lex_ident(i) = Lexeme(IF word \in Keywords THEN "keyword" ELSE "ident", e)
    BY Zenon DEF lex_ident, Double, Single
  <2>2. e \in i .. End /\ \A j \in i .. (e - 1) : text[j] \in Letters \cup Digits
    <3>1. "end" \notin Letters \cup Digits
      BY Zenon DEF Letters, Digits
    <3> QED BY <3>1, RunInRange, RunOf
  <2>3. Double \notin Letters \cup Digits /\ Single \notin Letters \cup Digits
    BY Zenon DEF Letters, Digits, Double, Single
  <2> HIDE DEF e, word
  <2>4. \A j \in i .. (e - 1) : text[j] # Double /\ text[j] # Single
    BY <2>2, <2>3
  <2>5. lex(i) # Lexeme(IF word \in Keywords THEN "keyword" ELSE "ident", e)
    BY DEF Lexeme
  <2> QED BY <1>3, <1>4, <1>6, <2>1, <2>2, <2>4, <2>5
<1>7. \/ peek(i) \in Letters /\ lex(i) = lex_ident(i)
      \/ peek(i) = Double /\ lex(i) = lex_string(i + 1)
      \/ peek(i) = Single /\ lex(i) = lex_char(i + 1)
  BY KindOfMaker, Zenon DEF Double, Single
<1> QED BY <1>3, <1>4, <1>5, <1>6, <1>7

ClosedLiterals ==
    \A k \in DOMAIN toks : toks[k].kind \in {"strlit", "charlit"} =>
        Closes(text, toks[k].start, EndOf(k), Quote(toks[k].kind))

LEMMA LiteralsStep == TypeOK /\ ClosedLiterals /\ [Next]_vars => ClosedLiterals'
<1> SUFFICES ASSUME TypeOK, ClosedLiterals, [Next]_vars PROVE ClosedLiterals'
  OBVIOUS
<1>0. Sources /\ cur \in 1 .. End /\ text' = text
  BY TokensGrow DEF TypeOK, Sources
<1>1. ASSUME NEW k \in DOMAIN toks', toks'[k].kind \in {"strlit", "charlit"}
      PROVE  Closes(text', toks'[k].start, EndOf(k)', Quote(toks'[k].kind))
  <2>1. CASE k \in DOMAIN toks
    <3>1. toks'[k] = toks[k] /\ EndOf(k)' = EndOf(k)
      BY <2>1, TokensGrow
    <3> QED BY <1>0, <1>1, <2>1, <3>1 DEF ClosedLiterals
  <2>2. CASE k \notin DOMAIN toks
    <3>1. /\ toks'[k].start = cur /\ cur < End
          /\ toks'[k].kind = lex(cur).kind /\ EndOf(k)' = lex(cur).end
      BY <1>1, <2>2, TokensGrow DEF Fresh
    <3> QED BY <1>0, <1>1, <3>1, LiteralCloses
  <2> QED BY <2>1, <2>2
<1> QED BY <1>1 DEF ClosedLiterals

(* Where the first of some places is.                                      *)
LEMMA FirstIs ==
    ASSUME Sources, NEW i \in 1 .. End, NEW S, NEW o \in i .. End, o \in S,
           \A j \in i .. (o - 1) : j \notin S
    PROVE  First(i, S) = o
<1> PICK f \in i .. End : f = First(i, S)
  BY FirstInRange
<1>1. /\ f = End \/ f \in S
      /\ \A j \in i .. (f - 1) : j \notin S
  BY FirstInRange
<1>2. f \in Int /\ o \in Int /\ End \in Int /\ i \in Int
  BY EndIsPlace
<1>3. ~(o < f)
  BY <1>1, <1>2
<1>4. ~(f < o)
  BY <1>1, <1>2
<1> QED BY <1>2, <1>3, <1>4

LEMMA ClosedMeans == TypeOK /\ ClosedLiterals => LiteralsClosed
<1> SUFFICES ASSUME TypeOK, ClosedLiterals, NEW k \in DOMAIN toks,
                    toks[k].kind \in {"strlit", "charlit"}
    PROVE LET quote == text[EndOf(k) - 1]
              open == First(toks[k].start, {j \in DOMAIN text : text[j] = quote})
              esc[j \in open .. EndOf(k)] == j > open /\ text[j - 1] = "\\" /\ ~esc[j - 1]
          IN /\ quote = IF toks[k].kind = "strlit" THEN Double ELSE Single
             /\ {j \in (open + 1) .. (EndOf(k) - 1) : text[j] \in {quote, "\n"} /\ ~esc[j]}
                  = {EndOf(k) - 1}
  BY Zenon DEF LiteralsClosed, Double, Single
<1> DEFINE quote == text[EndOf(k) - 1]
           open == First(toks[k].start, {j \in DOMAIN text : text[j] = quote})
           esc[j \in open .. EndOf(k)] == j > open /\ text[j - 1] = "\\" /\ ~esc[j - 1]
<1> PICK b \in Nat, e \in Nat : b = toks[k].start /\ e = EndOf(k)
  BY TokensTyped
<1>0. /\ Sources /\ End \in Nat /\ DOMAIN text = 1 .. (End - 1) /\ e <= End
  BY TokensTyped, EndIsPlace DEF TypeOK, Sources, End
<1>1. PICK o \in b .. (e - 2) :
        /\ b > 0
        /\ \A j \in b .. (o - 1) : text[j] # Quote(toks[k].kind)
        /\ ClosesFrom(text, e, Quote(toks[k].kind), o)
  BY DEF ClosedLiterals, Closes
<1>2. quote = Quote(toks[k].kind) /\ text[o] = quote
  BY <1>1 DEF ClosesFrom
<1>3. text[o] # "\\"
  <2>1. Double # "\\" /\ Single # "\\"
    BY Zenon DEF Double, Single
  <2> QED BY <1>2, <2>1 DEF Quote
<1> HIDE DEF quote
<1>4. b \in 1 .. End /\ o \in Nat /\ o + 2 <= e
  BY <1>0, <1>1
<1>5. open = o
  <2> DEFINE S == {j \in DOMAIN text : text[j] = quote}
  <2>1. o \in S /\ o \in b .. End
    BY <1>0, <1>2, <1>4
  <2>2. \A j \in b .. (o - 1) : j \notin S
    BY <1>1, <1>2
  <2> HIDE DEF S
  <2>3. First(b, S) = o
    BY <1>0, <1>4, <2>1, <2>2, FirstIs
  <2> QED BY <2>3 DEF S
<1>6. \A j \in (o + 1) .. e : esc[j] <=> OddRun(Slashes(text), o + 1, j)
  <2>1. \E f : Alternates(Slashes(text), o, o, e, f)
    <3> PICK B : B = Slashes(text)
      OBVIOUS
    <3>1. o \in Nat /\ e \in Nat /\ o <= o
      BY <1>4
    <3>2. \E f : Alternates(B, o, o, e, f)
      BY <3>1, AlternatesIsOdd
    <3> QED BY <3>2
  <2>2. \A f : Alternates(Slashes(text), o, o, e, f)
          <=> f = [j \in o .. e |-> j > o /\ text[j - 1] = "\\" /\ ~f[j - 1]]
    <3>1. ASSUME NEW f, NEW j \in o .. e
          PROVE  (j > o /\ j - 1 \in Slashes(text) /\ ~f[j - 1])
                    = (j > o /\ text[j - 1] = "\\" /\ ~f[j - 1])
      BY <1>4 DEF Slashes
    <3> QED BY <3>1 DEF Alternates
  <2>3. esc = CHOOSE f : f = [j \in o .. e |-> j > o /\ text[j - 1] = "\\" /\ ~f[j - 1]]
    BY <1>5, ZenonT(60)
  <2> HIDE DEF esc
  <2>4. Alternates(Slashes(text), o, o, e, esc)
    BY <2>1, <2>2, <2>3, Zenon
  <2>5. \A j \in o .. e : esc[j] <=> j > o /\ OddRun(Slashes(text), o, j)
    BY <1>4, <2>4, AlternatesIsOdd
  <2>6. o \notin Slashes(text)
    BY <1>3 DEF Slashes
  <2>7. ASSUME NEW j \in (o + 1) .. e
        PROVE  OddRun(Slashes(text), o, j) <=> OddRun(Slashes(text), o + 1, j)
    BY <1>4, <2>6, OddLater
  <2> QED BY <1>4, <2>5, <2>7
<1> HIDE DEF esc, open
<1>7. {j \in (o + 1) .. (e - 1) : text[j] \in {quote, "\n"} /\ ~esc[j]} = {e - 1}
  <2>1. \A j \in (o + 1) .. (e - 1) : j \in (o + 1) .. e
    OBVIOUS
  <2> QED BY <1>1, <1>2, <1>6, <2>1 DEF ClosesFrom
<1>8. quote = IF toks[k].kind = "strlit" THEN Double ELSE Single
  BY <1>2 DEF Quote
<1> QED BY <1>5, <1>7, <1>8, Zenon DEF esc, open, quote

(* Whatever the source, a string or character literal ends at the first    *)
(* quote that no backslash escapes, where a backslash that is escaped      *)
(* escapes nothing, and passes no newline but escaped ones (lex_string and *)
(* lex_char, Lexer.c:529-579).                                             *)
THEOREM LiteralsEnd == Spec => []LiteralsClosed
<1>1. Init => ClosedLiterals
  BY DEF Init, ClosedLiterals
<1> QED BY <1>1, InitTyped, NextTyped, LiteralsStep, ClosedMeans, PTL DEF Spec

=============================================================================
