------------------------------- MODULE Parser -------------------------------
(***************************************************************************)
(* The recursive-descent parser of parser.c.  A frame of goals is a call   *)
(* of a parse function, or of the part of one that builds a node: its kind *)
(* (the function, or the node to be built), the token it began at (from),  *)
(* the token the node keeps (at), what its calls returned so far (kids),   *)
(* what it still has to do (todo) and the type a declaration has reached.  *)
(*                                                                         *)
(* The tokens of the file are chosen as parse_advance reads them, so every *)
(* file over the given tokens is parsed: toks are the tokens read, P->cur  *)
(* is toks[at] and P->peek the one after it.  A token is a string: its     *)
(* kind, or a literal that Literals gives the kind and the characters of.  *)
(*                                                                         *)
(* parse_add_typedef_name is never called, so parse_is_typedef_name is     *)
(* FALSE and no identifier starts a declaration.                           *)
(***************************************************************************)
EXTENDS Integers, FiniteSets, SequencesExt

CONSTANTS
    Files,     \* records [lead, words, free, tail]: the tokens a file begins with, then
               \* so many of these words (free), then the tokens it ends with
    Literals,  \* a function from literal tokens to [kind, text]
    IntMax     \* the largest value of type int

VARIABLES
    file,    \* the member of Files that is parsed
    toks,    \* the tokens read
    at,      \* the place of P->cur in toks
    goals,   \* the calls that are active, innermost first
    nodes,   \* the nodes built; a node is named by its place, 0 is NULL
    status   \* "going", "done", or "rejected": exit(1)

vars == <<file, toks, at, goals, nodes, status>>

Kind(t) == IF t \in DOMAIN Literals THEN Literals[t].kind ELSE t
Cur == Kind(toks[at])
Peek == Kind(toks[at + 1])

(* next_token: any token of the file, and its end for ever after the end.  *)
next_token(ts) ==
    LET n == Len(ts) + 1
        lead == Len(file.lead)
    IN  CASE n <= lead -> {file.lead[n]}
          [] n > lead /\ n <= lead + file.free -> file.words
          [] OTHER -> LET i == n - lead - file.free
                      IN  {IF i <= Len(file.tail) THEN file.tail[i] ELSE "eof"}

AdvanceKeepsPeek == at' = at + 1 /\ UNCHANGED toks
parse_advance == at' = at + 1 /\ \E t \in next_token(toks) : toks' = Append(toks, t)
Stay == UNCHANGED <<at, toks>>

-----------------------------------------------------------------------------
(* Types: a basic type and what derives from it, outermost first, each by  *)
(* its token; an array has the node of its length, or 0.                   *)

Plain(b) == [base |-> b, by |-> <<>>]
NoType == Plain("none")
DerivedInside(type, t, l) == [type EXCEPT !.by = @ \o <<[tok |-> t, len |-> l]>>]
Derived(type, t, l) == [type EXCEPT !.by = <<[tok |-> t, len |-> l]>> \o @]
IsFunc(type) == type.by # <<>> /\ toks[Head(type.by).tok] = "("

TypeKeywords ==
    {"void", "char", "short", "int", "long", "float", "double", "signed", "unsigned",
     "_Bool", "const", "volatile", "restrict", "struct", "union", "enum", "typedef",
     "static", "extern", "auto", "register", "inline"}
StartsDecl ==
    TypeKeywords \ {"restrict", "struct", "union", "enum", "typedef", "extern", "inline"}

(* The type the flags of parse_decl_specifiers come to, seen being the set *)
(* of the keywords passed.                                                 *)
Basic(seen) ==
    LET sign(b) == IF "unsigned" \in seen THEN "u" \o b ELSE b
    IN  IF "void" \in seen THEN "void"
        ELSE IF "_Bool" \in seen THEN "bool"
        ELSE IF "float" \in seen THEN "float"
        ELSE IF "double" \in seen THEN "double"
        ELSE IF "char" \in seen THEN sign("char")
        ELSE IF "short" \in seen THEN sign("short")
        ELSE IF "long" \in seen THEN sign("long")
        ELSE sign("int")

-----------------------------------------------------------------------------
(* Literals.  Characters are strings of length one, letters in lower case; *)
(* an escape stands for the character it names.                            *)

HexDigits ==
    <<"0", "1", "2", "3", "4", "5", "6", "7", "8", "9", "a", "b", "c", "d", "e", "f">>
IsDigit(c) == c \in Range(HexDigits)
DigitValue(c) == (CHOOSE i \in DOMAIN HexDigits : HexDigits[i] = c) - 1

decode_int(s) ==
    LET hex == Len(s) >= 2 /\ s[1] = "0" /\ s[2] = "x"
        base == IF hex THEN 16 ELSE IF s[1] = "0" THEN 8 ELSE 10
        char(acc, c) ==
            IF acc.stop \/ c = "l" THEN acc
            ELSE IF IsDigit(c) THEN [acc EXCEPT !.v = @ * base + DigitValue(c)]
            ELSE [acc EXCEPT !.stop = TRUE]
    IN  FoldLeft(char, [v |-> 0, stop |-> FALSE], IF hex THEN SubSeq(s, 3, Len(s)) ELSE s).v

int_literal_type(v, s) ==
    LET long == "l" \in Range(s) \/ ("u" \notin Range(s) /\ v > IntMax)
    IN  Plain((IF "u" \in Range(s) THEN "u" ELSE "") \o (IF long THEN "long" ELSE "int"))

Escape(e) ==
    CASE e = "n" -> "newline" [] e = "t" -> "tab" [] e = "r" -> "return" [] e = "0" -> "nul"
      [] OTHER -> e
CharEscape(e) ==
    CASE e = "a" -> "bell" [] e = "b" -> "backspace" [] e = "f" -> "feed" [] e = "v" -> "vtab"
      [] OTHER -> Escape(e)

decode_char(s) ==
    IF Len(s) < 3 THEN "nul"
    ELSE IF s[2] = "\\" /\ Len(s) >= 4 THEN CharEscape(s[3])
    ELSE s[2]

DecodeStrReescapes(s) ==
    LET out == SelectSeq([i \in 1 .. (Len(s) - 2) |-> i + 1], LAMBDA i : s[i] # "\\")
    IN  [i \in DOMAIN out |-> IF s[out[i] - 1] = "\\" THEN Escape(s[out[i]]) ELSE s[out[i]]]

(* What stands between the quotes, the first character and the last being  *)
(* taken for them.                                                         *)
decode_str(s) ==
    LET n == Len(s) - 1
        char(acc, i) ==
            IF acc.esc THEN [out |-> Append(acc.out, Escape(s[i])), esc |-> FALSE]
            ELSE IF s[i] = "\\" /\ i < n THEN [acc EXCEPT !.esc = TRUE]
            ELSE [acc EXCEPT !.out = Append(@, s[i])]
    IN  IF Len(s) < 2 THEN <<>>
        ELSE FoldLeft(char, [out |-> <<>>, esc |-> FALSE], [i \in 1 .. (n - 1) |-> i + 1]).out

-----------------------------------------------------------------------------
(* What a frame still does: expect a token, call a function, and the forms *)
(* of the loops and conditions of the code.  A step of one word is a place *)
(* where the code decides by what it sees; it has an action of that name.  *)

Token(k) == <<"expect", k>>
Call(f) == <<"call", f>>
If(k, f) == <<"if", k, f>>          \* if (parse_match(k)) f
Unless(k, f) == <<"unless", k, f>>  \* if (!parse_check(k)) f
Again(k, f) == <<"again", k, f>>    \* f was done; while (parse_match(k)) f
Until(k, f) == <<"until", k, f>>    \* while (!parse_check(k) && not at the end) f
Do(word) == <<word>>

Condition == <<Token("("), Call("expression"), Token(")")>>

ExpressionSteps(f) ==
    CASE f = "expression" -> <<Call("assignment"), Do("commas")>>
      [] f = "assignment" -> <<Call("conditional"), Do("assigns")>>
      [] f = "conditional" -> <<Call("binary"), Do("asks")>>
      [] f = "binary" -> <<Call("unary"), Do("operators")>>
      [] f = "postfix" -> <<Call("primary"), Do("suffixes")>>
      [] f = "parens" -> <<Call("expression"), Token(")")>>
      [] f \in {"COMMA_EXPR", "ASSIGN"} -> <<Call("assignment")>>
      [] f = "CONDITIONAL" -> <<Call("expression"), Token(":"), Call("conditional")>>
      [] f = "BINARY" -> <<Call("binary")>>
      [] f \in {"UNARY", "SIZEOF"} -> <<Call("unary")>>
      [] f = "INDEX" -> <<Call("expression"), Token("]")>>
      [] f = "CALL" -> <<Do("args"), Token(")")>>
      [] f = "MEMBER" -> <<Token("id")>>
      [] f = "POSTFIX" -> <<>>
      [] OTHER -> <<Do(f)>>  \* unary, primary, statement: decided by the token

StatementSteps(f) ==
    CASE f = "COMPOUND" -> <<Token("{"), Until("}", "statement"), Token("}")>>
      [] f = "IF" -> Condition \o <<Call("statement"), If("else", "statement")>>
      [] f \in {"WHILE", "SWITCH"} -> Condition \o <<Call("statement")>>
      [] f = "DO" -> <<Call("statement"), Token("while")>> \o Condition \o <<Token(";")>>
      [] f = "FOR" ->
            <<Token("("), Unless(";", "expression"), Token(";"), Unless(";", "expression"),
              Token(";"), Unless(")", "expression"), Token(")"), Call("statement")>>
      [] f = "CASE" -> <<Call("conditional"), Token(":"), Call("statement")>>
      [] f \in {"DEFAULT", "LABEL"} -> <<Token(":"), Call("statement")>>
      [] f \in {"BREAK", "CONTINUE"} -> <<Token(";")>>
      [] f = "GOTO" -> <<Token("id"), Token(";")>>
      [] f = "RETURN" -> <<Unless(";", "expression"), Token(";")>>
      [] f = "EXPR_STMT" -> <<Call("expression"), Token(";")>>
      [] OTHER -> ExpressionSteps(f)

Steps(f) ==
    CASE f = "TRANSLATION_UNIT" -> <<Until("eof", "DECL")>>
      [] f = "DECL" ->
            <<Call("specifiers"), Do("semi"), Call("declarator"), Do("body"),
              Again(",", "declarator"), Token(";")>>
      [] f = "FUNC_DEF" -> <<Call("COMPOUND")>>
      [] f = "specifiers" -> <<Do("words")>>
      [] f = "declarator" -> <<Do("stars"), Do("name"), Do("dims"), Do("params")>>
      [] f = "PARAM" -> <<Call("specifiers"), Call("declarator")>>
      [] f = "var_decl" ->
            <<Call("specifiers"), Call("variable"), Again(",", "variable"), Token(";")>>
      [] f = "variable" -> <<Do("id"), Do("stars"), Do("dims"), If("=", "assignment")>>
      [] OTHER -> StatementSteps(f)

Precedence(k) ==
    CASE k = "||" -> 1 [] k = "&&" -> 2 [] k = "|" -> 3 [] k = "^" -> 4 [] k = "&" -> 5
      [] k \in {"==", "!="} -> 6 [] k \in {"<", ">", "<=", ">="} -> 7 [] k \in {"<<", ">>"} -> 8
      [] k \in {"+", "-"} -> 9 [] k \in {"*", "/", "%"} -> 10 [] OTHER -> 0
AssignOps == {"=", "+=", "-=", "*=", "/=", "%=", "<<=", ">>=", "&=", "^=", "|="}
PrefixOps == {"+", "-", "!", "~", "&", "*", "++", "--"}

top == Head(goals)
todo == Head(top.todo)
Done == [top EXCEPT !.todo = Tail(@)]
Instead(steps) == [top EXCEPT !.todo = steps \o Tail(@)]
WithKid(f, n) == [f EXCEPT !.kids = Append(@, n)]
Going == status = "going" /\ goals # <<>>
At(word) == Going /\ top.todo # <<>> /\ todo = Do(word)

EnterLoose(f) ==
    [kind |-> f, from |-> at, at |-> at, kids |-> <<>>, todo |-> Steps(f),
     type |-> IF f \in {"declarator", "variable"} THEN top.type ELSE NoType,
     min |-> IF top.kind = "BINARY" THEN Precedence(Kind(toks[top.at])) ELSE 0]
Enter(f) ==
    [kind |-> f, from |-> at, at |-> at, kids |-> <<>>, todo |-> Steps(f),
     type |-> IF f \in {"declarator", "variable"} THEN top.type ELSE NoType,
     min |-> IF top.kind = "BINARY" THEN Precedence(Kind(toks[top.at])) + 1 ELSE 0]

(* The frame under way goes on as fs; the file, the nodes and status stay. *)
Go(fs) == goals' = fs \o Tail(goals) /\ UNCHANGED <<file, nodes, status>>
Reject == status' = "rejected" /\ Stay /\ UNCHANGED <<file, goals, nodes>>

(* The frame builds a node of this kind, which keeps the current token.    *)
Becomes(kind, steps) == Go(<<[top EXCEPT !.kind = kind, !.at = at, !.todo = steps]>>)

WrapKeepsKid(kind, f) ==
    Go(<<[top EXCEPT !.kind = kind, !.at = at, !.todo = Steps(kind)], f>>)
(* What the frame has read becomes the first kid of a new node, which the  *)
(* frame, left as f, will get back in its place.                           *)
Wrap(kind, f) ==
    Go(<<[top EXCEPT !.kind = kind, !.at = at, !.todo = Steps(kind)],
         [f EXCEPT !.kids = <<>>]>>)

(* The call returns node n (0: NULL) to its caller, which may keep a type. *)
Returns(n, type) ==
    /\ goals' = IF Len(goals) = 1 THEN <<>>
                ELSE LET caller == [goals[2] EXCEPT !.type = type]
                     IN  <<IF n = 0 THEN caller ELSE WithKid(caller, n)>>
                             \o Tail(Tail(goals))
    /\ status' = IF Len(goals) = 1 THEN "done" ELSE status
    /\ UNCHANGED file
Return(n) == Returns(n, IF Len(goals) = 1 THEN NoType ELSE goals[2].type)

-----------------------------------------------------------------------------
(* Steps that any function may take                                        *)

parse_expect ==
    /\ Going /\ top.todo # <<>> /\ todo[1] = "expect"
    /\ IF Cur = todo[2] THEN parse_advance /\ Go(<<Done>>) ELSE Reject

CallStep ==
    /\ Going /\ top.todo # <<>> /\ todo[1] = "call"
    /\ Stay /\ Go(<<Enter(todo[2]), Done>>)

MatchStays ==
    /\ Going /\ top.todo # <<>> /\ todo[1] \in {"if", "again"} /\ Stay
    /\ LET again == IF todo[1] = "again" THEN <<todo>> ELSE <<>>
       IN  Go(<<IF Cur = todo[2] THEN Instead(<<Call(todo[3])>> \o again)
                ELSE IF todo[1] = "if" THEN WithKid(Done, 0) ELSE Done>>)

parse_match ==
    /\ Going /\ top.todo # <<>> /\ todo[1] \in {"if", "again"}
    /\ LET again == IF todo[1] = "again" THEN <<todo>> ELSE <<>>
       IN  IF Cur = todo[2] THEN parse_advance /\ Go(<<Instead(<<Call(todo[3])>> \o again)>>)
           ELSE Stay /\ Go(<<IF todo[1] = "if" THEN WithKid(Done, 0) ELSE Done>>)

parse_check ==
    /\ Going /\ top.todo # <<>> /\ todo[1] \in {"unless", "until"}
    /\ Stay
    /\ CASE todo[1] = "unless" /\ Cur = todo[2] -> Go(<<WithKid(Done, 0)>>)
         [] todo[1] = "unless" /\ Cur # todo[2] -> Go(<<Instead(<<Call(todo[3])>>)>>)
         [] todo[1] = "until" /\ Cur \in {todo[2], "eof"} -> Go(<<Done>>)
         [] OTHER -> Go(<<Enter(todo[3]), top>>)

-----------------------------------------------------------------------------
(* Declarations                                                            *)

Words ==  \* the loop of parse_decl_specifiers
    /\ At("words")
    /\ IF Cur \in TypeKeywords THEN parse_advance /\ Go(<<top>>)
       ELSE /\ Stay /\ UNCHANGED nodes
            /\ Returns(0, Plain(Basic({Kind(toks[i]) : i \in top.from .. (at - 1)})))

NothingDeclared ==  \* parse_external_decl: nothing declared
    /\ At("semi")
    /\ IF Cur = ";" THEN parse_advance /\ UNCHANGED nodes /\ Return(0)
       ELSE Stay /\ Go(<<[Done EXCEPT !.at = at]>>)

FuncOrNothing ==
    /\ At("body") /\ Stay
    /\ IF top.kids # <<>> /\ Cur = "{" /\ IsFunc(nodes[top.kids[1]].type)
       THEN Go(<<[top EXCEPT !.kind = "FUNC_DEF", !.todo = Steps("FUNC_DEF")]>>)
       ELSE UNCHANGED nodes /\ Return(0)

FuncOrDecl ==  \* parse_external_decl: what the first declarator turned out to be
    /\ At("body") /\ Stay
    /\ CASE top.kids = <<>> -> UNCHANGED nodes /\ Return(0)
         [] top.kids # <<>> /\ Cur = "{" /\ IsFunc(nodes[top.kids[1]].type) ->
                Go(<<[top EXCEPT !.kind = "FUNC_DEF", !.todo = Steps("FUNC_DEF")]>>)
         [] OTHER -> Go(<<Done>>)

Stars ==
    /\ At("stars")
    /\ IF Cur = "*" THEN parse_advance /\ Go(<<[top EXCEPT !.type = Derived(@, at, 0)]>>)
       ELSE Stay /\ Go(<<Done>>)

DeclaratorName ==  \* parse_declarator, which goes on without a name
    /\ At("name")
    /\ IF Cur = "id" THEN parse_advance /\ Go(<<[Done EXCEPT !.kind = "IDENT", !.at = at]>>)
       ELSE Stay /\ Go(<<Done>>)

VariableName ==  \* parse_var_decl: the name comes first
    /\ At("id")
    /\ IF Cur = "id" THEN parse_advance /\ Go(<<[Done EXCEPT !.kind = "VAR_DECL", !.at = at]>>)
       ELSE Reject

Dimensions ==
    /\ At("dims")
    /\ IF Cur = "["
       THEN parse_advance
            /\ Go(<<Instead(<<Unless("]", "primary"), Token("]"), <<"array", at>>, Do("dims")>>)>>)
       ELSE Stay /\ Go(<<Done>>)

Parameters ==
    /\ At("params")
    /\ IF Cur = "(" THEN parse_advance /\ Go(<<Instead(<<Do("list"), Token(")"), <<"func", at>>>>)>>)
       ELSE Stay /\ Go(<<Done>>)

Derive ==  \* an array or function type is put on what the declarator has so far
    /\ Going /\ top.todo # <<>> /\ todo[1] \in {"array", "func"}
    /\ Stay
    /\ LET n == IF todo[1] = "array" THEN Last(top.kids) ELSE 0
       IN  Go(<<[Done EXCEPT !.type = Derived(@, todo[2], n),
                             !.kids = IF todo[1] = "array" THEN Front(@) ELSE @]>>)

ParameterList ==  \* the parameters between the parentheses
    /\ At("list")
    /\ CASE Cur = ")" -> Stay /\ Go(<<Done>>)
         [] Cur = "void" /\ Peek = ")" -> parse_advance /\ Go(<<Done>>)
         [] OTHER -> Stay /\ Go(<<Instead(<<Do("param")>>)>>)

Parameter ==
    /\ At("param")
    /\ IF Cur = "..." THEN parse_advance /\ Go(<<Done>>)
       ELSE Stay /\ Go(<<Enter("PARAM"), Instead(<<Do("next")>>)>>)

NextParameter ==
    /\ At("next")
    /\ IF Cur = "," THEN parse_advance /\ Go(<<Instead(<<Do("param")>>)>>)
       ELSE Stay /\ Go(<<Done>>)

-----------------------------------------------------------------------------
(* Statements                                                              *)

StatementOf ==
    [t \in {"if", "while", "do", "for", "switch", "case", "default", "break", "continue", "goto",
            "return"} |->
        CASE t = "if" -> "IF" [] t = "while" -> "WHILE" [] t = "do" -> "DO" [] t = "for" -> "FOR"
          [] t = "switch" -> "SWITCH" [] t = "case" -> "CASE" [] t = "default" -> "DEFAULT"
          [] t = "break" -> "BREAK" [] t = "continue" -> "CONTINUE" [] t = "goto" -> "GOTO"
          [] t = "return" -> "RETURN"]

parse_statement ==
    /\ At("statement")
    /\ CASE Cur \in StartsDecl -> Stay /\ Becomes("var_decl", Steps("var_decl"))
         [] Cur = "{" -> Stay /\ Becomes("COMPOUND", Steps("COMPOUND"))
         [] Cur = ";" -> parse_advance /\ Becomes("EXPR_STMT", <<>>)
         [] Cur \in DOMAIN StatementOf ->
                parse_advance /\ Becomes(StatementOf[Cur], Steps(StatementOf[Cur]))
         [] Cur = "id" /\ Peek = ":" -> parse_advance /\ Becomes("LABEL", Steps("LABEL"))
         [] OTHER -> Stay /\ Becomes("EXPR_STMT", Steps("EXPR_STMT"))

-----------------------------------------------------------------------------
(* Expressions                                                             *)

parse_expression ==
    /\ At("commas")
    /\ IF Cur = "," THEN parse_advance /\ Wrap("COMMA_EXPR", top) ELSE Stay /\ Go(<<Done>>)

parse_assignment ==
    /\ At("assigns")
    /\ IF Cur \in AssignOps THEN parse_advance /\ Wrap("ASSIGN", Done) ELSE Stay /\ Go(<<Done>>)

parse_conditional ==
    /\ At("asks")
    /\ IF Cur = "?" THEN parse_advance /\ Wrap("CONDITIONAL", Done) ELSE Stay /\ Go(<<Done>>)

parse_binary ==
    /\ At("operators")
    /\ IF Precedence(Cur) # 0 /\ Precedence(Cur) >= top.min
       THEN parse_advance /\ Wrap("BINARY", top) ELSE Stay /\ Go(<<Done>>)

parse_unary ==
    /\ At("unary")
    /\ CASE Cur \in PrefixOps -> parse_advance /\ Becomes("UNARY", Steps("UNARY"))
         [] Cur = "sizeof" -> parse_advance /\ Becomes("SIZEOF", <<Do("sizeof")>>)
         [] OTHER -> Stay /\ Becomes("postfix", Steps("postfix"))

parse_sizeof ==
    /\ At("sizeof")
    /\ IF Cur = "(" THEN parse_advance /\ Go(<<Instead(Steps("parens"))>>)
       ELSE Stay /\ Go(<<Instead(Steps("SIZEOF"))>>)

SuffixOf ==
    [t \in {"[", "(", ".", "->", "++", "--"} |->
        CASE t = "[" -> "INDEX" [] t = "(" -> "CALL" [] t \in {".", "->"} -> "MEMBER"
          [] t \in {"++", "--"} -> "POSTFIX"]

parse_postfix ==
    /\ At("suffixes")
    /\ IF Cur \in DOMAIN SuffixOf THEN parse_advance /\ Wrap(SuffixOf[Cur], top)
       ELSE Stay /\ Go(<<Done>>)

Arguments ==
    /\ At("args") /\ Stay
    /\ Go(<<IF Cur = ")" THEN Done
            ELSE Instead(<<Call("assignment"), Again(",", "assignment")>>)>>)

LeafOf ==
    [t \in {"id", "intlit", "floatlit", "charlit", "strlit"} |->
        CASE t = "id" -> "IDENT" [] t = "intlit" -> "INT_LIT" [] t = "floatlit" -> "FLOAT_LIT"
          [] t = "charlit" -> "CHAR_LIT" [] t = "strlit" -> "STR_LIT"]

parse_primary ==
    /\ At("primary")
    /\ CASE Cur \in DOMAIN LeafOf -> parse_advance /\ Becomes(LeafOf[Cur], <<>>)
         [] Cur = "(" -> parse_advance /\ Becomes("parens", Steps("parens"))
         [] OTHER -> Reject

-----------------------------------------------------------------------------
(* A call that has done everything returns                                 *)

Value(kind, s) ==
    CASE kind = "INT_LIT" -> <<"int", decode_int(s)>>
      [] kind = "CHAR_LIT" -> <<"char", decode_char(s)>>
      [] kind = "STR_LIT" -> <<"str", decode_str(s)>>
      [] OTHER -> <<"none">>

(* The type a node is given.  The array a string is has the length of its  *)
(* value and one more.                                                     *)
TypeOf(f) ==
    LET s == Literals[toks[f.at]].text
    IN  CASE f.kind = "INT_LIT" -> int_literal_type(decode_int(s), s)
          [] f.kind = "FLOAT_LIT" -> Plain(IF Last(s) = "f" THEN "float" ELSE "double")
          [] f.kind = "CHAR_LIT" -> Plain("int")
          [] f.kind = "STR_LIT" -> Derived(Plain("char"), f.at, 0)
          [] f.kind = "FUNC_DEF" -> [nodes[f.kids[1]].type EXCEPT !.by = Tail(@)]
          [] OTHER -> f.type

new_node(kind, tok) ==
    nodes' = Append(nodes,
        [kind |-> kind, tok |-> tok, from |-> top.from, to |-> at - 1, kids |-> top.kids,
         type |-> TypeOf(top), closed |-> 0,
         value |-> Value(kind, IF kind \in {"INT_LIT", "CHAR_LIT", "STR_LIT"}
                               THEN Literals[toks[tok]].text ELSE <<>>)])

PassedOn == {"expression", "assignment", "conditional", "binary", "postfix"}

FunctionReturn ==  \* what was parsed, or NULL, without a node of its own
    /\ Going /\ top.todo = <<>> /\ Stay
    /\ \/ top.kind \in PassedOn /\ Return(top.kids[1]) /\ UNCHANGED nodes
       \/ top.kind = "declarator" /\ Return(0) /\ UNCHANGED nodes
       \/ /\ top.kind = "parens" \/ (top.kind = "var_decl" /\ Len(top.kids) = 1)
          /\ Return(top.kids[1])
          /\ LET v == nodes[top.kids[1]]
                 closed == IF top.kind = "parens" THEN v.closed + 1 ELSE v.closed
             IN  nodes' = [nodes EXCEPT ![top.kids[1]] =
                    [v EXCEPT !.from = top.from, !.to = at - 1, !.closed = closed]]

(* parse_var_decl makes a compound of several variables; the type that one *)
(* variable reached is where the next one starts.                          *)
NodeReturn ==
    /\ Going /\ top.todo = <<>> /\ Stay
    /\ top.kind \notin PassedOn \cup {"declarator", "parens"}
    /\ top.kind = "var_decl" => Len(top.kids) > 1
    /\ IF top.kind = "var_decl" THEN new_node("COMPOUND", nodes[top.kids[1]].tok)
       ELSE new_node(top.kind, top.at)
    /\ IF top.kind = "VAR_DECL" THEN Returns(Len(nodes) + 1, top.type)
       ELSE Return(Len(nodes) + 1)

-----------------------------------------------------------------------------
Init ==
    /\ file \in Files
    /\ \E t \in next_token(<<>>) : \E u \in next_token(<<t>>) : toks = <<t, u>>
    /\ at = 1
    /\ goals = <<[kind |-> "TRANSLATION_UNIT", from |-> 1, at |-> 1, kids |-> <<>>,
                  todo |-> Steps("TRANSLATION_UNIT"), type |-> NoType, min |-> 0]>>
    /\ nodes = <<>>
    /\ status = "going"

Declaration ==
    \/ Words \/ NothingDeclared \/ FuncOrDecl \/ Stars \/ DeclaratorName \/ VariableName
    \/ Dimensions \/ Parameters \/ Derive \/ ParameterList \/ Parameter \/ NextParameter
Expression ==
    \/ parse_expression \/ parse_assignment \/ parse_conditional \/ parse_binary
    \/ parse_unary \/ parse_sizeof \/ parse_postfix \/ Arguments \/ parse_primary
Next ==
    \/ parse_expect \/ CallStep \/ parse_match \/ parse_check
    \/ Declaration \/ parse_statement \/ Expression
    \/ FunctionReturn \/ NodeReturn

(* The parser is one thread: it goes on as long as it has something to do. *)
Spec == Init /\ [][Next]_vars /\ WF_vars(Next)

-----------------------------------------------------------------------------
(* Properties.  from and to are kept for them: the tokens a node stands    *)
(* for, with as many pairs of parentheses around it as closed says.        *)

(* Frames and nodes are well formed in every state: kids are built before  *)
(* the node, types name tokens read, and one token is read ahead.          *)
TypeOK ==
    /\ file \in Files /\ status \in {"going", "done", "rejected"}
    /\ at >= 1 /\ Len(toks) = at + 1
    /\ \A i \in DOMAIN goals :
        /\ goals[i].from \in 1 .. at /\ goals[i].at \in 1 .. at /\ goals[i].min \in 0 .. 11
        /\ \A k \in Range(goals[i].kids) : k \in 0 .. Len(nodes)
        /\ Range(goals[i].type.by) \subseteq [tok : 1 .. at, len : 0 .. Len(nodes)]
    /\ \A n \in DOMAIN nodes :
        /\ nodes[n].tok \in 1 .. at
        /\ \A k \in Range(nodes[n].kids) : k \in 0 .. (n - 1)
        /\ Range(nodes[n].type.by) \subseteq [tok : 1 .. at, len : 0 .. (n - 1)]
    /\ status = "done" <=> goals = <<>>

Span(n) == nodes[n].from .. nodes[n].to
KidsOf(n) == SelectSeq(nodes[n].kids, LAMBDA k : k # 0)
KindAt(n) == Kind(toks[nodes[n].tok])
Declares(n) ==
    \/ nodes[n].kind \in {"TRANSLATION_UNIT", "DECL", "FUNC_DEF", "VAR_DECL", "PARAM"}
    \/ nodes[n].kind = "IDENT" /\ nodes[n].type # NoType
    \/ nodes[n].kind = "COMPOUND" /\ KindAt(n) # "{"

(* The tokens of node n that are in none of its kids, without commas.      *)
OwnTokens(n) ==
    LET v == nodes[n]
        first == v.from + v.closed
        kids == UNION {Span(k) : k \in Range(KidsOf(n))}
        place == [i \in 1 .. (v.to - v.closed - first + 1) |-> first + i - 1]
        own == SelectSeq(place, LAMBDA i : i \notin kids /\ Kind(toks[i]) # ",")
    IN  [i \in DOMAIN own |-> Kind(toks[own[i]])]

(* The tokens that the production of C has of its own.                     *)
Terminals(n) ==
    LET v == nodes[n]
        op == KindAt(n)
    IN  IF v.kind = "EXPR_STMT" THEN <<";">>
        ELSE CASE op = "?" -> <<op, ":">>
               [] op = "[" -> <<op, "]">>
               [] op = "(" -> <<op, ")">>
               [] op = "{" -> <<op, "}">>
               [] op \in {".", "->"} -> <<op, "id">>
               [] op = "," -> <<>>
               [] op = "if" -> <<op, "(", ")">> \o (IF v.kids[3] = 0 THEN <<>> ELSE <<"else">>)
               [] op \in {"while", "switch"} -> <<op, "(", ")">>
               [] op = "do" -> <<op, "while", "(", ")", ";">>
               [] op = "for" -> <<op, "(", ";", ";", ")">>
               [] op = "goto" -> <<op, "id", ";">>
               [] op \in {"break", "continue", "return"} -> <<op, ";">>
               [] v.kind \in {"CASE", "DEFAULT", "LABEL"} -> <<op, ":">>
               [] OTHER -> <<op>>

(* The nodes built are trees over the source, also while parsing goes on:  *)
(* the kids of a node are pieces of it that are disjoint and in its order, *)
(* and a node is a kid of one node only, though parentheses and            *)
(* declarations widen nodes that were finished, and what a call has parsed *)
(* becomes the operand of what it returns.                                 *)
TreesNest ==
    \A n \in DOMAIN nodes : \A i \in DOMAIN nodes[n].kids :
        LET k == nodes[n].kids[i]
        IN  k # 0 =>
                /\ nodes[n].from <= nodes[k].from /\ nodes[k].to <= nodes[n].to
                /\ \A j \in DOMAIN nodes[n].kids :
                    i < j /\ nodes[n].kids[j] # 0 => nodes[k].to < nodes[nodes[n].kids[j]].from
                /\ \A m \in DOMAIN nodes \ {n} : k \notin Range(nodes[m].kids)

(* The tree of an accepted file is the source: what is left of a node      *)
(* between its kids is what the production of C has there, and a block     *)
(* without braces is a declaration of several variables and of nothing     *)
(* else.                                                                   *)
SpellsSource ==
    status = "done" => \A n \in DOMAIN nodes :
        /\ ~Declares(n) =>
            \/ OwnTokens(n) = Terminals(n)
            \/ KindAt(n) = "sizeof" /\ OwnTokens(n) = <<"sizeof", "(", ")">>
        /\ nodes[n].kind = "COMPOUND" /\ Declares(n) =>
            Len(KidsOf(n)) > 1 /\ \A k \in Range(KidsOf(n)) : nodes[k].kind = "VAR_DECL"

BinaryLevels ==
    <<{"||"}, {"&&"}, {"|"}, {"^"}, {"&"}, {"==", "!="}, {"<", ">", "<=", ">="},
      {"<<", ">>"}, {"+", "-"}, {"*", "/", "%"}>>
BinaryLevel(n) == 3 + CHOOSE l \in 1 .. 10 : KindAt(n) \in BinaryLevels[l]

(* The level of the production of C that an expression belongs to.         *)
Level(n) ==
    LET k == nodes[n].kind
    IN  IF nodes[n].closed > 0 THEN 16
        ELSE CASE k = "COMMA_EXPR" -> 1
               [] k = "ASSIGN" -> 2
               [] k = "CONDITIONAL" -> 3
               [] k = "BINARY" -> BinaryLevel(n)
               [] k \in {"UNARY", "SIZEOF"} -> 14
               [] k \in {"INDEX", "CALL", "MEMBER", "POSTFIX"} -> 15
               [] OTHER -> 16

(* Operators bind as the grammar of C says, without parentheses, and an    *)
(* else belongs to the nearest if.  The left side of an assignment may be  *)
(* any conditional expression here, which C leaves to a constraint; the    *)
(* operand of sizeof is unary, or stands in the parentheses after it.      *)
BindsAsC ==
    status = "done" => \A n \in DOMAIN nodes :
        LET k == nodes[n].kids
            kind == nodes[n].kind
            least(l, r) == Level(k[1]) >= l /\ Level(k[2]) >= r
        IN  CASE kind = "COMMA_EXPR" -> least(1, 2)
              [] kind = "ASSIGN" -> least(3, 2)
              [] kind = "CONDITIONAL" -> Level(k[1]) >= 4 /\ Level(k[3]) >= 3
              [] kind = "BINARY" -> least(BinaryLevel(n), BinaryLevel(n) + 1)
              [] kind = "UNARY" -> Level(k[1]) >= 14
              [] kind = "SIZEOF" -> Level(k[1]) >= 14 \/ nodes[k[1]].from > nodes[n].tok + 1
              [] kind \in {"INDEX", "CALL", "MEMBER", "POSTFIX"} -> Level(k[1]) >= 15
              [] kind = "IF" -> k[3] # 0 \/ Kind(toks[nodes[n].to + 1]) # "else"
              [] OTHER -> TRUE

(* The keywords of a basic type of C, whatever their order, and its name.  *)
CBasic ==
    {<<{"void"}, "void">>, <<{"_Bool"}, "bool">>, <<{"float"}, "float">>,
     <<{"double"}, "double">>, <<{"char"}, "char">>, <<{"signed", "char"}, "char">>,
     <<{"unsigned", "char"}, "uchar">>, <<{"int"}, "int">>, <<{"signed"}, "int">>,
     <<{"signed", "int"}, "int">>, <<{"unsigned"}, "uint">>, <<{"unsigned", "int"}, "uint">>}
    \cup {<<s \cup {l} \cup i, (IF "unsigned" \in s THEN "u" ELSE "") \o l>> :
            s \in {{}, {"signed"}, {"unsigned"}}, l \in {"short", "long"}, i \in {{}, {"int"}}}
NoBasic == {"const", "volatile", "restrict", "static", "extern", "auto", "register", "inline",
            "typedef"}

(* The first tokens of node n that are specifiers.                         *)
SpecifierWords(n) ==
    {Kind(toks[i]) : i \in {j \in Span(n) :
        \A h \in nodes[n].from .. j : Kind(toks[h]) \in TypeKeywords}} \ NoBasic

(* The tokens of declarator n outside its brackets and its initializer.    *)
Outside(n) ==
    {i \in Span(n) :
        LET count(ks) == Cardinality({j \in nodes[n].from .. (i - 1) : Kind(toks[j]) \in ks})
        IN  count({"(", "["}) = count({")", "]"}) /\ count({"="}) = 0}
Brackets(n) == {i \in Outside(n) : Kind(toks[i]) \in {"(", "["}}
StarsOf(n) == {i \in Outside(n) : Kind(toks[i]) = "*"}

(* What derives the type of declarator n in C, outermost first: what       *)
(* stands after the name, then the stars before it from the last.  Nothing *)
(* is said of several brackets, whose order the parser turns round, and of *)
(* stars after the name, which are not C.                                  *)
DerivedAsC(n) ==
    Cardinality(Brackets(n)) <= 1 /\ (\A i \in StarsOf(n) : i < nodes[n].tok) =>
        [i \in DOMAIN nodes[n].type.by |-> nodes[n].type.by[i].tok] =
            SetToSeq(Brackets(n)) \o SetToSortSeq(StarsOf(n), >)

BasicAsC(n, words) ==
    \A b \in CBasic : b[1] = words => nodes[n].type.base = b[2]

(* A name has the type that its declaration spells in C: the basic type    *)
(* its specifiers name and the derivation of its declarator.  Not so, and  *)
(* left out here: in a local declaration a variable after one with stars   *)
(* or brackets has these too; the type a parameter node keeps for its      *)
(* function is the basic type alone.                                       *)
TypesAsDeclared ==
    status = "done" => \A n \in DOMAIN nodes :
        LET v == nodes[n]
            words == SpecifierWords(n)
            variables == IF v.kind = "VAR_DECL" THEN <<n>> ELSE v.kids
        IN  /\ v.kind \in {"DECL", "PARAM", "FUNC_DEF"} => BasicAsC(n, words)
            /\ v.kind \in {"DECL", "PARAM"} => v.type.by = <<>>
            /\ v.kind \in {"DECL", "PARAM", "FUNC_DEF"} =>
                \A k \in Range(v.kids) : nodes[k].kind = "IDENT" =>
                    BasicAsC(k, words) /\ DerivedAsC(k)
            /\ words # {} /\ (v.kind = "VAR_DECL" \/ (v.kind = "COMPOUND" /\ Declares(n))) =>
                \A i \in DOMAIN variables :
                    /\ BasicAsC(variables[i], words)
                    /\ (\A j \in 1 .. (i - 1) : nodes[variables[j]].type.by = <<>>)
                        => DerivedAsC(variables[i])

(* The value of a literal: what C says of it.                              *)
CInt(s) ==
    LET digits == SelectSeq(s, LAMBDA c : c \notin {"u", "l", "x"})
        base == IF "x" \in Range(s) THEN 16 ELSE IF s[1] = "0" THEN 8 ELSE 10
    IN  FoldLeft(+, 0, [i \in DOMAIN digits |-> DigitValue(digits[i]) * base ^ (Len(digits) - i)])

(* The characters of s between its quotes that an escape does not begin,   *)
(* each with whether one did before it.                                    *)
CChars(s) ==
    LET escaped(i) ==
            LET run == {j \in 1 .. (i - 1) : \A h \in j .. (i - 1) : s[h] = "\\"}
            IN  Cardinality(run) % 2 = 1
        begins(i) == s[i] = "\\" /\ ~escaped(i)
    IN  {<<i, escaped(i)>> : i \in {j \in 2 .. (Len(s) - 1) : ~begins(j)}}

(* A literal has the value and the type C gives it.  Not so, and left out  *)
(* here: a hexadecimal or octal int that is unsigned in C is long; \a, \b, *)
(* \f, \v in a string are the letter; longer escapes are read one letter   *)
(* at a time; a prefix is taken for the opening quote.                     *)
LiteralsDecoded ==
    status = "done" => \A n \in DOMAIN nodes :
        LET v == nodes[n]
            s == Literals[toks[v.tok]].text
            u == "u" \in Range(s)
        IN  CASE v.kind = "INT_LIT" ->
                    /\ v.value = <<"int", CInt(s)>>
                    /\ v.type = Plain(IF u /\ "l" \in Range(s) THEN "ulong"
                                      ELSE IF "l" \in Range(s) THEN "long"
                                      ELSE IF u THEN "uint"
                                      ELSE IF CInt(s) <= IntMax THEN "int" ELSE "long")
              [] v.kind = "CHAR_LIT" ->
                    \E c \in CChars(s) : v.value = <<"char", IF c[2] THEN CharEscape(s[c[1]]) ELSE s[c[1]]>>
              [] v.kind = "STR_LIT" ->
                    LET cs == SetToSortSeq(CChars(s), LAMBDA a, b : a[1] < b[1])
                    IN  v.value = <<"str", [i \in DOMAIN cs |->
                            IF cs[i][2] THEN Escape(s[cs[i][1]]) ELSE s[cs[i][1]]]>>
              [] OTHER -> TRUE

(* What a finished parse has lost: tokens in no declaration of the tree.   *)
Lost == (1 .. (at - 1)) \ UNION {Span(k) : k \in Range(nodes[Len(nodes)].kids)}

(* A file that is accepted is all in the tree, but for declarations of     *)
(* nothing, and for declarators without a name: what stands in the         *)
(* brackets of such a one (a pointer to a function) is dropped without a   *)
(* word.                                                                   *)
LostOnlyNameless ==
    status = "done" =>
        \A i \in Lost : Kind(toks[i]) \notin TypeKeywords \cup {";", "*"} =>
            \E j \in Lost : /\ j <= i /\ j .. i \subseteq Lost
                            /\ Kind(toks[j]) \in {"(", "["}
                            /\ j > 1 => Kind(toks[j - 1]) # "id"

(* Where parse_external_decl comes back without having read a token.       *)
Untaken == Len(goals) = 1 /\ Cur \notin TypeKeywords \cup {";", "*", "id", "[", "(", "eof"}

(* Whatever the file, the parser comes to its end or rejects it; but for   *)
(* one place: before a token that no declaration takes, the loop over the  *)
(* declarations goes round for ever.                                       *)
Settles == <>(status # "going" \/ Untaken)

=============================================================================
